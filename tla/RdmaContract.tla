---------------------------- MODULE RdmaContract ----------------------------
(***************************************************************************)
(* What try_rdma_copy (remote.rs) promises to the transfer that calls it,  *)
(* and what FileSync takes it to do in its actions RdmaOpen, RdmaPacket,   *)
(* RdmaCopied and RdmaUnavailable: the partial file is made anew, filled   *)
(* from the front with what this transfer's own helper reads, whole when   *)
(* the call returns Copied, and left alone after the call has returned.    *)
(***************************************************************************)
EXTENDS Integers, Sequences

CONSTANTS
    Transfers,  \* the calls of try_rdma_copy, one for each file
    Size        \* source_size, in units of a packet

VARIABLES
    phase,  \* how far each call is
    part    \* the partial file each call writes

vars == <<phase, part>>

NoPart == <<"absent">>
Blank  == <<"blank">>

\* What the helper of transfer t reads at offset n.
Unit(t, n) == <<t, n>>

\* The partial file when n units have been received.
Filled(t, n) == [k \in 1..Size |-> IF k <= n THEN Unit(t, k - 1) ELSE Blank]

Init ==
    /\ phase = [t \in Transfers |-> "new"]
    /\ part = [t \in Transfers |-> NoPart]

Call(t) ==
    /\ phase[t] = "new"
    /\ phase' = [phase EXCEPT ![t] = "busy"]
    /\ UNCHANGED part

Open(t) ==
    /\ phase[t] = "busy"
    /\ part[t] = NoPart
    /\ part' = [part EXCEPT ![t] = Filled(t, 0)]
    /\ UNCHANGED phase

Fill(t) ==
    /\ phase[t] = "busy"
    /\ \E n \in 0 .. Size - 1 :
        /\ part[t] = Filled(t, n)
        /\ part' = [part EXCEPT ![t] = Filled(t, n + 1)]
    /\ UNCHANGED phase

Copied(t) ==
    /\ phase[t] = "busy"
    /\ part[t] = Filled(t, Size)
    /\ phase' = [phase EXCEPT ![t] = "copied"]
    /\ UNCHANGED part

Unavailable(t) ==
    /\ phase[t] = "busy"
    /\ phase' = [phase EXCEPT ![t] = "unavailable"]
    /\ UNCHANGED part

Next ==
    \E t \in Transfers :
        Call(t) \/ Open(t) \/ Fill(t) \/ Copied(t) \/ Unavailable(t)

Spec == Init /\ [][Next]_vars

=============================================================================
