------------------------------ MODULE RdmaCopy ------------------------------
(***************************************************************************)
(* Copying files by RDMA: try_rdma_copy of remote.rs, which starts a       *)
(* receiver thread and runs the helper on the source host, and the two     *)
(* ends of the data connection in rdma.rs (receive_to_path and             *)
(* send_file_with_keepalive).  Several workers of a run may each be in     *)
(* such a call.  A helper whose SSH channel was lost goes on, and when its *)
(* receiver has ended the port it connects to may be another receiver's.   *)
(***************************************************************************)
EXTENDS Integers, Sequences

CONSTANTS
    Transfers,  \* the calls of try_rdma_copy, one for each file
    Size,       \* source_size, in units of a packet
    Buffer,     \* how many packets a connection holds
    MaxFaults   \* how much goes wrong: see Fault

ASSUME RdmaAssumption ==
    /\ Size \in Nat
    /\ Buffer \in Nat \ {0}
    /\ MaxFaults \in Nat
    /\ "nobody" \notin Transfers

VARIABLES
    client,    \* how far each call is, and what it has returned
    output,    \* what run_exec_with_input_output has returned
    cancel,    \* the flag the client shares with its receiver
    receiver,  \* where the receiver thread is, and what it has returned
    stream,    \* whose connection the receiver has accepted
    received,  \* the units it has received
    start,     \* stream_start
    part,      \* the partial file it writes
    helper,    \* where the helper is, and how it has ended
    offset,    \* the units the helper has sent
    conn,      \* whose receiver the helper has connected to
    chan,      \* the packets that are on the way
    faults     \* faults so far

clientVars   == <<client, output, cancel>>
receiverVars == <<receiver, stream, received, start, part>>
helperVars   == <<helper, offset>>
netVars      == <<conn, chan>>
vars == <<clientVars, receiverVars, helperVars, netVars, faults>>

NoPart == <<"absent">>
Blank  == <<"blank">>

Unit(t, n) == <<t, n>>

\* encode_packet: the token is the one of the helper's request.
Data(t, n) == [kind |-> "data", token |-> t, offset |-> n, payload |-> Unit(t, n)]
Done(t, n) == [kind |-> "done", token |-> t, offset |-> n, payload |-> Blank]

Fault ==
    /\ faults < MaxFaults
    /\ faults' = faults + 1

\* The listening socket is there from RdmaReceiver::bind until the receiver
\* is dropped, which also closes what it has accepted.
Listening(t) == receiver[t] \in {"open", "accept", "stream"}

HelperEnded(t) == helper[t] \in {"finished", "failed"}

-----------------------------------------------------------------------------
(* try_rdma_copy.                                                          *)

\* bind, and the spawn of the receiver thread.
Call(t) ==
    /\ client[t] = "new"
    /\ client' = [client EXCEPT ![t] = "exec"]
    /\ receiver' = [receiver EXCEPT ![t] = "open"]
    /\ UNCHANGED <<output, cancel, stream, received, start, part, helperVars,
                   netVars, faults>>

\* The remote command starts.
Exec(t) ==
    /\ client[t] = "exec"
    /\ helper[t] = "none"
    /\ helper' = [helper EXCEPT ![t] = "stat"]
    /\ UNCHANGED <<clientVars, receiverVars, offset, netVars, faults>>

Returns(t, result) ==
    /\ client[t] = "exec"
    /\ client' = [client EXCEPT ![t] = "join"]
    /\ output' = [output EXCEPT ![t] = result]
    /\ cancel' = [cancel EXCEPT ![t] = result \in {"error", "exit_1"}]

\* The helper has ended, with its report or with an error message.
ExecReturns(t) ==
    /\ HelperEnded(t)
    /\ Returns(t, IF helper[t] = "finished" THEN "report" ELSE "exit_1")
    /\ UNCHANGED <<receiverVars, helperVars, netVars, faults>>

\* No connection from the pool, the channel breaks, or nothing comes through
\* it for the timeout of the session (5 s); a helper that runs goes on.
ExecFails(t) ==
    /\ \/ helper[t] = "lost" /\ UNCHANGED faults
       \/ helper[t] # "lost" /\ Fault
    /\ Returns(t, "error")
    /\ UNCHANGED <<receiverVars, helperVars, netVars>>

\* The report is cut short and does not parse.
ReportGarbled(t) ==
    /\ Fault
    /\ helper[t] = "finished"
    /\ Returns(t, "garbled")
    /\ UNCHANGED <<receiverVars, helperVars, netVars>>

\* bytes_sent of the report against bytes_received of the receiver.
CountsAgree(t) == offset[t] = received[t]

\* The receiver's result counts only when the helper has exited with 0.
CopyAccepted(t) ==
    /\ output[t] = "report"
    /\ receiver[t] = "ok"
    /\ CountsAgree(t)

Join(t) ==
    /\ client[t] = "join"
    /\ receiver[t] \in {"ok", "failed"}
    /\ client' = [client EXCEPT ![t] =
                    IF CopyAccepted(t) THEN "copied" ELSE "unavailable"]
    /\ UNCHANGED <<output, cancel, receiverVars, helperVars, netVars, faults>>

-----------------------------------------------------------------------------
(* receive_to_path.                                                        *)

\* The thread returns: its sockets are dropped, and so is what they hold.
ReceiverEnds(t, result) ==
    /\ receiver' = [receiver EXCEPT ![t] = result]
    /\ stream' = [stream EXCEPT ![t] = "nobody"]
    /\ conn' = [u \in Transfers |->
                  IF conn[u] = t THEN "nobody" ELSE conn[u]]
    /\ chan' = [u \in Transfers |-> IF conn[u] = t THEN <<>> ELSE chan[u]]

ReceiverFails(t) ==
    /\ ReceiverEnds(t, "failed")
    /\ UNCHANGED <<clientVars, received, start, part, helperVars>>

OpenPart(t) ==
    /\ receiver[t] = "open"
    /\ part' = [part EXCEPT ![t] = [k \in 1..Size |-> Blank]]
    /\ receiver' = [receiver EXCEPT ![t] = "accept"]
    /\ UNCHANGED <<clientVars, stream, received, start, helperVars, netVars, faults>>

OpenFails(t) ==
    /\ receiver[t] = "open"
    /\ Fault
    /\ ReceiverFails(t)

Accept(t, u) ==
    /\ receiver[t] = "accept"
    /\ ~cancel[t]
    /\ conn[u] = t
    /\ receiver' = [receiver EXCEPT ![t] = "stream"]
    /\ stream' = [stream EXCEPT ![t] = u]
    /\ start' = [start EXCEPT ![t] = received[t]]
    /\ UNCHANGED <<clientVars, received, part, helperVars, netVars, faults>>

\* Mutant: a connection has no timeout.
TimesOutAccepting(t) ==
    /\ receiver[t] = "accept"
    /\ ReceiverFails(t)
    /\ UNCHANGED faults

\* The timeout of accept, or the one of recv_exact_with_timeout.
TimesOut(t) ==
    /\ receiver[t] \in {"accept", "stream"}
    /\ ReceiverFails(t)
    /\ UNCHANGED faults

Cancelled(t) ==
    /\ receiver[t] \in {"accept", "stream"}
    /\ cancel[t]
    /\ ReceiverFails(t)
    /\ UNCHANGED faults

\* The peer is gone.  What it has sent may be lost with the connection.
PeerCloses(t) ==
    /\ receiver[t] = "stream"
    /\ HelperEnded(stream[t])
    /\ ReceiverFails(t)
    /\ UNCHANGED faults

\* Mutant: the token is not compared.
OtherTokenIgnored(t, p) == FALSE

\* A packet with the token of another transfer: the stream is given up when
\* nothing has come from it, else the packet is skipped.
OtherToken(t, p) == p.token # t

GivesUpStream(t) == received[t] = start[t]

SkipPacket(t, p) ==
    /\ OtherToken(t, p)
    /\ LET u == stream[t] IN
        IF GivesUpStream(t)
        THEN /\ receiver' = [receiver EXCEPT ![t] = "accept"]
             /\ stream' = [stream EXCEPT ![t] = "nobody"]
             /\ conn' = [conn EXCEPT ![u] = "nobody"]
             /\ chan' = [chan EXCEPT ![u] = <<>>]
        ELSE /\ chan' = [chan EXCEPT ![u] = Tail(@)]
             /\ UNCHANGED <<receiver, stream, conn>>
    /\ UNCHANGED <<clientVars, received, start, part, helperVars, faults>>

InOrder(t, p) == p.offset = received[t]

\* Mutant: the size is not checked before a payload is written.
FitsAlways(t) == TRUE

Fits(t) == received[t] + 1 <= Size

WriteUnit(t, p) ==
    /\ ~OtherToken(t, p)
    /\ p.kind = "data"
    /\ InOrder(t, p)
    /\ Fits(t)
    /\ part' = [part EXCEPT ![t][received[t] + 1] = p.payload]
    /\ received' = [received EXCEPT ![t] = @ + 1]
    /\ chan' = [chan EXCEPT ![stream[t]] = Tail(@)]
    /\ UNCHANGED <<clientVars, receiver, stream, start, helperVars, conn, faults>>

\* Out of order, or more than the file should hold.
BadPacket(t, p) ==
    /\ ~OtherToken(t, p)
    /\ \/ ~InOrder(t, p)
       \/ p.kind = "data" /\ ~Fits(t)
    /\ ReceiverFails(t)
    /\ UNCHANGED faults

LastPacket(t, p) ==
    /\ ~OtherToken(t, p)
    /\ p.kind = "done"
    /\ InOrder(t, p)
    /\ ReceiverEnds(t, IF received[t] = Size THEN "ok" ELSE "failed")
    /\ UNCHANGED <<clientVars, received, start, part, helperVars, faults>>

Receive(t) ==
    /\ receiver[t] = "stream"
    /\ ~cancel[t]
    /\ chan[stream[t]] # <<>>
    /\ LET p == Head(chan[stream[t]])
       IN  SkipPacket(t, p) \/ WriteUnit(t, p) \/ BadPacket(t, p) \/ LastPacket(t, p)

-----------------------------------------------------------------------------
(* send_file_with_keepalive, in the helper of transfer t.                  *)

HelperFails(t) ==
    /\ helper' = [helper EXCEPT ![t] = "failed"]
    /\ UNCHANGED <<clientVars, receiverVars, offset, netVars>>

\* The file is opened; its size is the one of the request.
StatSource(t) ==
    /\ helper[t] = "stat"
    /\ helper' = [helper EXCEPT ![t] = "connect"]
    /\ UNCHANGED <<clientVars, receiverVars, offset, netVars, faults>>

\* It cannot be opened, or its size has changed.
StatFails(t) ==
    /\ helper[t] = "stat"
    /\ Fault
    /\ HelperFails(t)

\* The connection reaches the receiver that has the port: the helper's own,
\* or when that one has ended any other.
Connect(t) ==
    /\ helper[t] = "connect"
    /\ \E u \in Transfers :
        /\ Listening(u)
        /\ Listening(t) => u = t
        /\ conn' = [conn EXCEPT ![t] = u]
    /\ helper' = [helper EXCEPT ![t] = "send"]
    /\ UNCHANGED <<clientVars, receiverVars, offset, chan, faults>>

\* Refused, or timed out.
ConnectFails(t) ==
    /\ helper[t] = "connect"
    /\ HelperFails(t)
    /\ UNCHANGED faults

Connected(t) == conn[t] # "nobody"

SendPacket(t, p) ==
    /\ helper[t] = "send"
    /\ Connected(t)
    /\ Len(chan[t]) < Buffer
    /\ chan' = [chan EXCEPT ![t] = Append(@, p)]

\* One round of the read loop.
SendUnit(t) ==
    /\ offset[t] < Size
    /\ SendPacket(t, Data(t, offset[t]))
    /\ offset' = [offset EXCEPT ![t] = @ + 1]
    /\ UNCHANGED <<clientVars, receiverVars, helper, conn, faults>>

\* The source has grown since it was opened.
SendMore(t) ==
    /\ offset[t] >= Size
    /\ Fault
    /\ SendPacket(t, Data(t, offset[t]))
    /\ offset' = [offset EXCEPT ![t] = @ + 1]
    /\ UNCHANGED <<clientVars, receiverVars, helper, conn>>

SentAsRequested(t) == offset[t] = Size

\* The end of the source, where it was when it was opened.
SendDone(t) ==
    /\ SentAsRequested(t)
    /\ SendPacket(t, Done(t, offset[t]))
    /\ helper' = [helper EXCEPT ![t] = "finished"]
    /\ UNCHANGED <<clientVars, receiverVars, offset, conn, faults>>

\* It was elsewhere: the source has shrunk, or grown.
LengthChanged(t) ==
    /\ helper[t] = "send"
    /\ \/ offset[t] > Size /\ UNCHANGED faults
       \/ offset[t] < Size /\ Fault
    /\ HelperFails(t)

\* The receiver has closed the connection, or takes nothing from it for the
\* length of the timeout.
SendFails(t) ==
    /\ helper[t] = "send"
    /\ ~Connected(t) \/ Len(chan[t]) = Buffer
    /\ HelperFails(t)
    /\ UNCHANGED faults

\* The source host goes down, or its network: no end of a connection to it
\* notices.
HelperLost(t) ==
    /\ helper[t] \in {"stat", "connect", "send"}
    /\ Fault
    /\ helper' = [helper EXCEPT ![t] = "lost"]
    /\ UNCHANGED <<clientVars, receiverVars, offset, netVars>>

-----------------------------------------------------------------------------
Init ==
    /\ client = [t \in Transfers |-> "new"]
    /\ output = [t \in Transfers |-> "none"]
    /\ cancel = [t \in Transfers |-> FALSE]
    /\ receiver = [t \in Transfers |-> "none"]
    /\ stream = [t \in Transfers |-> "nobody"]
    /\ received = [t \in Transfers |-> 0]
    /\ start = [t \in Transfers |-> 0]
    /\ part = [t \in Transfers |-> NoPart]
    /\ helper = [t \in Transfers |-> "none"]
    /\ offset = [t \in Transfers |-> 0]
    /\ conn = [t \in Transfers |-> "nobody"]
    /\ chan = [t \in Transfers |-> <<>>]
    /\ faults = 0

ClientStep(t) ==
    Call(t) \/ Exec(t) \/ ExecReturns(t) \/ ExecFails(t) \/ ReportGarbled(t) \/ Join(t)

ReceiverStep(t) ==
    \/ OpenPart(t) \/ OpenFails(t)
    \/ \E u \in Transfers : Accept(t, u)
    \/ TimesOut(t) \/ Cancelled(t) \/ PeerCloses(t)
    \/ Receive(t)

HelperStep(t) ==
    \/ StatSource(t) \/ StatFails(t) \/ Connect(t) \/ ConnectFails(t)
    \/ SendUnit(t) \/ SendMore(t) \/ SendDone(t) \/ LengthChanged(t) \/ SendFails(t)
    \/ HelperLost(t)

Next ==
    \E t \in Transfers : ClientStep(t) \/ ReceiverStep(t) \/ HelperStep(t)

Spec == Init /\ [][Next]_vars

\* A thread that can go on does, and so does a helper on the source host;
\* no fault has to happen.
Fairness ==
    \A t \in Transfers :
        /\ WF_vars(ClientStep(t) /\ UNCHANGED faults)
        /\ WF_vars(ReceiverStep(t) /\ UNCHANGED faults)
        /\ WF_vars(HelperStep(t) /\ UNCHANGED faults)

FairSpec == Spec /\ Fairness

-----------------------------------------------------------------------------
(* Properties.                                                             *)

Contents == (Transfers \X (0 .. Size + MaxFaults)) \cup {Blank}

Packets ==
    [kind : {"data", "done"}, token : Transfers, offset : 0 .. Size + MaxFaults,
     payload : Contents]

\* The type of every variable; an open stream is that of a connection to
\* this receiver.
TypeOK ==
    /\ client \in [Transfers -> {"new", "exec", "join", "copied", "unavailable"}]
    /\ output \in [Transfers -> {"none", "report", "exit_1", "error", "garbled"}]
    /\ cancel \in [Transfers -> BOOLEAN]
    /\ receiver \in [Transfers -> {"none", "open", "accept", "stream", "ok", "failed"}]
    /\ stream \in [Transfers -> Transfers \cup {"nobody"}]
    /\ \A t \in Transfers : receiver[t] = "stream" => conn[stream[t]] = t
    /\ received \in [Transfers -> 0..Size]
    /\ start \in [Transfers -> 0..Size]
    /\ helper \in [Transfers ->
                    {"none", "stat", "connect", "send", "finished", "failed", "lost"}]
    /\ offset \in [Transfers -> 0 .. Size + MaxFaults]
    /\ conn \in [Transfers -> Transfers \cup {"nobody"}]
    /\ part \in [Transfers -> {NoPart} \cup [1..Size -> Contents]]
    /\ chan \in [Transfers -> Seq(Packets)]
    /\ \A t \in Transfers : Len(chan[t]) <= Buffer
    /\ faults \in 0..MaxFaults

\* The phase of RdmaContract a call is in.
phaseOf ==
    [t \in Transfers |->
        IF client[t] \in {"exec", "join"} THEN "busy" ELSE client[t]]

Contract == INSTANCE RdmaContract WITH phase <- phaseOf

\* try_rdma_copy keeps its promise whatever helpers and connections do: the
\* partial file holds what this transfer's helper has read, in order and from
\* the front, it is whole when Copied is returned, and nobody writes to it
\* once the call has returned (the caller removes it or puts it in place).
ImplementsContract == Contract!Spec

\* Every call returns, with its receiver thread joined, and every helper
\* that was started comes to its end: no side waits for the other for good.
EverythingEnds ==
    \A t \in Transfers :
        client[t] = "exec" ~> /\ client[t] \in {"copied", "unavailable"}
                              /\ receiver[t] \in {"ok", "failed"}
                              /\ helper[t] \in {"none", "finished", "failed", "lost"}

-----------------------------------------------------------------------------
(* The inductive invariant behind ImplementsContract.                      *)

\* A helper sends what it reads, in order, under the token of its request;
\* before it connects nothing of it is on the way.
PacketsAreOwn ==
    \A t \in Transfers :
        /\ offset[t] <= Size + faults
        /\ helper[t] \in {"none", "stat", "connect"} =>
              conn[t] = "nobody" /\ chan[t] = <<>>
        /\ \A k \in 1 .. Len(chan[t]) :
              /\ chan[t][k].token = t
              /\ chan[t][k].kind = "data" =>
                    chan[t][k].payload = Unit(t, chan[t][k].offset)

\* An accepted stream is that of a transfer that is connected.
StreamIsAccepted ==
    \A t \in Transfers : receiver[t] = "stream" => stream[t] \in Transfers

\* The receiver lives inside the call.
ReceiverIsJoined ==
    \A t \in Transfers :
        /\ client[t] = "new" <=> receiver[t] = "none"
        /\ client[t] \in {"copied", "unavailable"} => receiver[t] \in {"ok", "failed"}

\* What the receiver has counted is what is in the partial file.
PartIsFilled ==
    \A t \in Transfers :
        /\ receiver[t] \in {"none", "open"} => part[t] = NoPart /\ received[t] = 0
        /\ receiver[t] \in {"accept", "stream", "ok"} =>
              part[t] = Contract!Filled(t, received[t])
        /\ receiver[t] = "ok" => received[t] = Size

IInv ==
    /\ TypeOK
    /\ PacketsAreOwn
    /\ StreamIsAccepted
    /\ ReceiverIsJoined
    /\ PartIsFilled

=============================================================================
