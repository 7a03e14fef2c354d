--------------------------- MODULE RdmaCopy_proofs ---------------------------
(***************************************************************************)
(* RdmaCopy keeps its types and implements RdmaContract, for every set of  *)
(* transfers, file size, connection buffer and number of faults.           *)
(***************************************************************************)
EXTENDS RdmaCopy, SequenceTheorems, TLAPS

-----------------------------------------------------------------------------
(* Lemmas about connections.                                               *)

\* Putting a packet on a connection.
LEMMA AppendPacket ==
    ASSUME NEW s \in Seq(Packets), NEW p \in Packets, Len(s) < Buffer
    PROVE  /\ Append(s, p) \in Seq(Packets)
           /\ Len(Append(s, p)) <= Buffer
           /\ \A k \in 1 .. Len(Append(s, p)) :
                Append(s, p)[k] = p \/ (k \in 1 .. Len(s) /\ Append(s, p)[k] = s[k])
<1>1. Len(s) \in Nat /\ Buffer \in Nat
  BY RdmaAssumption
<1>. QED BY <1>1

\* Taking the first packet from a connection.
LEMMA TakePacket ==
    ASSUME NEW s \in Seq(Packets), s # <<>>, Len(s) <= Buffer
    PROVE  /\ Head(s) \in Packets /\ Head(s) = s[1] /\ 1 \in 1 .. Len(s)
           /\ Tail(s) \in Seq(Packets)
           /\ Len(Tail(s)) <= Buffer
           /\ \A k \in 1 .. Len(Tail(s)) : k + 1 \in 1 .. Len(s) /\ Tail(s)[k] = s[k + 1]
<1>1. Len(s) \in Nat \ {0} /\ Buffer \in Nat
  BY RdmaAssumption
<1>2. Head(s) = s[1] /\ s[1] \in Packets
  BY <1>1
<1>3. Len(Tail(s)) = Len(s) - 1 /\ Tail(s) \in Seq(Packets)
  BY <1>1
<1>. QED BY <1>1, <1>2, <1>3

\* A closed connection is empty.
LEMMA NoPackets == <<>> \in Seq(Packets) /\ Len(<<>>) = 0 /\ Len(<<>>) <= Buffer
  BY RdmaAssumption

\* What a helper puts on its connection is a packet.
LEMMA SentPacket ==
    ASSUME NEW t \in Transfers, NEW n \in 0 .. Size + MaxFaults
    PROVE  /\ Data(t, n) \in Packets /\ Done(t, n) \in Packets
           /\ Data(t, n).token = t /\ Done(t, n).token = t
           /\ Data(t, n).payload = Unit(t, n) /\ Data(t, n).offset = n
           /\ Done(t, n).kind = "done"
  BY DEF Data, Done, Packets, Contents, Unit

\* The partial file while it is filled from the front.
LEMMA FilledPart ==
    ASSUME NEW t \in Transfers, NEW n \in 0 .. Size
    PROVE  /\ Contract!Filled(t, n) \in [1 .. Size -> Contents]
           /\ Contract!Filled(t, 0) = [k \in 1 .. Size |-> Blank]
           /\ n < Size =>
                [Contract!Filled(t, n) EXCEPT ![n + 1] = Unit(t, n)]
                  = Contract!Filled(t, n + 1)
<1>. USE RdmaAssumption DEF Contract!Filled, Contract!Unit, Contract!Blank, Unit, Blank, Contents
<1>1. ASSUME NEW k \in 1 .. Size
      PROVE  (IF k <= n THEN <<t, k - 1>> ELSE <<"blank">>) \in Contents
  BY <1>1
<1>2. Contract!Filled(t, n) \in [1 .. Size -> Contents]
  BY <1>1
<1>3. Contract!Filled(t, 0) = [k \in 1 .. Size |-> Blank]
  OBVIOUS
<1>4. ASSUME n < Size
      PROVE  [Contract!Filled(t, n) EXCEPT ![n + 1] = Unit(t, n)]
               = Contract!Filled(t, n + 1)
  <2>. DEFINE f == [Contract!Filled(t, n) EXCEPT ![n + 1] = Unit(t, n)]
  <2>1. \A k \in 1 .. Size : k <= n + 1 <=> (k <= n \/ k = n + 1)
    OBVIOUS
  <2>2. (n + 1) - 1 = n
    OBVIOUS
  <2>3. ASSUME NEW k \in 1 .. Size
        PROVE  f[k] = IF k <= n + 1 THEN <<t, k - 1>> ELSE <<"blank">>
    <3>1. CASE k = n + 1
      BY <2>1, <2>2, <3>1
    <3>2. CASE k # n + 1
      BY <2>1, <3>2
    <3>. QED BY <3>1, <3>2
  <2>4. f = [k \in 1 .. Size |-> f[k]]
    OBVIOUS
  <2>. HIDE DEF f
  <2>5. f = [k \in 1 .. Size |-> IF k <= n + 1 THEN <<t, k - 1>> ELSE <<"blank">>]
    BY <2>3, <2>4
  <2>. QED BY <2>5 DEF f
<1>. QED BY <1>2, <1>3, <1>4

-----------------------------------------------------------------------------
(* The inductive invariant.                                                *)

\* At first no call has been made.
LEMMA InitInv == Init => IInv
<1>. SUFFICES ASSUME Init PROVE IInv
  OBVIOUS
<1>1. TypeOK
  BY NoPackets, RdmaAssumption DEF Init, TypeOK
<1>2. PacketsAreOwn
  <2>1. ASSUME NEW t \in Transfers
        PROVE  /\ offset[t] = 0 /\ conn[t] = "nobody" /\ chan[t] = <<>>
    BY DEF Init
  <2>2. 1 .. Len(<<>>) = {} /\ 0 <= Size + faults
    BY NoPackets, RdmaAssumption DEF Init
  <2>3. \A t \in Transfers : 1 .. Len(chan[t]) = {}
    BY <2>1, <2>2
  <2>. QED BY <2>1, <2>2, <2>3 DEF PacketsAreOwn
<1>3. StreamIsAccepted /\ ReceiverIsJoined /\ PartIsFilled
  BY DEF Init, StreamIsAccepted, ReceiverIsJoined, PartIsFilled
<1>. QED BY <1>1, <1>2, <1>3 DEF IInv

\* The steps of the calling thread touch neither connection nor file.
LEMMA ClientKeeps ==
    ASSUME IInv, NEW t \in Transfers, ClientStep(t)
    PROVE  IInv'
<1>1. CASE Call(t)
  <2>1. receiver[t] = "none"
    BY <1>1 DEF IInv, ReceiverIsJoined, Call
  <2>2. TypeOK'
    BY <1>1, <2>1 DEF IInv, TypeOK, Call, helperVars, netVars
  <2>3. PacketsAreOwn'
    BY <1>1 DEF IInv, PacketsAreOwn, Call, helperVars, netVars
  <2>4. StreamIsAccepted' /\ ReceiverIsJoined'
    BY <1>1 DEF IInv, TypeOK, StreamIsAccepted, ReceiverIsJoined, Call
  <2>5. PartIsFilled'
    BY <1>1, <2>1 DEF IInv, TypeOK, PartIsFilled, Call
  <2>. QED BY <2>2, <2>3, <2>4, <2>5 DEF IInv
<1>2. CASE Exec(t)
  <2>2. TypeOK'
    BY <1>2 DEF IInv, TypeOK, Exec, clientVars, receiverVars, netVars
  <2>3. PacketsAreOwn'
    BY <1>2 DEF IInv, TypeOK, PacketsAreOwn, Exec, netVars
  <2>4. StreamIsAccepted' /\ ReceiverIsJoined' /\ PartIsFilled'
    BY <1>2 DEF IInv, StreamIsAccepted, ReceiverIsJoined, PartIsFilled, Exec,
                clientVars, receiverVars
  <2>. QED BY <2>2, <2>3, <2>4 DEF IInv
<1>3. ASSUME NEW result \in {"report", "exit_1", "error", "garbled"}, Returns(t, result),
             UNCHANGED <<receiverVars, helperVars, netVars>>,
             UNCHANGED faults \/ Fault
      PROVE  IInv'
  <2>1. faults \in 0 .. MaxFaults /\ faults' \in 0 .. MaxFaults /\ faults <= faults'
    BY <1>3, RdmaAssumption DEF IInv, TypeOK, Fault
  <2>2. TypeOK'
    BY <1>3, <2>1 DEF IInv, TypeOK, Returns, receiverVars, helperVars, netVars
  <2>3. PacketsAreOwn'
    <3>1. \A u \in Transfers : offset[u] <= Size + faults'
      BY <2>1, RdmaAssumption DEF IInv, TypeOK, PacketsAreOwn
    <3>. QED BY <1>3, <3>1 DEF IInv, PacketsAreOwn, helperVars, netVars
  <2>4. StreamIsAccepted' /\ PartIsFilled'
    BY <1>3 DEF IInv, StreamIsAccepted, PartIsFilled, receiverVars
  <2>5. ReceiverIsJoined'
    BY <1>3 DEF IInv, TypeOK, ReceiverIsJoined, Returns, receiverVars
  <2>. QED BY <2>2, <2>3, <2>4, <2>5 DEF IInv
<1>4. CASE ExecReturns(t) \/ ExecFails(t) \/ ReportGarbled(t)
  BY <1>3, <1>4 DEF ExecReturns, ExecFails, ReportGarbled
<1>5. CASE Join(t)
  <2>2. TypeOK'
    BY <1>5 DEF IInv, TypeOK, Join, receiverVars, helperVars, netVars
  <2>3. PacketsAreOwn'
    BY <1>5 DEF IInv, PacketsAreOwn, Join, helperVars, netVars
  <2>4. StreamIsAccepted' /\ PartIsFilled'
    BY <1>5 DEF IInv, StreamIsAccepted, PartIsFilled, Join, receiverVars
  <2>5. ReceiverIsJoined'
    BY <1>5 DEF IInv, TypeOK, ReceiverIsJoined, Join, receiverVars
  <2>. QED BY <2>2, <2>3, <2>4, <2>5 DEF IInv
<1>. QED BY <1>1, <1>2, <1>4, <1>5 DEF ClientStep

\* The end of a receiver closes what is connected to it.
LEMMA EndKeeps ==
    ASSUME IInv, NEW t \in Transfers, receiver[t] \in {"open", "accept", "stream"},
           NEW result \in {"ok", "failed"}, ReceiverEnds(t, result),
           UNCHANGED <<clientVars, received, start, part, helperVars>>,
           result = "ok" => receiver[t] = "stream" /\ received[t] = Size,
           UNCHANGED faults \/ Fault
    PROVE  IInv'
<1>1. faults \in 0 .. MaxFaults /\ faults' \in 0 .. MaxFaults /\ faults <= faults'
  BY RdmaAssumption DEF IInv, TypeOK, Fault
<1>2. \A u \in Transfers :
        \/ conn'[u] = conn[u] /\ chan'[u] = chan[u] /\ conn[u] # t
        \/ conn'[u] = "nobody" /\ chan'[u] = <<>> /\ conn[u] = t
  BY DEF ReceiverEnds
<1>3. TypeOK'
  <2>1. chan' \in [Transfers -> Seq(Packets)] /\ \A u \in Transfers : Len(chan'[u]) <= Buffer
    BY <1>2, NoPackets DEF IInv, TypeOK, ReceiverEnds
  <2>2. \A u \in Transfers : receiver'[u] = "stream" => conn'[stream'[u]] = u
    BY <1>2 DEF IInv, TypeOK, StreamIsAccepted, ReceiverEnds
  <2>3. /\ conn' \in [Transfers -> Transfers \cup {"nobody"}]
        /\ stream' \in [Transfers -> Transfers \cup {"nobody"}]
        /\ receiver' \in [Transfers -> {"none", "open", "accept", "stream", "ok", "failed"}]
    BY DEF IInv, TypeOK, ReceiverEnds
  <2>. QED BY <1>1, <2>1, <2>2, <2>3 DEF IInv, TypeOK, clientVars, helperVars
<1>4. PacketsAreOwn'
  <2>1. \A u \in Transfers : offset'[u] <= Size + faults'
    BY <1>1, RdmaAssumption DEF IInv, TypeOK, PacketsAreOwn, helperVars
  <2>2. \A u \in Transfers : 1 .. Len(chan'[u]) = {} \/ chan'[u] = chan[u]
    BY <1>2, NoPackets
  <2>. QED BY <1>2, <2>1, <2>2 DEF IInv, PacketsAreOwn, helperVars
<1>5. StreamIsAccepted' /\ ReceiverIsJoined'
  BY DEF IInv, TypeOK, StreamIsAccepted, ReceiverIsJoined, ReceiverEnds, clientVars
<1>6. PartIsFilled'
  BY DEF IInv, TypeOK, PartIsFilled, ReceiverEnds
<1>. QED BY <1>3, <1>4, <1>5, <1>6 DEF IInv

\* The packet a receiver reads is the first of its stream, and of the transfer
\* at the other end.
LEMMA PacketRead ==
    ASSUME IInv, NEW t \in Transfers, receiver[t] = "stream", chan[stream[t]] # <<>>
    PROVE  /\ stream[t] \in Transfers /\ conn[stream[t]] = t
           /\ Head(chan[stream[t]]) \in Packets
           /\ Head(chan[stream[t]]).token = stream[t]
           /\ Head(chan[stream[t]]).kind = "data" =>
                Head(chan[stream[t]]).payload =
                  Unit(stream[t], Head(chan[stream[t]]).offset)
<1>1. stream[t] \in Transfers /\ conn[stream[t]] = t
  BY DEF IInv, TypeOK, StreamIsAccepted
<1>2. chan[stream[t]] \in Seq(Packets) /\ Len(chan[stream[t]]) <= Buffer
  BY <1>1 DEF IInv, TypeOK
<1>3. /\ Head(chan[stream[t]]) \in Packets /\ 1 \in 1 .. Len(chan[stream[t]])
      /\ Head(chan[stream[t]]) = chan[stream[t]][1]
  BY <1>2, TakePacket
<1>. QED BY <1>1, <1>3 DEF IInv, PacketsAreOwn

\* Packets that have been read leave those behind them as they are.
LEMMA ReadKeeps ==
    ASSUME IInv, NEW t \in Transfers, receiver[t] = "stream", chan[stream[t]] # <<>>,
           chan' = [chan EXCEPT ![stream[t]] = Tail(@)],
           UNCHANGED <<helperVars, conn, faults>>
    PROVE  /\ chan' \in [Transfers -> Seq(Packets)]
           /\ \A u \in Transfers : Len(chan'[u]) <= Buffer
           /\ PacketsAreOwn'
<1>1. stream[t] \in Transfers /\ conn[stream[t]] = t
  BY PacketRead
<1>2. /\ chan \in [Transfers -> Seq(Packets)] /\ \A u \in Transfers : Len(chan[u]) <= Buffer
  BY DEF IInv, TypeOK
<1>3. /\ Tail(chan[stream[t]]) \in Seq(Packets) /\ Len(Tail(chan[stream[t]])) <= Buffer
      /\ \A k \in 1 .. Len(Tail(chan[stream[t]])) :
            /\ k + 1 \in 1 .. Len(chan[stream[t]])
            /\ Tail(chan[stream[t]])[k] = chan[stream[t]][k + 1]
  BY <1>1, <1>2, TakePacket
<1>4. /\ chan'[stream[t]] = Tail(chan[stream[t]])
      /\ \A u \in Transfers \ {stream[t]} : chan'[u] = chan[u]
  BY <1>1, <1>2
<1>5. helper[stream[t]] \notin {"none", "stat", "connect"}
  BY <1>1, RdmaAssumption DEF IInv, PacketsAreOwn
<1>6. PacketsAreOwn'
  <2>1. ASSUME NEW u \in Transfers, NEW k \in 1 .. Len(chan'[u])
        PROVE  /\ chan'[u][k].token = u
               /\ chan'[u][k].kind = "data" =>
                    chan'[u][k].payload = Unit(u, chan'[u][k].offset)
    <3>1. CASE u = stream[t]
      BY <1>3, <1>4, <3>1 DEF IInv, PacketsAreOwn
    <3>2. CASE u # stream[t]
      BY <1>4, <3>2 DEF IInv, PacketsAreOwn
    <3>. QED BY <3>1, <3>2
  <2>. QED BY <1>4, <1>5, <2>1 DEF IInv, PacketsAreOwn, helperVars
<1>. QED BY <1>2, <1>3, <1>4, <1>6

\* A packet is skipped, written, or the last thing the receiver reads.
LEMMA ReceiveKeeps ==
    ASSUME IInv, NEW t \in Transfers, Receive(t)
    PROVE  IInv'
<1>. DEFINE p == Head(chan[stream[t]])
<1>1. /\ receiver[t] = "stream" /\ chan[stream[t]] # <<>>
      /\ SkipPacket(t, p) \/ WriteUnit(t, p) \/ BadPacket(t, p) \/ LastPacket(t, p)
  BY DEF Receive
<1>2. /\ stream[t] \in Transfers /\ conn[stream[t]] = t /\ p \in Packets
      /\ p.token = stream[t]
      /\ p.kind = "data" => p.payload = Unit(stream[t], p.offset)
  BY <1>1, PacketRead
<1>. HIDE DEF p
<1>3. CASE SkipPacket(t, p) /\ GivesUpStream(t)
  <2>1. /\ receiver' = [receiver EXCEPT ![t] = "accept"]
        /\ stream' = [stream EXCEPT ![t] = "nobody"]
        /\ conn' = [conn EXCEPT ![stream[t]] = "nobody"]
        /\ chan' = [chan EXCEPT ![stream[t]] = <<>>]
        /\ UNCHANGED <<clientVars, received, start, part, helperVars, faults>>
    BY <1>3 DEF SkipPacket
  <2>2. TypeOK'
    <3>1. chan' \in [Transfers -> Seq(Packets)] /\ \A u \in Transfers : Len(chan'[u]) <= Buffer
      BY <1>2, <2>1, NoPackets DEF IInv, TypeOK
    <3>2. \A u \in Transfers : receiver'[u] = "stream" => conn'[stream'[u]] = u
      BY <1>2, <2>1 DEF IInv, TypeOK, StreamIsAccepted
    <3>. QED BY <1>2, <2>1, <3>1, <3>2 DEF IInv, TypeOK, clientVars, helperVars
  <2>3. PacketsAreOwn'
    <3>1. \A u \in Transfers : (1 .. Len(chan'[u]) = {} /\ chan'[u] = <<>>) \/ chan'[u] = chan[u]
      BY <1>2, <2>1, NoPackets DEF IInv, TypeOK
    <3>2. \A u \in Transfers : conn'[u] \in {conn[u], "nobody"}
      BY <1>2, <2>1 DEF IInv, TypeOK
    <3>. QED BY <2>1, <3>1, <3>2 DEF IInv, PacketsAreOwn, helperVars
  <2>4. StreamIsAccepted' /\ ReceiverIsJoined'
    BY <1>1, <2>1 DEF IInv, TypeOK, StreamIsAccepted, ReceiverIsJoined, clientVars
  <2>5. PartIsFilled'
    BY <1>1, <2>1 DEF IInv, TypeOK, PartIsFilled
  <2>. QED BY <2>2, <2>3, <2>4, <2>5 DEF IInv
<1>4. CASE SkipPacket(t, p) /\ ~GivesUpStream(t)
  <2>1. /\ chan' = [chan EXCEPT ![stream[t]] = Tail(@)]
        /\ UNCHANGED <<receiver, stream, conn>>
        /\ UNCHANGED <<clientVars, received, start, part, helperVars, faults>>
    BY <1>4 DEF SkipPacket
  <2>2. /\ chan' \in [Transfers -> Seq(Packets)] /\ \A u \in Transfers : Len(chan'[u]) <= Buffer
        /\ PacketsAreOwn'
    BY <1>1, <2>1, ReadKeeps
  <2>3. TypeOK'
    BY <2>1, <2>2 DEF IInv, TypeOK, clientVars, helperVars
  <2>4. StreamIsAccepted' /\ ReceiverIsJoined' /\ PartIsFilled'
    BY <2>1 DEF IInv, StreamIsAccepted, ReceiverIsJoined, PartIsFilled, clientVars
  <2>. QED BY <2>2, <2>3, <2>4 DEF IInv
<1>5. CASE WriteUnit(t, p)
  <2>1. /\ part' = [part EXCEPT ![t][received[t] + 1] = p.payload]
        /\ received' = [received EXCEPT ![t] = @ + 1]
        /\ chan' = [chan EXCEPT ![stream[t]] = Tail(@)]
        /\ UNCHANGED <<clientVars, receiver, stream, start, helperVars, conn, faults>>
    BY <1>5 DEF WriteUnit
  <2>2. /\ chan' \in [Transfers -> Seq(Packets)] /\ \A u \in Transfers : Len(chan'[u]) <= Buffer
        /\ PacketsAreOwn'
    BY <1>1, <2>1, ReadKeeps
  <2>3. /\ received[t] \in 0 .. Size /\ received[t] < Size
        /\ p.payload = Unit(t, received[t])
    BY <1>2, <1>5, RdmaAssumption DEF IInv, TypeOK, WriteUnit, OtherToken, InOrder, Fits
  <2>4. part[t] = Contract!Filled(t, received[t])
    BY <1>1 DEF IInv, PartIsFilled
  <2>5. part'[t] = Contract!Filled(t, received[t] + 1) /\ received'[t] = received[t] + 1
    BY <2>1, <2>3, <2>4, FilledPart DEF IInv, TypeOK
  <2>6. \A u \in Transfers \ {t} : part'[u] = part[u] /\ received'[u] = received[u]
    BY <2>1 DEF IInv, TypeOK
  <2>7. received[t] + 1 \in 0 .. Size
    BY <2>3, RdmaAssumption
  <2>8. TypeOK'
    <3>1. part' \in [Transfers -> {NoPart} \cup [1 .. Size -> Contents]]
      <4>1. Contract!Filled(t, received[t] + 1) \in [1 .. Size -> Contents]
        BY <2>7, FilledPart
      <4>. QED BY <2>1, <2>5, <2>6, <4>1 DEF IInv, TypeOK
    <3>2. received' \in [Transfers -> 0 .. Size]
      BY <2>1, <2>7 DEF IInv, TypeOK
    <3>. QED BY <2>1, <2>2, <3>1, <3>2 DEF IInv, TypeOK, clientVars, helperVars
  <2>9. PartIsFilled'
    BY <1>1, <2>1, <2>5, <2>6 DEF IInv, PartIsFilled
  <2>10. StreamIsAccepted' /\ ReceiverIsJoined'
    BY <2>1 DEF IInv, StreamIsAccepted, ReceiverIsJoined, clientVars
  <2>. QED BY <2>2, <2>8, <2>9, <2>10 DEF IInv
<1>6. CASE BadPacket(t, p)
  BY <1>1, <1>6, EndKeeps DEF BadPacket, ReceiverFails
<1>7. CASE LastPacket(t, p)
  BY <1>1, <1>7, EndKeeps DEF LastPacket
<1>. QED BY <1>1, <1>3, <1>4, <1>5, <1>6, <1>7

\* The steps of the receiver thread.
LEMMA ReceiverKeeps ==
    ASSUME IInv, NEW t \in Transfers, ReceiverStep(t)
    PROVE  IInv'
<1>1. CASE OpenPart(t)
  <2>1. /\ part' = [part EXCEPT ![t] = Contract!Filled(t, 0)] /\ received[t] = 0
        /\ Contract!Filled(t, 0) \in [1 .. Size -> Contents]
    <3>1. 0 \in 0 .. Size
      BY RdmaAssumption
    <3>2. /\ Contract!Filled(t, 0) \in [1 .. Size -> Contents]
          /\ Contract!Filled(t, 0) = [k \in 1 .. Size |-> Blank]
      BY <3>1, FilledPart
    <3>. QED BY <1>1, <3>2 DEF IInv, PartIsFilled, OpenPart
  <2>2. TypeOK'
    BY <1>1, <2>1 DEF IInv, TypeOK, OpenPart, clientVars, helperVars, netVars
  <2>3. PacketsAreOwn'
    BY <1>1 DEF IInv, PacketsAreOwn, OpenPart, helperVars, netVars
  <2>4. StreamIsAccepted' /\ ReceiverIsJoined'
    BY <1>1 DEF IInv, TypeOK, StreamIsAccepted, ReceiverIsJoined, OpenPart, clientVars
  <2>5. PartIsFilled'
    BY <1>1, <2>1 DEF IInv, TypeOK, PartIsFilled, OpenPart
  <2>. QED BY <2>2, <2>3, <2>4, <2>5 DEF IInv
<1>2. CASE OpenFails(t)
  BY <1>2, EndKeeps DEF OpenFails, ReceiverFails
<1>3. ASSUME NEW u \in Transfers, Accept(t, u)
      PROVE  IInv'
  <2>2. TypeOK'
    BY <1>3 DEF IInv, TypeOK, Accept, clientVars, helperVars, netVars
  <2>3. PacketsAreOwn'
    BY <1>3 DEF IInv, PacketsAreOwn, Accept, helperVars, netVars
  <2>4. StreamIsAccepted'
    BY <1>3 DEF IInv, TypeOK, StreamIsAccepted, Accept
  <2>6. ReceiverIsJoined'
    BY <1>3 DEF IInv, TypeOK, ReceiverIsJoined, Accept, clientVars
  <2>5. PartIsFilled'
    BY <1>3 DEF IInv, TypeOK, PartIsFilled, Accept
  <2>. QED BY <2>2, <2>3, <2>4, <2>5, <2>6 DEF IInv
<1>4. CASE TimesOut(t) \/ Cancelled(t) \/ PeerCloses(t)
  BY <1>4, EndKeeps DEF TimesOut, Cancelled, PeerCloses, ReceiverFails
<1>. QED BY <1>1, <1>2, <1>3, <1>4, ReceiveKeeps DEF ReceiverStep

\* A packet joins those on the way.
LEMMA SendKeeps ==
    ASSUME IInv, NEW t \in Transfers, NEW p \in Packets, SendPacket(t, p),
           p.token = t, p.kind = "data" => p.payload = Unit(t, p.offset),
           \/ /\ helper' = helper
              /\ offset' = [offset EXCEPT ![t] = @ + 1]
              /\ (offset[t] < Size /\ UNCHANGED faults) \/ Fault
           \/ /\ helper' = [helper EXCEPT ![t] = "finished"]
              /\ UNCHANGED <<offset, faults>>,
           UNCHANGED <<clientVars, receiverVars, conn>>
    PROVE  IInv'
<1>1. /\ helper[t] = "send" /\ Len(chan[t]) < Buffer
      /\ chan' = [chan EXCEPT ![t] = Append(@, p)]
  BY DEF SendPacket
<1>2. /\ chan \in [Transfers -> Seq(Packets)] /\ chan[t] \in Seq(Packets)
      /\ offset \in [Transfers -> 0 .. Size + MaxFaults]
      /\ helper \in [Transfers -> {"none", "stat", "connect", "send", "finished", "failed", "lost"}]
      /\ faults \in 0 .. MaxFaults
  BY DEF IInv, TypeOK
<1>3. /\ Append(chan[t], p) \in Seq(Packets) /\ Len(Append(chan[t], p)) <= Buffer
      /\ \A k \in 1 .. Len(Append(chan[t], p)) :
           Append(chan[t], p)[k] = p
             \/ (k \in 1 .. Len(chan[t]) /\ Append(chan[t], p)[k] = chan[t][k])
  BY <1>1, <1>2, AppendPacket
<1>4. /\ chan'[t] = Append(chan[t], p)
      /\ \A u \in Transfers \ {t} : chan'[u] = chan[u]
  BY <1>1, <1>2
<1>5. chan' \in [Transfers -> Seq(Packets)] /\ \A u \in Transfers : Len(chan'[u]) <= Buffer
  BY <1>1, <1>2, <1>3, <1>4 DEF IInv, TypeOK
<1>6. /\ faults' \in 0 .. MaxFaults
      /\ \A u \in Transfers : offset'[u] <= Size + faults' /\ offset'[u] \in Nat
      /\ \A u \in Transfers : offset'[u] \in 0 .. Size + MaxFaults
  <2>1. \A u \in Transfers : offset[u] <= Size + faults /\ offset[u] \in Nat
    BY <1>2, RdmaAssumption DEF IInv, PacketsAreOwn
  <2>2. faults' \in 0 .. MaxFaults /\ faults <= faults'
    BY <1>2, RdmaAssumption DEF Fault
  <2>3. offset[t] >= Size => offset' = offset \/ faults' = faults + 1
    BY <1>2, <2>1, RdmaAssumption DEF Fault
  <2>4. \A u \in Transfers : offset'[u] = offset[u] \/ (u = t /\ offset'[u] = offset[u] + 1)
    BY <1>2
  <2>5. ASSUME NEW u \in Transfers
        PROVE  offset'[u] <= Size + faults' /\ offset'[u] \in Nat
    <3>1. CASE offset'[u] = offset[u]
      BY <1>2, <2>1, <2>2, <3>1, RdmaAssumption
    <3>2. CASE u = t /\ offset'[u] = offset[u] + 1 /\ offset[t] < Size
      BY <2>1, <2>2, <3>2, RdmaAssumption
    <3>3. CASE u = t /\ offset'[u] = offset[u] + 1 /\ faults' = faults + 1
      BY <1>2, <2>1, <3>3, RdmaAssumption
    <3>. QED BY <2>1, <2>3, <2>4, <3>1, <3>2, <3>3, RdmaAssumption
  <2>. QED BY <2>2, <2>5, RdmaAssumption
<1>7. TypeOK'
  <2>1. offset' \in [Transfers -> 0 .. Size + MaxFaults]
    BY <1>2, <1>6
  <2>2. helper' \in [Transfers -> {"none", "stat", "connect", "send", "finished", "failed", "lost"}]
    BY <1>2
  <2>. QED BY <1>5, <1>6, <2>1, <2>2 DEF IInv, TypeOK, clientVars, receiverVars
<1>8. PacketsAreOwn'
  <2>1. ASSUME NEW u \in Transfers, NEW k \in 1 .. Len(chan'[u])
        PROVE  /\ chan'[u][k].token = u
               /\ chan'[u][k].kind = "data" =>
                    chan'[u][k].payload = Unit(u, chan'[u][k].offset)
    <3>1. CASE u = t
      <4>1. chan'[u][k] = p \/ (k \in 1 .. Len(chan[t]) /\ chan'[u][k] = chan[t][k])
        BY <1>3, <1>4, <3>1
      <4>2. CASE chan'[u][k] = p
        BY <3>1, <4>2
      <4>3. CASE k \in 1 .. Len(chan[t]) /\ chan'[u][k] = chan[t][k]
        BY <3>1, <4>3 DEF IInv, PacketsAreOwn
      <4>. QED BY <4>1, <4>2, <4>3
    <3>2. CASE u # t
      BY <1>4, <3>2 DEF IInv, PacketsAreOwn
    <3>. QED BY <3>1, <3>2
  <2>2. \A u \in Transfers :
          helper'[u] \in {"none", "stat", "connect"} =>
            conn'[u] = "nobody" /\ chan'[u] = <<>>
    BY <1>1, <1>2, <1>4 DEF IInv, PacketsAreOwn
  <2>. QED BY <1>6, <2>1, <2>2 DEF PacketsAreOwn
<1>9. StreamIsAccepted' /\ ReceiverIsJoined' /\ PartIsFilled'
  BY DEF IInv, StreamIsAccepted, ReceiverIsJoined, PartIsFilled, clientVars, receiverVars
<1>. QED BY <1>7, <1>8, <1>9 DEF IInv

\* The steps of the helper on the source host.
LEMMA HelperKeeps ==
    ASSUME IInv, NEW t \in Transfers, HelperStep(t)
    PROVE  IInv'
<1>1. ASSUME NEW h \in {"connect", "failed", "lost"},
             helper' = [helper EXCEPT ![t] = h],
             h = "connect" => helper[t] = "stat",
             UNCHANGED <<clientVars, receiverVars, offset, netVars>>,
             UNCHANGED faults \/ Fault
      PROVE  IInv'
  <2>1. faults \in 0 .. MaxFaults /\ faults' \in 0 .. MaxFaults /\ faults <= faults'
    BY <1>1, RdmaAssumption DEF IInv, TypeOK, Fault
  <2>2. TypeOK'
    BY <1>1, <2>1 DEF IInv, TypeOK, clientVars, receiverVars, netVars
  <2>3. PacketsAreOwn'
    <3>1. \A u \in Transfers : offset[u] <= Size + faults'
      BY <2>1, RdmaAssumption DEF IInv, TypeOK, PacketsAreOwn
    <3>. QED BY <1>1, <3>1 DEF IInv, TypeOK, PacketsAreOwn, netVars
  <2>4. StreamIsAccepted' /\ ReceiverIsJoined' /\ PartIsFilled'
    BY <1>1 DEF IInv, StreamIsAccepted, ReceiverIsJoined, PartIsFilled, clientVars, receiverVars
  <2>. QED BY <2>2, <2>3, <2>4 DEF IInv
<1>2. CASE \/ StatSource(t) \/ StatFails(t) \/ ConnectFails(t) \/ LengthChanged(t)
           \/ SendFails(t) \/ HelperLost(t)
  BY <1>1, <1>2 DEF StatSource, StatFails, ConnectFails, LengthChanged, SendFails,
                    HelperLost, HelperFails
<1>3. CASE Connect(t)
  <2>1. PICK u \in Transfers : conn' = [conn EXCEPT ![t] = u]
    BY <1>3 DEF Connect
  <2>2. /\ helper[t] = "connect" /\ conn[t] = "nobody"
        /\ helper' = [helper EXCEPT ![t] = "send"]
        /\ UNCHANGED <<clientVars, receiverVars, offset, chan, faults>>
    BY <1>3 DEF IInv, PacketsAreOwn, Connect
  <2>3. \A w \in Transfers : receiver[w] = "stream" => stream[w] \in Transfers \ {t}
    BY <2>2, RdmaAssumption DEF IInv, TypeOK, StreamIsAccepted
  <2>4. TypeOK'
    <3>1. \A w \in Transfers : receiver'[w] = "stream" => conn'[stream'[w]] = w
      BY <2>1, <2>2, <2>3 DEF IInv, TypeOK, receiverVars
    <3>2. /\ conn' \in [Transfers -> Transfers \cup {"nobody"}]
          /\ helper' \in [Transfers -> {"none", "stat", "connect", "send", "finished", "failed", "lost"}]
      BY <2>1, <2>2 DEF IInv, TypeOK
    <3>. QED BY <2>2, <3>1, <3>2 DEF IInv, TypeOK, clientVars, receiverVars
  <2>5. PacketsAreOwn'
    BY <2>1, <2>2 DEF IInv, TypeOK, PacketsAreOwn
  <2>6. StreamIsAccepted' /\ ReceiverIsJoined' /\ PartIsFilled'
    BY <2>2 DEF IInv, StreamIsAccepted, ReceiverIsJoined, PartIsFilled, clientVars, receiverVars
  <2>. QED BY <2>4, <2>5, <2>6 DEF IInv
<1>4. CASE SendUnit(t) \/ SendMore(t) \/ SendDone(t)
  <2>1. offset[t] \in 0 .. Size + MaxFaults
    BY DEF IInv, TypeOK
  <2>2. /\ Data(t, offset[t]) \in Packets /\ Done(t, offset[t]) \in Packets
        /\ Data(t, offset[t]).token = t /\ Done(t, offset[t]).token = t
        /\ Data(t, offset[t]).payload = Unit(t, Data(t, offset[t]).offset)
        /\ Done(t, offset[t]).kind # "data"
    BY <2>1, SentPacket
  <2>3. CASE SendUnit(t)
    BY <2>2, <2>3, SendKeeps DEF SendUnit
  <2>4. CASE SendMore(t)
    BY <2>2, <2>4, SendKeeps DEF SendMore
  <2>5. CASE SendDone(t)
    BY <2>2, <2>5, SendKeeps DEF SendDone
  <2>. QED BY <1>4, <2>3, <2>4, <2>5
<1>. QED BY <1>2, <1>3, <1>4 DEF HelperStep

\* Every step keeps the invariant.
LEMMA StepInv ==
    ASSUME IInv, [Next]_vars
    PROVE  IInv'
<1>1. CASE UNCHANGED vars
  <2>1. TypeOK'
    BY <1>1 DEF IInv, TypeOK, vars, clientVars, receiverVars, helperVars, netVars
  <2>2. PacketsAreOwn'
    BY <1>1 DEF IInv, PacketsAreOwn, vars, clientVars, receiverVars, helperVars, netVars
  <2>3. StreamIsAccepted' /\ ReceiverIsJoined' /\ PartIsFilled'
    BY <1>1 DEF IInv, StreamIsAccepted, ReceiverIsJoined, PartIsFilled, vars,
                clientVars, receiverVars, helperVars, netVars
  <2>. QED BY <2>1, <2>2, <2>3 DEF IInv
<1>2. CASE Next
  BY <1>2, ClientKeeps, ReceiverKeeps, HelperKeeps DEF Next
<1>. QED BY <1>1, <1>2

\* The inductive invariant holds in every reachable state: what is on the way is
\* the helper's own, the receiver lives inside the call, and what it has counted
\* is what the partial file holds (try_rdma_copy, receive_to_path).
THEOREM Invariance == Spec => []IInv
  BY InitInv, StepInv, PTL DEF Spec

\* In every reachable state each variable has its type, and who reads a stream
\* reads one that is connected to it (receive_to_path, send_file_with_keepalive).
THEOREM TypeCorrect == Spec => []TypeOK
<1>1. IInv => TypeOK
  BY DEF IInv
<1>. QED BY <1>1, Invariance, PTL

-----------------------------------------------------------------------------
(* The refinement: a call is Call, the opening of the partial file is Open, *)
(* a packet that is written is Fill, and the join is Copied or Unavailable; *)
(* everything else leaves the phase of the call and the partial file alone. *)

\* At first nobody has called.
LEMMA InitMaps == Init => Contract!Init
  BY DEF Init, phaseOf, NoPart, Contract!Init, Contract!NoPart

\* The calling thread.
LEMMA ClientMaps ==
    ASSUME IInv, NEW t \in Transfers, ClientStep(t)
    PROVE  Contract!Next \/ UNCHANGED Contract!vars
<1>. USE DEF phaseOf, Contract!vars
<1>a. client \in [Transfers -> {"new", "exec", "join", "copied", "unavailable"}]
  BY DEF IInv, TypeOK
<1>1. CASE Call(t)
  BY <1>a, <1>1 DEF Call, Contract!Call, Contract!Next
<1>2. CASE Exec(t)
  BY <1>2 DEF Exec, clientVars, receiverVars
<1>3. ASSUME NEW result, Returns(t, result), UNCHANGED receiverVars
      PROVE  UNCHANGED Contract!vars
  BY <1>a, <1>3 DEF Returns, receiverVars
<1>4. CASE ExecReturns(t) \/ ExecFails(t) \/ ReportGarbled(t)
  BY <1>3, <1>4 DEF ExecReturns, ExecFails, ReportGarbled
<1>5. CASE Join(t)
  <2>1. phaseOf[t] = "busy" /\ part' = part
    BY <1>5 DEF Join, receiverVars
  <2>2. CASE CopyAccepted(t)
    <3>1. part[t] = Contract!Filled(t, Size)
      BY <2>2 DEF IInv, PartIsFilled, CopyAccepted
    <3>2. phaseOf' = [phaseOf EXCEPT ![t] = "copied"]
      BY <1>a, <1>5, <2>2 DEF Join
    <3>. QED BY <2>1, <3>1, <3>2 DEF Contract!Copied, Contract!Next
  <2>3. CASE ~CopyAccepted(t)
    <3>1. phaseOf' = [phaseOf EXCEPT ![t] = "unavailable"]
      BY <1>a, <1>5, <2>3 DEF Join
    <3>. QED BY <2>1, <3>1 DEF Contract!Unavailable, Contract!Next
  <2>. QED BY <2>2, <2>3
<1>. QED BY <1>1, <1>2, <1>4, <1>5 DEF ClientStep

\* The receiver thread writes to the partial file of its own call, while the call
\* waits for it, and only what its own helper has read.
LEMMA ReceiverMaps ==
    ASSUME IInv, NEW t \in Transfers, ReceiverStep(t)
    PROVE  Contract!Next \/ UNCHANGED Contract!vars
<1>1. phaseOf' = phaseOf
  BY DEF ReceiverStep, OpenPart, OpenFails, Accept, TimesOut, Cancelled, PeerCloses, Receive,
         SkipPacket, WriteUnit, BadPacket, LastPacket, ReceiverFails, clientVars, phaseOf
<1>2. receiver[t] \in {"open", "accept", "stream"} => phaseOf[t] = "busy"
  BY DEF IInv, TypeOK, ReceiverIsJoined, phaseOf
<1>3. CASE OpenPart(t)
  <2>1. 0 \in 0 .. Size
    BY RdmaAssumption
  <2>2. part' = [part EXCEPT ![t] = Contract!Filled(t, 0)] /\ part[t] = NoPart
    BY <1>3, <2>1, FilledPart DEF IInv, PartIsFilled, OpenPart
  <2>3. phaseOf[t] = "busy"
    BY <1>2, <1>3 DEF OpenPart
  <2>. QED BY <1>1, <2>2, <2>3 DEF NoPart, Contract!NoPart, Contract!Open, Contract!Next
<1>4. CASE Receive(t)
  <2>. DEFINE p == Head(chan[stream[t]])
  <2>1. /\ receiver[t] = "stream" /\ chan[stream[t]] # <<>>
        /\ SkipPacket(t, p) \/ WriteUnit(t, p) \/ BadPacket(t, p) \/ LastPacket(t, p)
    BY <1>4 DEF Receive
  <2>2. /\ p.token = stream[t]
        /\ p.kind = "data" => p.payload = Unit(stream[t], p.offset)
    BY <2>1, PacketRead
  <2>. HIDE DEF p
  <2>3. CASE WriteUnit(t, p)
    <3>1. /\ part' = [part EXCEPT ![t][received[t] + 1] = p.payload]
          /\ p.payload = Unit(t, received[t])
          /\ received[t] \in 0 .. Size - 1
      BY <2>2, <2>3, RdmaAssumption DEF IInv, TypeOK, WriteUnit, OtherToken, InOrder, Fits
    <3>2. part[t] = Contract!Filled(t, received[t])
      BY <2>1 DEF IInv, PartIsFilled
    <3>3. received[t] \in 0 .. Size /\ received[t] < Size
      BY <3>1, RdmaAssumption
    <3>4. [Contract!Filled(t, received[t]) EXCEPT ![received[t] + 1] = Unit(t, received[t])]
            = Contract!Filled(t, received[t] + 1)
      BY <3>3, FilledPart
    <3>5. part' = [part EXCEPT ![t] = Contract!Filled(t, received[t] + 1)]
      BY <3>1, <3>2, <3>4
    <3>6. phaseOf[t] = "busy"
      BY <1>2, <2>1
    <3>. QED BY <1>1, <3>1, <3>2, <3>5, <3>6 DEF Contract!Fill, Contract!Next
  <2>4. CASE SkipPacket(t, p) \/ BadPacket(t, p) \/ LastPacket(t, p)
    BY <1>1, <2>4 DEF SkipPacket, BadPacket, LastPacket, ReceiverFails, Contract!vars
  <2>. QED BY <2>1, <2>3, <2>4
<1>5. CASE \/ OpenFails(t) \/ TimesOut(t) \/ Cancelled(t) \/ PeerCloses(t)
           \/ \E u \in Transfers : Accept(t, u)
  BY <1>1, <1>5 DEF OpenFails, TimesOut, Cancelled, PeerCloses, Accept, ReceiverFails,
                    Contract!vars
<1>. QED BY <1>3, <1>4, <1>5 DEF ReceiverStep

\* The helper is on another host.
LEMMA HelperMaps ==
    ASSUME NEW t \in Transfers, HelperStep(t)
    PROVE  UNCHANGED Contract!vars
<1>1. UNCHANGED <<clientVars, receiverVars>>
  BY DEF HelperStep, StatSource, StatFails, Connect, ConnectFails, SendUnit, SendMore,
         SendDone, LengthChanged, SendFails, HelperLost, HelperFails
<1>. QED BY <1>1 DEF clientVars, receiverVars, phaseOf, Contract!vars

\* try_rdma_copy keeps its promise whatever helpers and connections do: the
\* partial file is filled from the front with what the transfer's own helper has
\* read, it is whole when Copied is returned, and it is left alone afterwards.
THEOREM Refinement == Spec => ImplementsContract
<1>1. Init => Contract!Init
  BY InitMaps
<1>2. IInv /\ [Next]_vars => [Contract!Next]_(Contract!vars)
  <2>. SUFFICES ASSUME IInv, [Next]_vars
                PROVE  Contract!Next \/ UNCHANGED Contract!vars
    OBVIOUS
  <2>1. CASE UNCHANGED vars
    BY <2>1 DEF vars, clientVars, receiverVars, phaseOf, Contract!vars
  <2>2. CASE Next
    BY <2>2, ClientMaps, ReceiverMaps, HelperMaps DEF Next
  <2>. QED BY <2>1, <2>2
<1>. QED BY <1>1, <1>2, Invariance, PTL DEF Spec, ImplementsContract, Contract!Spec

=============================================================================
