--------------------------- MODULE FileSync_proofs ---------------------------
(***************************************************************************)
(* What FileSync promises for every number of versions, file size, chunk   *)
(* size, set of options and number of stopped processes, as long as no     *)
(* process stops in one of the windows (Sheltered).                        *)
(***************************************************************************)
EXTENDS FileSync, SequenceTheorems, TLAPS

-----------------------------------------------------------------------------
(* Lemmas about files and chunks.                                          *)

\* Cutting or extending a file with set_len gives a file of that length.
LEMMA SetLenIsFile ==
    ASSUME NEW d \in Seq(Unit), NEW n \in Nat
    PROVE  /\ SetLen(d, n) \in Seq(Unit)
           /\ Len(SetLen(d, n)) = n
           /\ DOMAIN SetLen(d, n) = 1 .. n
           /\ \A u \in 1 .. n : SetLen(d, n)[u] = IF u <= Len(d) THEN d[u] ELSE 0
<1>1. \A u \in 1 .. n : (IF u <= Len(d) THEN d[u] ELSE Hole) \in Unit
  BY VersionAssumption DEF Unit, Hole
<1>2. SetLen(d, n) \in [1 .. n -> Unit]
  BY <1>1 DEF SetLen
<1> QED
  BY <1>2 DEF SetLen, Hole

\* A version of the source is a file of that version's size.
LEMMA SourceIsFile ==
    ASSUME NEW v \in Versions
    PROVE  /\ SourceData(v) \in Seq(Unit)
           /\ Len(SourceData(v)) = SizeOf[v]
           /\ DOMAIN SourceData(v) = 1 .. SizeOf[v]
           /\ \A u \in 1 .. SizeOf[v] : SourceData(v)[u] = v
<1>1. SizeOf[v] \in Nat
  BY VersionAssumption
<1>2. SourceData(v) \in [1 .. SizeOf[v] -> Unit]
  BY <1>1, VersionAssumption DEF SourceData, Unit, Versions
<1> QED
  BY <1>1, <1>2 DEF SourceData

\* Every unit of a file lies in one of the chunks the transfer counts.
LEMMA UnitInCountedChunk ==
    ASSUME NEW size \in Nat, NEW chunk \in Nat \ {0}, NEW u \in 1 .. size
    PROVE  ChunkOf(u, chunk) \in 0 .. ChunkCount(size, chunk) - 1
<1>1. (u - 1) \div chunk \in Nat /\ (size - 1) \div chunk \in Nat
  OBVIOUS
<1>2. (u - 1) \div chunk <= (size - 1) \div chunk
  OBVIOUS
<1> QED
  BY <1>1, <1>2 DEF ChunkOf, ChunkCount

\* What the type invariant says of the listed entry and the chunk size.
LEMMA EntryTypes ==
    ASSUME TypeOK
    PROVE  /\ src \in Versions /\ seen \in Versions /\ seen <= src
           /\ SizeOf[src] \in Nat
           /\ EntrySize \in Nat
           /\ EntryMtime \in 0 .. Now - 1 /\ EntryMtime \in Nat
           /\ opt \in OptionRecord
           /\ ChunkSize \in Nat \ {0}
<1>1. src \in Versions /\ seen \in Versions /\ seen <= src
  BY VersionAssumption DEF TypeOK, Versions
<1>2. /\ SizeOf[src] \in Nat /\ EntrySize \in Nat
      /\ EntryMtime \in 0 .. Now - 1 /\ EntryMtime \in Nat
  BY <1>1, VersionAssumption DEF EntrySize, EntryMtime
<1>3. opt \in OptionRecord
  BY OptionAssumption DEF TypeOK
<1>4. opt.chunk \in Nat \ {0}
  BY <1>3 DEF OptionRecord
<1> QED
  BY <1>1, <1>2, <1>3, <1>4 DEF ChunkSize, AtLeastOne

\* ... and of the two files.
LEMMA FileTypes ==
    ASSUME TypeOK
    PROVE  /\ part.data \in Seq(Unit) /\ dest.data \in Seq(Unit)
           /\ Len(part.data) \in Nat /\ Len(dest.data) \in Nat
           /\ DOMAIN part.data = 1 .. Len(part.data)
           /\ DOMAIN dest.data = 1 .. Len(dest.data)
           /\ \A u \in 1 .. Len(part.data) : part.data[u] \in Int
           /\ \A u \in 1 .. Len(dest.data) : dest.data[u] \in Int
<1>1. part.data \in Seq(Unit) /\ dest.data \in Seq(Unit)
  BY DEF TypeOK
<1>2. \A d \in Seq(Unit) : /\ Len(d) \in Nat
                           /\ DOMAIN d = 1 .. Len(d)
                           /\ \A u \in 1 .. Len(d) : d[u] \in Unit
  OBVIOUS
<1>3. Unit \subseteq Int
  BY DEF Unit
<1> QED
  BY <1>1, <1>2, <1>3

\* Under LaterTimes the mtime tells the versions apart, in order.
LEMMA MtimeOrder ==
    ASSUME LaterTimes, NEW v \in Versions, NEW w \in Versions
    PROVE  /\ MtimeOf[v] = MtimeOf[w] => v = w
           /\ v <= w => MtimeOf[v] <= MtimeOf[w]
<1>1. v \in Int /\ w \in Int /\ MtimeOf[v] \in Int /\ MtimeOf[w] \in Int
  BY VersionAssumption DEF Versions
<1>2. v < w => MtimeOf[v] < MtimeOf[w]
  BY DEF LaterTimes
<1>3. w < v => MtimeOf[w] < MtimeOf[v]
  BY DEF LaterTimes
<1> QED
  BY <1>1, <1>2, <1>3

\* The empty file.
LEMMA EmptyFile == <<>> \in Seq(Unit) /\ Len(<<>>) = 0 /\ DOMAIN <<>> = {}
  OBVIOUS

\* What the delta operations write is a file; from the basis the plan was made
\* for, it is what the planner read.
LEMMA PatchedIsFile ==
    ASSUME TypeOK, NEW d \in Patched
    PROVE  /\ d \in Seq(Unit)
           /\ dest.data = delta.basis => d = delta.read
<1>1. delta.read \in Seq(Unit)
  BY DEF TypeOK
<1>2. CASE dest.data = delta.basis
  BY <1>1, <1>2 DEF Patched
<1>3. CASE dest.data # delta.basis
  <2>1. d \in [DOMAIN delta.read -> Unit]
    BY <1>3 DEF Patched
  <2>2. DOMAIN delta.read = 1 .. Len(delta.read) /\ Len(delta.read) \in Nat
    BY <1>1
  <2> QED
    BY <1>3, <2>1, <2>2
<1> QED
  BY <1>2, <1>3

\* What the planner reads stays a file, and each unit it adds is of the listed
\* version or a later one.
LEMMA ReadIsFile ==
    ASSUME TypeOK, DeltaRead
    PROVE  /\ delta'.read \in Seq(Unit)
           /\ delta' = [planner |-> delta.planner, read |-> delta'.read,
                        basis |-> delta.basis]
           /\ DOMAIN delta'.read = DOMAIN delta.read \cup {Len(delta.read) + 1}
           /\ \A u \in DOMAIN delta.read : delta'.read[u] = delta.read[u]
           /\ delta'.read[Len(delta.read) + 1] \in seen .. src
<1>1. PICK v \in seen .. src : delta' = [delta EXCEPT !.read = Append(@, v)]
  BY DEF DeltaRead, Readable
<1>2. delta.read \in Seq(Unit) /\ v \in Unit
  BY VersionAssumption DEF TypeOK, Unit, Versions
<1>3. delta' = [planner |-> delta.planner, read |-> Append(delta.read, v),
                basis |-> delta.basis]
  BY <1>1 DEF TypeOK
<1>4. /\ Append(delta.read, v) \in Seq(Unit)
      /\ DOMAIN Append(delta.read, v) = DOMAIN delta.read \cup {Len(delta.read) + 1}
      /\ \A u \in DOMAIN delta.read : Append(delta.read, v)[u] = delta.read[u]
      /\ Append(delta.read, v)[Len(delta.read) + 1] = v
  BY <1>2
<1> QED
  BY <1>1, <1>3, <1>4

-----------------------------------------------------------------------------
(* The type invariant. *)

\* The initial states are well typed.
LEMMA InitTyped == Init => TypeOK
  BY VersionAssumption, OptionAssumption, FaultAssumption, EmptyFile
     DEF Init, TypeOK, Versions, Points, NoDest, NoPart, NoPlan, NoRow, Row

\* Every step keeps the types (the row, the files, then the rest).
LEMMA StepTyped ==
    ASSUME TypeOK, [Next]_vars
    PROVE  TypeOK'
<1> USE DEF Goto, ReturnError
<1>0. CASE UNCHANGED vars
  BY <1>0 DEF TypeOK, vars
<1> SUFFICES ASSUME Next PROVE TypeOK'
  BY <1>0
<1>a. /\ src \in Versions /\ seen \in Versions /\ seen <= src
      /\ SizeOf[src] \in Nat /\ EntrySize \in Nat
      /\ EntryMtime \in 0 .. Now - 1 /\ EntryMtime \in Nat
      /\ ChunkSize \in Nat \ {0}
  BY EntryTypes
<1>b. /\ NoRow \in Row
      /\ NoPart \in [there : BOOLEAN, data : Seq(Unit)]
      /\ 0 .. ChunkCount(EntrySize, ChunkSize) - 1 \subseteq Nat
  BY EmptyFile DEF NoRow, Row, NoPart
<1>c. /\ DOMAIN part.data = 1 .. Len(part.data) /\ Len(part.data) \in Nat
      /\ \A u \in 1 .. Len(part.data) : part.data[u] \in Unit
      /\ DOMAIN dest.data = 1 .. Len(dest.data) /\ Len(dest.data) \in Nat
  BY DEF TypeOK
<1>d. Readable \subseteq Unit /\ Edited \in Unit
  BY <1>a, VersionAssumption DEF Unit, Edited, Versions, Readable
<1>1. row' \in Row
  <2>1. CASE ForgetChunks \/ ForgetRow \/ PruneRow
    <3>1. CASE ForgetChunks
      BY <3>1 DEF ForgetChunks, TypeOK, Row
    <3>2. CASE ForgetRow \/ PruneRow
      BY <3>2, <1>b DEF ForgetRow, PruneRow, TypeOK
    <3> QED
      BY <2>1, <3>1, <3>2
  <2>2. CASE UpsertRow
    <3>1. row' = [there |-> TRUE, size |-> EntrySize, mtime |-> EntryMtime,
                  chunk |-> ChunkSize, chunks |-> row.chunks,
                  digest |-> row.digest, finished |-> row.finished]
      BY <2>2 DEF UpsertRow, TypeOK, Row
    <3> QED
      BY <1>a, <3>1, VersionAssumption DEF TypeOK, Row
  <2>3. CASE ClearChunks
    BY <2>3, <1>a, <1>b DEF ClearChunks, TypeOK, Row
  <2>4. CASE ClearFlags
    BY <2>4, <1>a, <1>b DEF ClearFlags, TypeOK, Row
  <2>5. CASE MarkChunks
    BY <2>5, <1>a, <1>b DEF MarkChunks, TypeOK, Row
  <2>6. CASE ResetChunks
    BY <2>6, <1>a, <1>b DEF ResetChunks, TypeOK, Row
  <2>7. CASE ResetFlags
    BY <2>7, <1>a, <1>b DEF ResetFlags, TypeOK, Row
  <2>8. CASE MarkFinished
    BY <2>8, <1>a, <1>b DEF MarkFinished, TypeOK, Row
  <2>9. CASE RemoveState
    BY <2>9, <1>a, <1>b DEF RemoveState, TypeOK, Row
  <2>10. CASE UNCHANGED row
    BY <2>10 DEF TypeOK
  <2> QED
    BY <2>1, <2>2, <2>3, <2>4, <2>5, <2>6, <2>7, <2>8, <2>9, <2>10 DEF Next, Step, DeltaSign, DeltaRead, DeltaScript, DeltaPlanned, DeltaOpen, DeltaApply, DeltaCheck, LeaveDelta, DeltaDrop, DeltaFails, DeltaBreaks, disk, StartRun, StartUnlisted, PrunePart, DestGone, RdmaDrop, SkipRdma, RdmaUnsupported, BeginAttempt, SizeChanged, ShortRead, ReadDone, RdmaUnavailable, RdmaCopied, Check, RunFailed, RunSucceeded, StateRemoved, Abort, StartRdma, FastCopy, SkipFastCopy, Plan, OpenPart, RdmaOpen, RdmaPacket, DropPart, Rename, ApplyMtime, EditDest, SourceChange, ReadChunk
<1>2. part' \in [there : BOOLEAN, data : Seq(Unit)]
  <2>1. CASE FastCopy
    BY <2>1, <1>a, SourceIsFile DEF FastCopy
  <2>2. CASE OpenPart
    BY <2>2, <1>a, SetLenIsFile DEF OpenPart, TypeOK
  <2>3. CASE \E c \in todo : ReadChunk(c)
    <3> PICK c \in todo : ReadChunk(c)
      BY <2>3
    <3> PICK v \in Readable :
           part' = [part EXCEPT !.data =
              [u \in 1 .. Len(@) |-> IF u \in UnitsOf(c) THEN v ELSE @[u]]]
      BY DEF ReadChunk
    <3> DEFINE d == [u \in 1 .. Len(part.data) |->
                       IF u \in UnitsOf(c) THEN v ELSE part.data[u]]
    <3>1. part' = [part EXCEPT !.data = d]
      OBVIOUS
    <3>2. d \in Seq(Unit)
      BY <1>c, <1>d
    <3> QED
      BY <3>1, <3>2 DEF TypeOK
  <2>4. CASE RdmaOpen
    BY <2>4, <1>a, EmptyFile, SetLenIsFile DEF RdmaOpen
  <2>5. CASE RdmaPacket
    <3> PICK u \in todo, v \in Readable : part' = [part EXCEPT !.data[u] = v]
      BY <2>5 DEF RdmaPacket
    <3>1. [part.data EXCEPT ![u] = v] \in Seq(Unit)
      <4>1. [part.data EXCEPT ![u] = v]
              = [w \in 1 .. Len(part.data) |->
                    IF w = u THEN v ELSE part.data[w]]
        BY <1>c DEF TypeOK
      <4>2. [w \in 1 .. Len(part.data) |->
                IF w = u THEN v ELSE part.data[w]] \in Seq(Unit)
        BY <1>c, <1>d
      <4> QED
        BY <4>1, <4>2
    <3> QED
      BY <3>1 DEF TypeOK
  <2>6. CASE DropPart \/ RdmaDrop \/ PrunePart
    BY <2>6, <1>b DEF DropPart, RdmaDrop, PrunePart, TypeOK
  <2>7. CASE RemoveState
    BY <2>7, <1>b DEF RemoveState, TypeOK
  <2>8. CASE Rename
    BY <2>8, EmptyFile DEF Rename, NoPart
  <2>9. CASE UNCHANGED part
    BY <2>9 DEF TypeOK
  <2>10. CASE DeltaOpen
    BY <2>10, EmptyFile DEF DeltaOpen
  <2>11. CASE DeltaDrop
    BY <2>11, <1>b DEF DeltaDrop
  <2>12. CASE DeltaApply
    BY <2>12, PatchedIsFile DEF DeltaApply, TypeOK
  <2> QED
    BY <2>10, <2>11, <2>12, <2>1, <2>2, <2>3, <2>4, <2>5, <2>6, <2>7, <2>8, <2>9 DEF Next, Step, DeltaSign, DeltaRead, DeltaScript, DeltaPlanned, DeltaOpen, DeltaApply, DeltaCheck, LeaveDelta, DeltaDrop, DeltaFails, DeltaBreaks, disk, process, DestGone, StartUnlisted, PruneRow, PrunePart, ForgetChunks, ForgetRow, SkipRdma, RdmaUnsupported, BeginAttempt, SizeChanged, ShortRead, ReadDone, RdmaUnavailable, RdmaCopied, Check, RunFailed, RunSucceeded, StateRemoved, Abort, StartRdma, SkipFastCopy, StartRun, Plan, UpsertRow, ClearChunks, ClearFlags, MarkChunks, ResetChunks, ResetFlags, MarkFinished, ApplyMtime, EditDest, SourceChange
<1>3. dest' \in [there : BOOLEAN, data : Seq(Unit), mtime : 0 .. Now]
  <2>1. CASE Rename
    BY <2>1, VersionAssumption DEF Rename, TypeOK
  <2>2. CASE ApplyMtime
    <3>1. EntryMtime \in 0 .. Now
      BY <1>a, VersionAssumption
    <3>2. dest' = [there |-> dest.there, data |-> dest.data, mtime |-> EntryMtime]
      BY <2>2 DEF ApplyMtime, TypeOK
    <3> QED
      BY <3>1, <3>2 DEF TypeOK
  <2>3. CASE EditDest
    <3>1. [u \in DOMAIN dest.data |-> Edited] \in Seq(Unit)
      BY <1>c, <1>d
    <3>2. CASE dest' = [there |-> TRUE, mtime |-> Now,
                        data |-> [u \in DOMAIN dest.data |-> Edited]]
      BY <3>1, <3>2, VersionAssumption
    <3>3. CASE dest' = NoDest
      BY <3>3, EmptyFile, VersionAssumption DEF NoDest
    <3> QED
      BY <2>3, <3>2, <3>3 DEF EditDest
  <2>4. CASE UNCHANGED dest
    BY <2>4 DEF TypeOK
  <2> QED
    BY <2>1, <2>2, <2>3, <2>4 DEF Next, Step, DeltaSign, DeltaRead, DeltaScript, DeltaPlanned, DeltaOpen, DeltaApply, DeltaCheck, LeaveDelta, DeltaDrop, DeltaFails, DeltaBreaks, disk, process, DestGone, StartUnlisted, PruneRow, PrunePart, ForgetChunks, ForgetRow, RdmaDrop, SkipRdma, RdmaUnsupported, BeginAttempt, SizeChanged, ShortRead, ReadDone, RdmaUnavailable, RdmaCopied, Check, RunFailed, RunSucceeded, StateRemoved, Abort, StartRdma, FastCopy, SkipFastCopy, StartRun, Plan, UpsertRow, ClearChunks, ClearFlags, MarkChunks, ResetChunks, ResetFlags, MarkFinished, OpenPart, RdmaOpen, RdmaPacket, DropPart, RemoveState, SourceChange, ReadChunk
<1>4. src' \in Versions /\ seen' \in 1 .. src'
  <2>1. CASE SourceChange
    BY <1>a, <2>1, VersionAssumption DEF SourceChange, TypeOK, Versions, process
  <2>2. CASE StartRun
    BY <1>a, <2>2 DEF StartRun, Versions
  <2>3. CASE src' = src /\ seen' = seen
    BY <2>3 DEF TypeOK
  <2> QED
    BY <2>1, <2>2, <2>3 DEF Next, Step, DeltaSign, DeltaRead, DeltaScript, DeltaPlanned, DeltaOpen, DeltaApply, DeltaCheck, LeaveDelta, DeltaDrop, DeltaFails, DeltaBreaks, process, disk, DestGone, StartUnlisted, PruneRow, PrunePart, ForgetChunks, ForgetRow, RdmaDrop, SkipRdma, RdmaUnsupported, BeginAttempt, SizeChanged, ShortRead, ReadDone, RdmaUnavailable, RdmaCopied, Check, RunFailed, RunSucceeded, StateRemoved, Abort, StartRdma, FastCopy, SkipFastCopy, Plan, UpsertRow, ClearChunks, ClearFlags, MarkChunks, ResetChunks, ResetFlags, MarkFinished, OpenPart, RdmaOpen, RdmaPacket, DropPart, RemoveState, Rename, ApplyMtime, EditDest, ReadChunk
<1>5. /\ pc' \in Points /\ route' \in {"none", "rdma", "fast", "delta", "full"}
      /\ attempt' \in {0, 1}
      /\ outcome' \in {"none", "unlisted", "planned", "skipped", "transferred", "failed"}
  BY DEF Points, Next, Step, DeltaSign, DeltaRead, DeltaScript, DeltaPlanned, DeltaOpen, DeltaApply, DeltaCheck, LeaveDelta, DeltaDrop, DeltaFails, DeltaBreaks, TypeOK, process, disk, DestGone, StartUnlisted, PruneRow, PrunePart, ForgetChunks, ForgetRow, RdmaDrop, SkipRdma, RdmaUnsupported, BeginAttempt, SizeChanged, ShortRead, ReadDone, RdmaUnavailable, RdmaCopied, Check, RunFailed, RunSucceeded, StateRemoved, Abort, StartRdma, FastCopy, SkipFastCopy, StartRun, Plan, UpsertRow, ClearChunks, ClearFlags, MarkChunks, ResetChunks, ResetFlags, MarkFinished, OpenPart, RdmaOpen, RdmaPacket, DropPart, RemoveState, Rename, ApplyMtime, EditDest, SourceChange, ReadChunk
<1>6. opt' \in Options /\ todo' \in SUBSET Nat
  <2>1. opt' \in Options
    BY <1>a DEF Next, Step, DeltaSign, DeltaRead, DeltaScript, DeltaPlanned, DeltaOpen, DeltaApply, DeltaCheck, LeaveDelta, DeltaDrop, DeltaFails, DeltaBreaks, TypeOK, process, disk, ChunkCount, DestGone, StartUnlisted, PruneRow, PrunePart, ForgetChunks, ForgetRow, RdmaDrop, SkipRdma, RdmaUnsupported, BeginAttempt, SizeChanged, ShortRead, ReadDone, RdmaUnavailable, RdmaCopied, Check, RunFailed, RunSucceeded, StateRemoved, Abort, StartRdma, FastCopy, SkipFastCopy, StartRun, Plan, UpsertRow, ClearChunks, ClearFlags, MarkChunks, ResetChunks, ResetFlags, MarkFinished, OpenPart, RdmaOpen, RdmaPacket, DropPart, RemoveState, Rename, ApplyMtime, EditDest, SourceChange, ReadChunk
  <2>2. todo' \in SUBSET Nat
    <3>1. \/ todo' = {} \/ todo' = todo \/ todo' = 1 .. EntrySize
          \/ todo' = (0 .. ChunkCount(EntrySize, ChunkSize) - 1) \ row.chunks
          \/ \E c : todo' = todo \ {c}
      BY DEF Next, Step, DeltaSign, DeltaRead, DeltaScript, DeltaPlanned, DeltaOpen, DeltaApply, DeltaCheck, LeaveDelta, DeltaDrop, DeltaFails, DeltaBreaks, TypeOK, process, disk, DestGone, StartUnlisted, PruneRow, PrunePart, ForgetChunks, ForgetRow, RdmaDrop, SkipRdma, RdmaUnsupported, BeginAttempt, SizeChanged, ShortRead, ReadDone, RdmaUnavailable, RdmaCopied, Check, RunFailed, RunSucceeded, StateRemoved, Abort, StartRdma, FastCopy, SkipFastCopy, StartRun, Plan, UpsertRow, ClearChunks, ClearFlags, MarkChunks, ResetChunks, ResetFlags, MarkFinished, OpenPart, RdmaOpen, RdmaPacket, DropPart, RemoveState, Rename, ApplyMtime, EditDest, SourceChange, ReadChunk
    <3>2. todo \in SUBSET Nat
      BY DEF TypeOK
    <3>3. 0 .. ChunkCount(EntrySize, ChunkSize) - 1 \subseteq Nat /\ 1 .. EntrySize \subseteq Nat
      BY <1>a DEF ChunkCount
    <3> QED
      BY <3>1, <3>2, <3>3
  <2> QED
    BY <2>1, <2>2
<1>7. aborts' \in 0 .. MaxAborts /\ edits' \in 0 .. MaxEdits
  BY FaultAssumption DEF Next, Step, DeltaSign, DeltaRead, DeltaScript, DeltaPlanned, DeltaOpen, DeltaApply, DeltaCheck, LeaveDelta, DeltaDrop, DeltaFails, DeltaBreaks, TypeOK, process, disk, DestGone, StartUnlisted, PruneRow, PrunePart, ForgetChunks, ForgetRow, RdmaDrop, SkipRdma, RdmaUnsupported, BeginAttempt, SizeChanged, ShortRead, ReadDone, RdmaUnavailable, RdmaCopied, Check, RunFailed, RunSucceeded, StateRemoved, Abort, StartRdma, FastCopy, SkipFastCopy, StartRun, Plan, UpsertRow, ClearChunks, ClearFlags, MarkChunks, ResetChunks, ResetFlags, MarkFinished, OpenPart, RdmaOpen, RdmaPacket, DropPart, RemoveState, Rename, ApplyMtime, EditDest, SourceChange, ReadChunk
<1>8. delta' \in [planner : {"none", "helper", "script"}, read : Seq(Unit),
                  basis : Seq(Unit)]
  <2>1. CASE StartRun \/ StartUnlisted
    <3>1. delta' = [planner |-> "none", read |-> <<>>, basis |-> <<>>]
      BY <2>1 DEF StartRun, StartUnlisted, NoPlan
    <3> QED
      BY <3>1, EmptyFile
  <2>2. CASE DeltaSign
    <3>1. delta' = [planner |-> "helper", read |-> <<>>, basis |-> dest.data]
      BY <2>2 DEF DeltaSign
    <3> QED
      BY <3>1, EmptyFile DEF TypeOK
  <2>3. CASE DeltaRead
    BY <2>3, ReadIsFile DEF TypeOK
  <2>4. CASE DeltaScript
    <3>1. delta' = [planner |-> "script", read |-> <<>>, basis |-> delta.basis]
      BY <2>4 DEF DeltaScript, TypeOK
    <3> QED
      BY <3>1, EmptyFile DEF TypeOK
  <2>5. CASE UNCHANGED delta
    BY <2>5 DEF TypeOK
  <2> QED
    BY <2>1, <2>2, <2>3, <2>4, <2>5 DEF Next, Step, SourceChange, DeltaPlanned, process, disk, DeltaOpen, DeltaRead, DeltaScript, DeltaApply, DeltaCheck, LeaveDelta, DeltaDrop, DeltaFails, DeltaBreaks, DestGone, StartUnlisted, PruneRow, PrunePart, ForgetChunks, ForgetRow, RdmaDrop, SkipRdma, RdmaUnsupported, BeginAttempt, SizeChanged, ShortRead, ReadDone, RdmaUnavailable, RdmaCopied, Check, RunFailed, RunSucceeded, StateRemoved, Abort, StartRdma, FastCopy, SkipFastCopy, Plan, UpsertRow, ClearChunks, ClearFlags, MarkChunks, ResetChunks, ResetFlags, MarkFinished, OpenPart, RdmaOpen, RdmaPacket, DropPart, RemoveState, Rename, ApplyMtime, EditDest, ReadChunk
<1> QED
  BY <1>1, <1>2, <1>3, <1>4, <1>5, <1>6, <1>7, <1>8 DEF TypeOK

\* The two together, for the steps below.
StateTyped ==
    /\ src \in Versions /\ seen \in Versions /\ seen <= src
    /\ 1 .. seen \subseteq Versions
    /\ EntrySize \in Nat /\ EntryMtime \in Nat
    /\ Len(part.data) \in Nat /\ DOMAIN part.data = 1 .. Len(part.data)
    /\ \A u \in DOMAIN part.data : part.data[u] \in Int
    /\ Len(dest.data) \in Nat /\ DOMAIN dest.data = 1 .. Len(dest.data)
    /\ \A u \in DOMAIN dest.data : dest.data[u] \in Int

\* The facts of StateTyped follow from the types.
LEMMA StateTypes == TypeOK => StateTyped
<1> SUFFICES ASSUME TypeOK PROVE StateTyped
  OBVIOUS
<1>1. \A v \in Versions : 1 .. v \subseteq Versions
  BY VersionAssumption DEF Versions
<1> QED
  BY <1>1, EntryTypes, FileTypes DEF StateTyped

\* The partial file after it was opened for the chunked route ...
LEMMA OpenedPart ==
    ASSUME TypeOK, OpenPart
    PROVE  /\ part'.there
           /\ Len(part'.data) = EntrySize
           /\ DOMAIN part'.data = 1 .. EntrySize
           /\ \A u \in 1 .. EntrySize :
                part'.data[u] = IF u <= Len(part.data) THEN part.data[u] ELSE 0
<1>1. part.data \in Seq(Unit) /\ EntrySize \in Nat
  BY EntryTypes, FileTypes
<1>2. part'.there /\ part'.data = SetLen(part.data, EntrySize)
  BY DEF OpenPart
<1>3. /\ Len(SetLen(part.data, EntrySize)) = EntrySize
      /\ DOMAIN SetLen(part.data, EntrySize) = 1 .. EntrySize
      /\ \A u \in 1 .. EntrySize : SetLen(part.data, EntrySize)[u] =
            IF u <= Len(part.data) THEN part.data[u] ELSE 0
  <2> HIDE DEF EntrySize
  <2> QED
    BY <1>1, SetLenIsFile
<1> QED
  BY <1>2, <1>3

\* ... and when the RDMA receiver made it anew.
LEMMA PreallocatedPart ==
    ASSUME TypeOK, RdmaOpen
    PROVE  /\ part'.there
           /\ Len(part'.data) = EntrySize
           /\ DOMAIN part'.data = 1 .. EntrySize
           /\ \A u \in 1 .. EntrySize : part'.data[u] = 0
<1>1. <<>> \in Seq(Unit) /\ Len(<<>>) = 0 /\ EntrySize \in Nat
  BY EntryTypes, EmptyFile
<1>2. part'.there /\ part'.data = SetLen(<<>>, EntrySize)
  BY DEF RdmaOpen
<1>3. /\ Len(SetLen(<<>>, EntrySize)) = EntrySize
      /\ DOMAIN SetLen(<<>>, EntrySize) = 1 .. EntrySize
      /\ \A u \in 1 .. EntrySize :
            SetLen(<<>>, EntrySize)[u] = IF u <= 0 THEN <<>>[u] ELSE 0
  BY <1>1, SetLenIsFile
<1> QED
  BY <1>1, <1>2, <1>3

\* A chunk written into the partial file touches the chunk's units only.
LEMMA WrittenPart ==
    ASSUME TypeOK, NEW c \in todo, ReadChunk(c)
    PROVE  /\ part'.there = part.there
           /\ Len(part'.data) = Len(part.data)
           /\ DOMAIN part'.data = 1 .. Len(part.data)
           /\ \E v \in seen .. src : \A u \in 1 .. Len(part.data) :
                part'.data[u] = IF u \in UnitsOf(c) THEN v ELSE part.data[u]
<1> PICK v \in Readable :
       part' = [part EXCEPT !.data =
          [u \in 1 .. Len(@) |-> IF u \in UnitsOf(c) THEN v ELSE @[u]]]
  BY DEF ReadChunk
<1> DEFINE d == [u \in 1 .. Len(part.data) |->
                   IF u \in UnitsOf(c) THEN v ELSE part.data[u]]
<1>1. part' = [part EXCEPT !.data = d]
  OBVIOUS
<1>2. part'.there = part.there /\ part'.data = d
  BY <1>1 DEF TypeOK
<1>3. part'.data \in Seq(Unit) /\ Len(part.data) \in Nat
  BY StepTyped, FileTypes DEF Next, Step, DeltaSign, DeltaPlanned, DeltaOpen, DeltaApply, DeltaCheck, LeaveDelta, DeltaDrop, DeltaFails, DeltaBreaks, TypeOK
<1> QED
  BY <1>2, <1>3 DEF Readable

\* A packet touches the unit it carries only.
LEMMA ReceivedPart ==
    ASSUME TypeOK, RdmaPacket
    PROVE  /\ part'.there = part.there
           /\ Len(part'.data) = Len(part.data)
           /\ DOMAIN part'.data = 1 .. Len(part.data)
           /\ \E w \in todo, v \in seen .. src :
                /\ todo' = todo \ {w}
                /\ \A u \in 1 .. Len(part.data) :
                     part'.data[u] = IF u = w THEN v ELSE part.data[u]
<1>1. PICK w \in todo, v \in seen .. src : /\ part' = [part EXCEPT !.data[w] = v]
                                         /\ todo' = todo \ {w}
  BY DEF RdmaPacket, Readable
<1>2. part.data \in Seq(Unit) /\ part' = [there |-> part.there,
                                   data |-> [part.data EXCEPT ![w] = v]]
  BY <1>1 DEF TypeOK
<1>3. /\ Len(part'.data) = Len(part.data)
      /\ DOMAIN part'.data = 1 .. Len(part.data)
      /\ \A u \in 1 .. Len(part.data) :
           part'.data[u] = IF u = w THEN v ELSE part.data[u]
  BY <1>2
<1> QED
  BY <1>1, <1>2, <1>3

-----------------------------------------------------------------------------
(* The inductive invariant: each action keeps it, given that the types hold  *)
(* before and after.  The parts an action disturbs have a step of their own. *)

USE DEF Points, RouteFits, NoneFromTheFuture, RowKnown, AtListed,
        SameSizeAndMtime, Backed, RowHonest, DestHonest, RowClaimed, Cleared,
        Whole, PartGrows, StrictPart, InPlace, Done, StrictSingleVersion, CoreInv,
        Differing, Copying, Claimed, Ready, Windows, RowMatches, EntrySize, EntryMtime,
        ChunkSize, StateTyped, OptionRecord, Row, Unit, Versions, disk, process

\* clear_all forgets the chunks first, then the row: claims are taken back.
LEMMA ForgetChunksKeeps ==
    ASSUME IInv, TypeOK', Sheltered, ForgetChunks
    PROVE  CoreInv'
<1> USE DEF IInv, TypeOK, ForgetChunks, Goto, ReturnError
<1>1. RowHonest'
  OBVIOUS
<1>2. /\ RouteFits'
      /\ NoneFromTheFuture'
      /\ RowKnown'
      /\ DestHonest'
  OBVIOUS
<1>3. /\ RowClaimed'
      /\ Cleared'
      /\ (pc \in Copying => ~AtListed)'
      /\ PartGrows'
  OBVIOUS
<1>4. /\ StrictPart'
      /\ InPlace'
      /\ Done'
      /\ StrictSingleVersion'
  OBVIOUS
<1> QED
  BY <1>1, <1>2, <1>3, <1>4 DEF IInv

\* A run that does not list the file changes nothing at first.
LEMMA StartUnlistedKeeps ==
    ASSUME IInv, TypeOK', Sheltered, StartUnlisted
    PROVE  CoreInv'
  BY DEF IInv, TypeOK, StartUnlisted

\* The row goes first: what it claimed is still there when it goes.
LEMMA PruneRowKeeps ==
    ASSUME IInv, TypeOK', Sheltered, PruneRow
    PROVE  CoreInv'
  BY DEF IInv, TypeOK, PruneRow, NoRow

\* The partial file goes when no row claims any of it.
LEMMA PrunePartKeeps ==
    ASSUME IInv, TypeOK', Sheltered, PrunePart
    PROVE  CoreInv'
<1>1. NoneFromTheFuture'
  BY EmptyFile DEF IInv, PrunePart, NoPart
<1> USE DEF IInv, TypeOK, PrunePart
<1>2. /\ RouteFits'
      /\ RowKnown'
      /\ RowHonest'
      /\ DestHonest'
      /\ RowClaimed'
      /\ Cleared'
      /\ (pc \in Copying => ~AtListed)'
      /\ PartGrows'
      /\ StrictPart'
      /\ InPlace'
      /\ Done'
      /\ StrictSingleVersion'
  OBVIOUS
<1> QED
  BY <1>1, <1>2 DEF IInv

\* Without a row nothing is claimed.
LEMMA ForgetRowKeeps ==
    ASSUME IInv, TypeOK', Sheltered, ForgetRow
    PROVE  CoreInv'
  BY DEF IInv, TypeOK, ForgetRow, NoRow, Goto, ReturnError

\* A vanished destination ends the run.
LEMMA DestGoneKeeps ==
    ASSUME IInv, TypeOK', Sheltered, DestGone
    PROVE  CoreInv'
  BY DEF IInv, TypeOK, DestGone, LeaveDelta, Goto, ReturnError

\* Going past the RDMA route writes nothing.
LEMMA SkipRdmaKeeps ==
    ASSUME IInv, TypeOK', Sheltered, SkipRdma
    PROVE  CoreInv'
  BY DEF IInv, TypeOK, SkipRdma, Goto, ReturnError

\* Refusing --rdma require without SSH writes nothing.
LEMMA RdmaUnsupportedKeeps ==
    ASSUME IInv, TypeOK', Sheltered, RdmaUnsupported
    PROVE  CoreInv'
  BY DEF IInv, TypeOK, RdmaUnsupported, Goto, ReturnError

\* The stat before an attempt writes nothing.
LEMMA BeginAttemptKeeps ==
    ASSUME IInv, TypeOK', Sheltered, BeginAttempt
    PROVE  CoreInv'
  BY DEF IInv, TypeOK, BeginAttempt, Goto, ReturnError

\* Giving up on a source of another size writes nothing.
LEMMA SizeChangedKeeps ==
    ASSUME IInv, TypeOK', Sheltered, SizeChanged
    PROVE  CoreInv'
  BY DEF IInv, TypeOK, SizeChanged, Goto, ReturnError

\* A short read ends the run with the row and the partial file as they are.
LEMMA ShortReadKeeps ==
    ASSUME IInv, TypeOK', Sheltered, ShortRead
    PROVE  CoreInv'
  BY DEF IInv, TypeOK, ShortRead, Goto, ReturnError

\* With no chunk left to read the partial file is whole.
LEMMA ReadDoneKeeps ==
    ASSUME IInv, TypeOK', Sheltered, ReadDone
    PROVE  CoreInv'
<1>a. StateTyped
  BY StateTypes DEF IInv
<1>b. /\ pc = "read" /\ pc' = "mark" /\ route = "full" /\ todo = {}
      /\ UNCHANGED <<src, disk, opt, seen, route, todo, outcome>>
  BY DEF IInv, ReadDone, Goto
<1>1. PartGrows'
  <2>1. /\ part.there /\ Len(part.data) = EntrySize
        /\ \A u \in 1 .. EntrySize : part.data[u] >= seen
    BY <1>b DEF IInv
  <2> QED
    BY <1>a, <1>b, <2>1
<1> USE DEF IInv, TypeOK
<1>2. /\ RouteFits'
      /\ NoneFromTheFuture'
      /\ RowKnown'
      /\ RowHonest'
      /\ DestHonest'
      /\ RowClaimed'
      /\ Cleared'
      /\ (pc \in Copying => ~AtListed)'
      /\ StrictPart'
      /\ InPlace'
      /\ Done'
      /\ StrictSingleVersion'
  BY <1>b
<1> QED
  BY <1>1, <1>2 DEF IInv

\* A failed RDMA copy goes on to drop the partial file.
LEMMA RdmaUnavailableKeeps ==
    ASSUME IInv, TypeOK', Sheltered, RdmaUnavailable
    PROVE  CoreInv'
<1> USE DEF IInv, TypeOK, RdmaUnavailable, Goto, ReturnError
<1>1. RowHonest'
  OBVIOUS
<1>2. /\ RouteFits'
      /\ NoneFromTheFuture'
      /\ RowKnown'
      /\ DestHonest'
  OBVIOUS
<1>3. /\ RowClaimed'
      /\ Cleared'
      /\ (pc \in Copying => ~AtListed)'
      /\ PartGrows'
  OBVIOUS
<1>4. /\ StrictPart'
      /\ InPlace'
      /\ Done'
      /\ StrictSingleVersion'
  OBVIOUS
<1> QED
  BY <1>1, <1>2, <1>3, <1>4 DEF IInv

\* With no unit left to receive the partial file is whole.
LEMMA RdmaCopiedKeeps ==
    ASSUME IInv, TypeOK', Sheltered, RdmaCopied
    PROVE  CoreInv'
<1>a. StateTyped
  BY StateTypes DEF IInv
<1>b. /\ pc = "rdma_copy" /\ pc' = "check" /\ route = "rdma" /\ todo = {}
      /\ UNCHANGED <<src, disk, opt, seen, route, todo, outcome>>
  BY DEF IInv, RdmaCopied, Goto
<1>1. PartGrows'
  <2>1. /\ part.there /\ Len(part.data) = EntrySize
        /\ \A u \in 1 .. EntrySize : part.data[u] >= seen
    BY <1>b DEF IInv
  <2> QED
    BY <1>a, <1>b, <2>1
<1> USE DEF IInv, TypeOK, RdmaCopied, Goto, ReturnError
<1>2. /\ RouteFits'
      /\ NoneFromTheFuture'
      /\ RowKnown'
      /\ RowHonest'
      /\ DestHonest'
      /\ RowClaimed'
      /\ Cleared'
      /\ (pc \in Copying => ~AtListed)'
      /\ StrictPart'
      /\ InPlace'
      /\ Done'
      /\ StrictSingleVersion'
  OBVIOUS
<1> QED
  BY <1>1, <1>2 DEF IInv

\* A run that fails elsewhere leaves the file and its state alone.
LEMMA RunFailedKeeps ==
    ASSUME IInv, TypeOK', Sheltered, RunFailed
    PROVE  CoreInv'
  BY DEF IInv, TypeOK, RunFailed, Goto, ReturnError

\* A run that succeeds goes on to remove the state.
LEMMA RunSucceededKeeps ==
    ASSUME IInv, TypeOK', Sheltered, RunSucceeded
    PROVE  CoreInv'
  BY DEF IInv, TypeOK, RunSucceeded, Goto, ReturnError

\* The end of the cleanup writes nothing.
LEMMA StateRemovedKeeps ==
    ASSUME IInv, TypeOK', Sheltered, StateRemoved
    PROVE  CoreInv'
  BY DEF IInv, TypeOK, StateRemoved, Goto, ReturnError

\* Choosing the RDMA route writes nothing.
LEMMA StartRdmaKeeps ==
    ASSUME IInv, TypeOK', Sheltered, StartRdma
    PROVE  CoreInv'
  BY DEF IInv, TypeOK, StartRdma, Goto, ReturnError

\* Choosing the chunked route writes nothing.
LEMMA SkipFastCopyKeeps ==
    ASSUME IInv, TypeOK', Sheltered, SkipFastCopy
    PROVE  CoreInv'
<1> USE DEF IInv, TypeOK, SkipFastCopy, DeltaCandidate
<1>1. RowHonest'
  OBVIOUS
<1>2. /\ RouteFits'
      /\ NoneFromTheFuture'
      /\ RowKnown'
      /\ DestHonest'
  OBVIOUS
<1>3. /\ RowClaimed'
      /\ Cleared'
      /\ (pc \in Copying => ~AtListed)'
      /\ PartGrows'
  OBVIOUS
<1>4. /\ StrictPart'
      /\ InPlace'
      /\ Done'
      /\ StrictSingleVersion'
  OBVIOUS
<1> QED
  BY <1>1, <1>2, <1>3, <1>4 DEF IInv

\* Forgetting the chunks of another version only takes claims back.
LEMMA ClearChunksKeeps ==
    ASSUME IInv, TypeOK', Sheltered, ClearChunks
    PROVE  CoreInv'
  BY DEF IInv, TypeOK, ClearChunks, Goto, ReturnError

\* After the flags are cleared the row claims nothing.
LEMMA ClearFlagsKeeps ==
    ASSUME IInv, TypeOK', Sheltered, ClearFlags
    PROVE  CoreInv'
<1> USE DEF IInv, TypeOK, ClearFlags, Goto, ReturnError
<1>1. RowHonest'
  OBVIOUS
<1>2. /\ RouteFits'
      /\ NoneFromTheFuture'
      /\ RowKnown'
      /\ DestHonest'
  OBVIOUS
<1>3. /\ RowClaimed'
      /\ Cleared'
      /\ (pc \in Copying => ~AtListed)'
      /\ PartGrows'
  OBVIOUS
<1>4. /\ StrictPart'
      /\ InPlace'
      /\ Done'
      /\ StrictSingleVersion'
  OBVIOUS
<1> QED
  BY <1>1, <1>2, <1>3, <1>4 DEF IInv

\* Forgetting the chunks of a dropped partial file only takes claims back.
LEMMA ResetChunksKeeps ==
    ASSUME IInv, TypeOK', Sheltered, ResetChunks
    PROVE  CoreInv'
<1> USE DEF IInv, TypeOK, ResetChunks, Goto, ReturnError
<1>1. RowHonest'
  OBVIOUS
<1>2. /\ RouteFits'
      /\ NoneFromTheFuture'
      /\ RowKnown'
      /\ DestHonest'
  OBVIOUS
<1>3. /\ RowClaimed'
      /\ Cleared'
      /\ (pc \in Copying => ~AtListed)'
      /\ PartGrows'
  OBVIOUS
<1>4. /\ StrictPart'
      /\ InPlace'
      /\ Done'
      /\ StrictSingleVersion'
  OBVIOUS
<1> QED
  BY <1>1, <1>2, <1>3, <1>4 DEF IInv

\* After reset_progress the row claims nothing.
LEMMA ResetFlagsKeeps ==
    ASSUME IInv, TypeOK', Sheltered, ResetFlags
    PROVE  CoreInv'
<1> USE DEF IInv, TypeOK, ResetFlags, Goto, ReturnError
<1>1. RowHonest'
  OBVIOUS
<1>2. /\ RouteFits'
      /\ NoneFromTheFuture'
      /\ RowKnown'
      /\ DestHonest'
  OBVIOUS
<1>3. /\ RowClaimed'
      /\ Cleared'
      /\ (pc \in Copying => ~AtListed)'
      /\ PartGrows'
  OBVIOUS
<1>4. /\ StrictPart'
      /\ InPlace'
      /\ Done'
      /\ StrictSingleVersion'
  OBVIOUS
<1> QED
  BY <1>1, <1>2, <1>3, <1>4 DEF IInv

\* A row is marked finished when the destination is in place.
LEMMA MarkFinishedKeeps ==
    ASSUME IInv, TypeOK', Sheltered, MarkFinished
    PROVE  CoreInv'
<1> USE DEF IInv, TypeOK, MarkFinished, Goto, ReturnError
<1>1. RowHonest'
  OBVIOUS
<1>2. /\ RouteFits'
      /\ NoneFromTheFuture'
      /\ RowKnown'
      /\ DestHonest'
  OBVIOUS
<1>3. /\ RowClaimed'
      /\ Cleared'
      /\ (pc \in Copying => ~AtListed)'
      /\ PartGrows'
  OBVIOUS
<1>4. /\ StrictPart'
      /\ InPlace'
      /\ Done'
      /\ StrictSingleVersion'
  OBVIOUS
<1> QED
  BY <1>1, <1>2, <1>3, <1>4 DEF IInv

\* A process that stops outside the windows leaves a row that can be believed.
LEMMA AbortKeeps ==
    ASSUME IInv, TypeOK', Sheltered, Abort
    PROVE  CoreInv'
<1> USE DEF IInv, TypeOK, Abort, Goto, ReturnError
<1>1. pc \notin Windows /\ ~(opt.dry /\ pc = "cleanup")
  BY DEF Sheltered
<1>2. RowHonest'
  BY <1>1
<1>3. DestHonest'
  BY <1>1
<1>4. /\ RouteFits'
      /\ NoneFromTheFuture'
      /\ RowKnown'
      /\ RowClaimed'
      /\ Cleared'
      /\ (pc \in Copying => ~AtListed)'
      /\ PartGrows'
      /\ StrictPart'
      /\ InPlace'
      /\ Done'
      /\ StrictSingleVersion'
  OBVIOUS
<1> QED
  BY <1>2, <1>3, <1>4 DEF IInv

\* Under Sheltered the destination is left alone.
LEMMA EditDestKeeps ==
    ASSUME Sheltered, EditDest
    PROVE  FALSE
  BY DEF Sheltered, EditDest

\* All chunks are marked complete when the partial file is whole.
LEMMA MarkChunksKeeps ==
    ASSUME IInv, TypeOK', Sheltered, MarkChunks
    PROVE  CoreInv'
<1>a. StateTyped
  BY StateTypes DEF IInv
<1>b. pc = "mark" /\ route = "full" /\ RowMatches /\ ~row.finished
  BY DEF IInv, MarkChunks
<1>c. part.there /\ Whole(part.data)
  <2>1. PartGrows
    BY DEF IInv
  <2> QED
    BY <1>b, <2>1
<1>d. /\ part' = part /\ seen' = seen
      /\ row'.size = row.size /\ row'.mtime = row.mtime
      /\ row'.finished = row.finished
  BY DEF IInv, TypeOK, MarkChunks
<1>e. Backed'
  <2>1. row'.size = Len(part.data)
    BY <1>b, <1>c, <1>d
  <2>2. \A u \in 1 .. Len(part.data) : part.data[u] >= seen
    BY <1>a, <1>c
  <2> QED
    BY <1>c, <1>d, <2>1, <2>2
<1>1. RowHonest'
  BY <1>b, <1>d, <1>e
<1> USE DEF IInv, TypeOK, MarkChunks, Goto, ReturnError
<1>2. /\ RouteFits'
      /\ NoneFromTheFuture'
      /\ RowKnown'
      /\ DestHonest'
      /\ RowClaimed'
      /\ Cleared'
      /\ (pc \in Copying => ~AtListed)'
      /\ PartGrows'
      /\ StrictPart'
      /\ InPlace'
      /\ Done'
      /\ StrictSingleVersion'
  OBVIOUS
<1> QED
  BY <1>1, <1>2 DEF IInv

\* A change of the source leaves what was copied no newer than the source.
LEMMA SourceChangeKeeps ==
    ASSUME IInv, TypeOK', Sheltered, SourceChange
    PROVE  CoreInv'
<1>a. StateTyped
  BY StateTypes DEF IInv
<1>b. NoneFromTheFuture'
  <2>1. NoneFromTheFuture
    BY DEF IInv
  <2> QED
    BY <1>a, <2>1 DEF SourceChange
<1> USE DEF IInv, TypeOK, SourceChange, Goto, ReturnError
<1>1. NoneFromTheFuture'
  BY <1>b
<1>2. /\ RouteFits'
      /\ RowKnown'
      /\ RowHonest'
      /\ DestHonest'
      /\ RowClaimed'
      /\ Cleared'
      /\ (pc \in Copying => ~AtListed)'
      /\ PartGrows'
      /\ StrictPart'
      /\ InPlace'
      /\ Done'
      /\ StrictSingleVersion'
  BY SMTT(30)
<1> QED
  BY <1>1, <1>2 DEF IInv

\* With --strict-durability only a partial file of the listed version passes.
LEMMA CheckKeeps ==
    ASSUME IInv, TypeOK', Sheltered, Check
    PROVE  CoreInv'
<1>a. StateTyped
  BY StateTypes DEF IInv
<1> USE DEF IInv, TypeOK, Check, Goto, ReturnError
<1>1. StrictPart'
  <2>1. CASE pc' = "rename" /\ opt.strict
    <3>1. src = seen
      BY <1>a, <2>1, MtimeOrder DEF SourceAsListed, Sheltered
    <3>2. Len(part.data) = EntrySize /\ part' = part /\ seen' = seen
      BY <2>1
    <3>3. \A u \in 1 .. EntrySize : part.data[u] >= seen /\ part.data[u] <= src
      BY <1>a, <2>1, <3>2
    <3>4. \A u \in 1 .. EntrySize : part.data[u] = seen
      BY <1>a, <3>1, <3>2, <3>3, SMTT(30)
    <3> QED
      BY <1>a, <3>2, <3>4, SourceIsFile DEF SourceData
  <2> QED
    BY <2>1
<1>2. /\ RouteFits'
      /\ NoneFromTheFuture'
      /\ RowKnown'
      /\ RowHonest'
      /\ DestHonest'
      /\ RowClaimed'
      /\ Cleared'
      /\ (pc \in Copying => ~AtListed)'
      /\ PartGrows'
      /\ InPlace'
      /\ Done'
      /\ StrictSingleVersion'
  OBVIOUS
<1> QED
  BY <1>1, <1>2 DEF IInv

\* A clone is one version of the source, the listed one or a later one.
LEMMA FastCopyKeeps ==
    ASSUME IInv, TypeOK', Sheltered, FastCopy
    PROVE  CoreInv'
<1>a. StateTyped
  BY StateTypes DEF IInv
<1>1. /\ part'.there
      /\ part'.data = SourceData(src)
      /\ src' = src /\ seen' = seen /\ route' = "fast" /\ dest' = dest
      /\ DOMAIN part'.data = 1 .. SizeOf[src]
      /\ \A u \in DOMAIN part'.data : part'.data[u] = src
  BY <1>a, SourceIsFile DEF FastCopy, SourceData
<1> USE DEF IInv, TypeOK, FastCopy, Goto, ReturnError
<1>2. NoneFromTheFuture'
  <2>1. \A u \in DOMAIN dest.data : dest.data[u] <= src
    OBVIOUS
  <2>2. \A u \in DOMAIN part'.data : part'.data[u] <= src'
    BY <1>1, <1>a
  <2> QED
    BY <1>1, <2>1, <2>2
<1>3. PartGrows'
  BY <1>1, <1>a, SMTT(30)
<1>4. /\ RouteFits'
      /\ RowKnown'
      /\ RowHonest'
      /\ DestHonest'
      /\ RowClaimed'
      /\ Cleared'
      /\ (pc \in Copying => ~AtListed)'
      /\ StrictPart'
      /\ InPlace'
      /\ Done'
      /\ StrictSingleVersion'
  OBVIOUS
<1> QED
  BY <1>2, <1>3, <1>4 DEF IInv

\* A new listing makes older rows and destinations recognisably old.
LEMMA StartRunKeeps ==
    ASSUME IInv, TypeOK', Sheltered, StartRun
    PROVE  CoreInv'
<1>a. StateTyped
  BY StateTypes DEF IInv
<1>b. row' = row /\ row.there /\ RowMatches' => seen' = seen
  <2> SUFFICES ASSUME row.there, RowMatches', row' = row
               PROVE  seen' = seen
    OBVIOUS
  <2>1. PICK v \in 1 .. seen : row.size = SizeOf[v] /\ row.mtime = MtimeOf[v]
    BY DEF IInv
  <2>2. seen' = src
    BY DEF StartRun
  <2>3. v \in Versions /\ v <= seen /\ MtimeOf[v] = MtimeOf[src]
    BY <1>a, <2>1, <2>2
  <2>4. v = src
    BY <1>a, <2>3, MtimeOrder DEF Sheltered
  <2> QED
    BY <1>a, <2>2, <2>3, <2>4
<1>c. DestHonest'
  <2>1. DestHonest /\ pc = "idle" /\ seen' = src /\ dest' = dest
    BY DEF IInv, StartRun
  <2> QED
    BY <1>a, <2>1
<1>1. seen' = src /\ row' = row
  BY DEF StartRun
<1>2. RowKnown'
  <2> SUFFICES ASSUME row.there
               PROVE  \E v \in 1 .. src : row.size = SizeOf[v] /\ row.mtime = MtimeOf[v]
    BY <1>1
  <2>1. PICK v \in 1 .. seen : row.size = SizeOf[v] /\ row.mtime = MtimeOf[v]
    BY DEF IInv
  <2>2. v \in 1 .. src
    BY <1>a, <2>1
  <2> QED
    BY <2>1, <2>2
<1> USE DEF IInv, TypeOK, StartRun, Goto, ReturnError
<1>3. RowHonest'
  <2>1. CASE row' = row /\ row.there /\ RowMatches'
    BY <1>b, <2>1
  <2> QED
    BY <2>1 DEF NoRow
<1>4. DestHonest'
  BY <1>c
<1>5. /\ RouteFits'
      /\ NoneFromTheFuture'
      /\ RowClaimed'
      /\ Cleared'
      /\ (pc \in Copying => ~AtListed)'
      /\ PartGrows'
      /\ StrictPart'
      /\ InPlace'
      /\ Done'
      /\ StrictSingleVersion'
  OBVIOUS
<1> QED
  BY <1>2, <1>3, <1>4, <1>5 DEF IInv

\* A file is skipped only when the destination is at the listed version.
LEMMA PlanKeeps ==
    ASSUME IInv, TypeOK', Sheltered, Plan
    PROVE  CoreInv'
<1>a. StateTyped
  BY StateTypes DEF IInv
<1> USE DEF IInv, TypeOK, Plan, Goto, ReturnError
<1>1. (pc \in Copying => ~AtListed)'
  BY DEF ShouldTransfer
<1>2. Done'
  <2>1. CASE ShouldTransfer
    BY <2>1
  <2>2. CASE ~ShouldTransfer
    <3>1. dest.there
      BY <2>2 DEF ShouldTransfer
    <3>2. PICK v \in 1 .. seen :
            dest.mtime = MtimeOf[v] /\ \A u \in DOMAIN dest.data : dest.data[u] >= v
      BY <3>1
    <3>3. v \in Versions /\ v <= seen
      BY <1>a, <3>2
    <3>4. ~(dest.mtime > EntryMtime)
      BY <1>a, <3>2, <3>3, MtimeOrder, VersionAssumption, SMTT(30) DEF Sheltered
    <3>5. AtListed
      BY <2>2, <3>1, <3>4 DEF ShouldTransfer, FinishedEarlier
    <3>6. v = seen
      <4>1. MtimeOf[v] = MtimeOf[seen]
        BY <3>2, <3>5
      <4> QED
        BY <1>a, <3>3, <4>1, MtimeOrder DEF Sheltered
    <3> QED
      BY <2>2, <3>2, <3>5, <3>6
  <2> QED
    BY <2>1, <2>2
<1>3. /\ RouteFits'
      /\ NoneFromTheFuture'
      /\ RowKnown'
      /\ RowHonest'
      /\ DestHonest'
      /\ RowClaimed'
      /\ Cleared'
      /\ PartGrows'
      /\ StrictPart'
      /\ InPlace'
      /\ StrictSingleVersion'
  BY SMTT(30)
<1> QED
  BY <1>1, <1>2, <1>3 DEF IInv

\* A row that described another version is on its way to be cleared.
LEMMA UpsertRowKeeps ==
    ASSUME IInv, TypeOK', Sheltered, UpsertRow
    PROVE  CoreInv'
<1>a. StateTyped
  BY StateTypes DEF IInv
<1> USE DEF IInv, TypeOK, UpsertRow, Goto, ReturnError
<1>1. seen \in 1 .. seen
  BY <1>a
<1>2. /\ row'.there /\ row'.size = EntrySize /\ row'.mtime = EntryMtime
      /\ row'.chunk = ChunkSize /\ row'.chunks = row.chunks
      /\ row'.finished = row.finished
  OBVIOUS
<1>3. RowKnown'
  BY <1>1, <1>2, SMTT(30)
<1>4. RowClaimed'
  BY <1>2 DEF Changed
<1>5. RowHonest'
  BY <1>2, SMTT(30) DEF Changed
<1>6. /\ RouteFits'
      /\ NoneFromTheFuture'
      /\ DestHonest'
      /\ Cleared'
      /\ (pc \in Copying => ~AtListed)'
      /\ PartGrows'
      /\ StrictPart'
      /\ InPlace'
      /\ Done'
      /\ StrictSingleVersion'
  OBVIOUS
<1> QED
  BY <1>3, <1>4, <1>5, <1>6 DEF IInv

\* The chunks that will not be read again are in the partial file.
LEMMA OpenPartKeeps ==
    ASSUME IInv, TypeOK', Sheltered, OpenPart
    PROVE  CoreInv'
<1>a. StateTyped
  BY StateTypes DEF IInv
<1>1. /\ part'.there
      /\ Len(part'.data) = EntrySize
      /\ DOMAIN part'.data = 1 .. EntrySize
      /\ \A u \in 1 .. EntrySize :
            part'.data[u] = IF u <= Len(part.data) THEN part.data[u] ELSE 0
  BY OpenedPart DEF IInv
<1>2. /\ row.there /\ RowMatches /\ row.chunk = ChunkSize /\ Backed
      /\ row' = row /\ dest' = dest /\ src' = src /\ seen' = seen /\ pc' = "read"
      /\ ~row.finished
  BY DEF IInv, OpenPart
<1>3. \A u \in 1 .. EntrySize :
         ChunkOf(u, ChunkSize) \notin todo' => ChunkOf(u, ChunkSize) \in row.chunks
  <2> SUFFICES ASSUME NEW u \in 1 .. EntrySize
               PROVE  ChunkOf(u, ChunkSize) \in 0 .. ChunkCount(EntrySize, ChunkSize) - 1
    BY DEF OpenPart
  <2> QED
    BY UnitInCountedChunk, EntryTypes DEF IInv
<1>4. \A u \in 1 .. EntrySize :
         ChunkOf(u, ChunkSize) \in row.chunks => part'.data[u] >= seen
  BY <1>1, <1>2
<1>5. NoneFromTheFuture'
  <2>1. NoneFromTheFuture
    BY DEF IInv
  <2> QED
    BY <1>1, <1>2, <1>a, <2>1
<1>6. RowHonest'
  BY <1>1, <1>2, <1>4
<1>7. PartGrows'
  BY <1>1, <1>2, <1>3, <1>4 DEF OpenPart
<1>8. /\ RouteFits'
      /\ RowKnown'
      /\ DestHonest'
      /\ RowClaimed'
      /\ Cleared'
      /\ (pc \in Copying => ~AtListed)'
      /\ StrictPart'
      /\ InPlace'
      /\ Done'
      /\ StrictSingleVersion'
  BY DEF IInv, TypeOK, OpenPart
<1> QED
  BY <1>5, <1>6, <1>7, <1>8 DEF IInv

\* The RDMA receiver starts from nothing.
LEMMA RdmaOpenKeeps ==
    ASSUME IInv, TypeOK', Sheltered, RdmaOpen
    PROVE  CoreInv'
<1>a. StateTyped
  BY StateTypes DEF IInv
<1>1. /\ part'.there
      /\ Len(part'.data) = EntrySize
      /\ DOMAIN part'.data = 1 .. EntrySize
      /\ \A u \in 1 .. EntrySize : part'.data[u] = 0
  BY PreallocatedPart DEF IInv
<1>b. /\ todo' = 1 .. EntrySize
      /\ dest' = dest /\ src' = src /\ seen' = seen /\ pc' = "rdma_copy"
  BY DEF RdmaOpen
<1>2. NoneFromTheFuture'
  <2>1. \A u \in DOMAIN dest.data : dest.data[u] <= src
    BY DEF IInv
  <2>2. \A u \in DOMAIN part'.data : part'.data[u] <= src
    BY <1>1, <1>a
  <2> QED
    BY <1>b, <2>1, <2>2
<1>3. PartGrows'
  BY <1>1, <1>b
<1> USE DEF IInv, TypeOK, RdmaOpen, Goto, ReturnError
<1>4. /\ RouteFits'
      /\ RowKnown'
      /\ RowHonest'
      /\ DestHonest'
      /\ RowClaimed'
      /\ Cleared'
      /\ (pc \in Copying => ~AtListed)'
      /\ StrictPart'
      /\ InPlace'
      /\ Done'
      /\ StrictSingleVersion'
  OBVIOUS
<1> QED
  BY <1>2, <1>3, <1>4 DEF IInv

\* A received unit is no older than the listed version.
LEMMA RdmaPacketKeeps ==
    ASSUME IInv, TypeOK', Sheltered, RdmaPacket
    PROVE  CoreInv'
<1>a. StateTyped
  BY StateTypes DEF IInv
<1>b. PICK w \in todo, v \in seen .. src :
        /\ part'.there = part.there
        /\ Len(part'.data) = Len(part.data)
        /\ DOMAIN part'.data = 1 .. Len(part.data)
        /\ todo' = todo \ {w}
        /\ \A u \in 1 .. Len(part.data) :
             part'.data[u] = IF u = w THEN v ELSE part.data[u]
  BY ReceivedPart DEF IInv
<1>c. pc = "rdma_copy" /\ UNCHANGED <<src, dest, row, pc, opt, seen, route>>
  BY DEF RdmaPacket
<1>1. PartGrows'
  <2>1. PartGrows
    BY DEF IInv
  <2> QED
    BY <1>a, <1>b, <1>c, <2>1
<1>2. NoneFromTheFuture'
  <2>1. /\ \A u \in 1 .. Len(part.data) : part.data[u] <= src
        /\ \A u \in DOMAIN dest.data : dest.data[u] <= src
    BY <1>a DEF IInv
  <2>2. v <= src
    BY <1>a
  <2>3. \A u \in DOMAIN part'.data : part'.data[u] <= src
    BY <1>b, <2>1, <2>2
  <2> QED
    BY <1>c, <2>1, <2>3
<1> USE DEF IInv, TypeOK, RdmaPacket
<1>3. /\ RouteFits'
      /\ RowKnown'
      /\ RowHonest'
      /\ DestHonest'
      /\ RowClaimed'
      /\ Cleared'
      /\ (pc \in Copying => ~AtListed)'
      /\ StrictPart'
      /\ InPlace'
      /\ Done'
      /\ StrictSingleVersion'
  OBVIOUS
<1> QED
  BY <1>1, <1>2, <1>3 DEF IInv

\* A chunk is written to its own units, none older than the listed version.
LEMMA ReadChunkKeeps ==
    ASSUME IInv, TypeOK', Sheltered, NEW c \in todo, ReadChunk(c)
    PROVE  CoreInv'
<1>a. StateTyped
  BY StateTypes DEF IInv
<1>b. PICK v \in seen .. src :
        /\ part'.there = part.there
        /\ Len(part'.data) = Len(part.data)
        /\ DOMAIN part'.data = 1 .. Len(part.data)
        /\ \A u \in 1 .. Len(part.data) :
             part'.data[u] = IF u \in UnitsOf(c) THEN v ELSE part.data[u]
  BY WrittenPart DEF IInv
<1>c. /\ pc = "read" /\ todo' = todo \ {c}
      /\ UNCHANGED <<src, dest, row, pc, opt, seen, route>>
  BY DEF ReadChunk
<1>1. PartGrows'
  <2>1. PartGrows
    BY DEF IInv
  <2> QED
    BY <1>a, <1>b, <1>c, <2>1 DEF UnitsOf
<1>2. NoneFromTheFuture'
  <2>1. /\ \A u \in 1 .. Len(part.data) : part.data[u] <= src
        /\ \A u \in DOMAIN dest.data : dest.data[u] <= src
    BY <1>a DEF IInv
  <2>2. v <= src
    BY <1>a
  <2>3. \A u \in DOMAIN part'.data : part'.data[u] <= src
    BY <1>b, <2>1, <2>2
  <2> QED
    BY <1>c, <2>1, <2>3
<1>3. RowHonest'
  <2>1. RowHonest /\ (pc \in Copying => ~AtListed)
    BY DEF IInv
  <2> QED
    BY <1>a, <1>b, <1>c, <2>1, SMTT(30)
<1> USE DEF IInv, TypeOK, ReadChunk
<1>4. /\ RouteFits'
      /\ RowKnown'
      /\ DestHonest'
      /\ RowClaimed'
      /\ Cleared'
      /\ (pc \in Copying => ~AtListed)'
      /\ StrictPart'
      /\ InPlace'
      /\ Done'
      /\ StrictSingleVersion'
  OBVIOUS
<1> QED
  BY <1>1, <1>2, <1>3, <1>4 DEF IInv

\* Without a partial file the row is not believed before it is reset.
LEMMA DropPartKeeps ==
    ASSUME IInv, TypeOK', Sheltered, DropPart
    PROVE  CoreInv'
<1>a. StateTyped
  BY StateTypes DEF IInv
<1> USE DEF IInv, TypeOK, DropPart, Goto, ReturnError
<1>1. NoneFromTheFuture'
  BY <1>a, EmptyFile DEF NoPart
<1>2. /\ RouteFits'
      /\ RowKnown'
      /\ RowHonest'
      /\ DestHonest'
      /\ RowClaimed'
      /\ Cleared'
      /\ (pc \in Copying => ~AtListed)'
      /\ PartGrows'
      /\ StrictPart'
      /\ InPlace'
      /\ Done'
      /\ StrictSingleVersion'
  OBVIOUS
<1> QED
  BY <1>1, <1>2 DEF IInv

\* The RDMA route removes the partial file in a window.
LEMMA RdmaDropKeeps ==
    ASSUME IInv, TypeOK', Sheltered, RdmaDrop
    PROVE  CoreInv'
<1>a. StateTyped
  BY StateTypes DEF IInv
<1> USE DEF IInv, TypeOK, RdmaDrop, Goto, ReturnError
<1>1. NoneFromTheFuture'
  BY <1>a, EmptyFile DEF NoPart
<1>2. /\ RouteFits'
      /\ RowKnown'
      /\ RowHonest'
      /\ DestHonest'
      /\ RowClaimed'
      /\ Cleared'
      /\ (pc \in Copying => ~AtListed)'
      /\ PartGrows'
      /\ StrictPart'
      /\ InPlace'
      /\ Done'
      /\ StrictSingleVersion'
  OBVIOUS
<1> QED
  BY <1>1, <1>2 DEF IInv

\* The cleanup removes the row and the partial file in either order.
LEMMA RemoveStateKeeps ==
    ASSUME IInv, TypeOK', Sheltered, RemoveState
    PROVE  CoreInv'
<1>a. StateTyped
  BY StateTypes DEF IInv
<1>b. NoneFromTheFuture'
  <2>1. NoneFromTheFuture
    BY DEF IInv
  <2>2. (part' = part \/ part' = NoPart) /\ dest' = dest /\ src' = src
    BY DEF RemoveState
  <2> QED
    BY <2>1, <2>2, EmptyFile DEF NoPart
<1> USE DEF IInv, TypeOK, RemoveState, Goto, ReturnError
<1>1. NoneFromTheFuture'
  BY <1>b
<1>2. RowKnown'
  BY DEF NoRow
<1>3. RowHonest'
  BY DEF NoRow
<1>4. Done'
  BY DEF NoRow
<1>5. /\ RouteFits'
      /\ DestHonest'
      /\ RowClaimed'
      /\ Cleared'
      /\ (pc \in Copying => ~AtListed)'
      /\ PartGrows'
      /\ StrictPart'
      /\ InPlace'
      /\ StrictSingleVersion'
  OBVIOUS
<1> QED
  BY <1>1, <1>2, <1>3, <1>4, <1>5 DEF IInv

\* Taking the signature of the destination writes nothing.
LEMMA DeltaSignKeeps ==
    ASSUME IInv, TypeOK', Sheltered, DeltaSign
    PROVE  CoreInv'
  BY DEF IInv, TypeOK, DeltaSign

\* Nor does reading the source, by the helper, ...
LEMMA DeltaReadKeeps ==
    ASSUME IInv, TypeOK', Sheltered, DeltaRead
    PROVE  CoreInv'
<1> USE DEF IInv, TypeOK, DeltaRead
<1>1. RowHonest' /\ RowClaimed' /\ RowKnown'
  OBVIOUS
<1>2. PartGrows' /\ StrictPart' /\ InPlace' /\ StrictSingleVersion'
  OBVIOUS
<1>3. /\ RouteFits' /\ NoneFromTheFuture' /\ DestHonest' /\ Cleared'
      /\ (pc \in Copying => ~AtListed)' /\ Done'
  OBVIOUS
<1> QED
  BY <1>1, <1>2, <1>3

\* ... by the script after it, ...
LEMMA DeltaScriptKeeps ==
    ASSUME IInv, TypeOK', Sheltered, DeltaScript
    PROVE  CoreInv'
  BY DEF IInv, TypeOK, DeltaScript

\* ... or planning.
LEMMA DeltaPlannedKeeps ==
    ASSUME IInv, TypeOK', Sheltered, DeltaPlanned
    PROVE  CoreInv'
  BY DEF IInv, TypeOK, DeltaPlanned, Goto

\* Giving the delta route up before it has touched the partial file leaves a
\* row that can be believed.
LEMMA DeltaFailsKeeps ==
    ASSUME IInv, TypeOK', Sheltered, DeltaFails
    PROVE  CoreInv'
<1> USE DEF IInv, TypeOK, DeltaFails, LeaveDelta
<1>1. RowHonest'
  OBVIOUS
<1>2. RouteFits' /\ NoneFromTheFuture'
  OBVIOUS
<1>2a. RowKnown' /\ DestHonest'
  OBVIOUS
<1>3. /\ RowClaimed'
      /\ Cleared'
      /\ (pc \in Copying => ~AtListed)'
      /\ PartGrows'
  OBVIOUS
<1>4. /\ StrictPart'
      /\ InPlace'
      /\ Done'
      /\ StrictSingleVersion'
  OBVIOUS
<1> QED
  BY <1>1, <1>2, <1>2a, <1>3, <1>4 DEF IInv

\* So does an operation that fails when the new contents are written.
LEMMA DeltaBreaksKeeps ==
    ASSUME IInv, TypeOK', Sheltered, DeltaBreaks
    PROVE  CoreInv'
<1>a. pc \in {"delta_check", "rename"}
  BY DEF Sheltered, DeltaBreaks
<1> USE DEF IInv, TypeOK, DeltaBreaks, LeaveDelta
<1>1. RowHonest'
  BY <1>a
<1>2. RouteFits' /\ NoneFromTheFuture'
  BY <1>a
<1>2a. RowKnown' /\ DestHonest'
  BY <1>a
<1>3. /\ RowClaimed'
      /\ Cleared'
      /\ (pc \in Copying => ~AtListed)'
      /\ PartGrows'
  BY <1>a
<1>4. /\ StrictPart'
      /\ InPlace'
      /\ Done'
      /\ StrictSingleVersion'
  BY <1>a
<1> QED
  BY <1>1, <1>2, <1>2a, <1>3, <1>4 DEF IInv

\* The basis is the destination, so that the digests agree.
LEMMA DeltaDropKeeps ==
    ASSUME IInv, DeltaDrop
    PROVE  FALSE
  BY DEF IInv, DeltaBasis, DeltaDrop

\* The partial file is truncated in a window.
LEMMA DeltaOpenKeeps ==
    ASSUME IInv, TypeOK', Sheltered, DeltaOpen
    PROVE  CoreInv'
<1>1. NoneFromTheFuture'
  BY EmptyFile DEF IInv, DeltaOpen
<1>2. part'.data = <<>> /\ Len(part'.data) = 0 /\ DOMAIN part'.data = {}
  BY EmptyFile DEF DeltaOpen
<1> USE DEF IInv, TypeOK, DeltaOpen
<1>3. /\ RouteFits'
      /\ RowKnown'
      /\ RowHonest'
      /\ DestHonest'
      /\ RowClaimed'
      /\ Cleared'
      /\ (pc \in Copying => ~AtListed)'
      /\ PartGrows'
      /\ StrictPart'
      /\ InPlace'
      /\ Done'
      /\ StrictSingleVersion'
  OBVIOUS
<1> QED
  BY <1>1, <1>3 DEF IInv

\* What is built from the basis is what the planner read, of the listed size.
LEMMA DeltaApplyKeeps ==
    ASSUME IInv, TypeOK', Sheltered, DeltaApply
    PROVE  CoreInv'
<1>a. StateTyped
  BY StateTypes DEF IInv
<1>b. /\ pc = "delta_apply" /\ pc' = "delta_check" /\ part'.there
      /\ UNCHANGED <<src, dest, row, opt, delta, seen, route, todo, outcome>>
  BY DEF DeltaApply
<1>c. /\ \A u \in DOMAIN delta.read : delta.read[u] \in seen .. src
      /\ Len(delta.read) = EntrySize
      /\ dest.data = delta.basis
      /\ row.there /\ RowMatches => ~row.finished
  BY <1>b DEF IInv, DeltaPlan, DeltaBasis, Differing
<1>e. part'.data = delta.read
  <2>1. PICK d \in Patched : part' = [there |-> TRUE, data |-> d]
    BY DEF DeltaApply
  <2> QED
    BY <1>c, <2>1, PatchedIsFile DEF IInv
<1>f. /\ Len(part'.data) = EntrySize /\ DOMAIN part'.data = 1 .. EntrySize
      /\ \A u \in 1 .. EntrySize : part'.data[u] \in seen .. src
  <2>1. delta.read \in Seq(Unit)
    BY DEF IInv, TypeOK
  <2>2. DOMAIN delta.read = 1 .. EntrySize
    BY <1>c, <2>1
  <2> QED
    BY <1>c, <1>e, <2>2
<1>1. NoneFromTheFuture'
  <2>1. \A u \in DOMAIN dest.data : dest.data[u] <= src
    BY DEF IInv
  <2>2. \A u \in DOMAIN part'.data : part'.data[u] <= src
    BY <1>a, <1>c, <1>f
  <2> QED
    BY <1>b, <2>1, <2>2
<1>2. RowHonest'
  BY <1>a, <1>b, <1>c, <1>f
<1> USE DEF IInv, TypeOK, DeltaApply
<1>3. /\ RouteFits'
      /\ RowKnown'
      /\ DestHonest'
      /\ RowClaimed'
      /\ Cleared'
      /\ (pc \in Copying => ~AtListed)'
      /\ PartGrows'
      /\ StrictPart'
      /\ InPlace'
      /\ Done'
      /\ StrictSingleVersion'
  OBVIOUS
<1> QED
  BY <1>1, <1>2, <1>3 DEF IInv

\* The digest that agrees is that of what the planner read.
LEMMA DeltaCheckKeeps ==
    ASSUME IInv, TypeOK', Sheltered, DeltaCheck
    PROVE  CoreInv'
<1>a. StateTyped
  BY StateTypes DEF IInv
<1>b. /\ pc = "delta_check" /\ pc' = "rename" /\ part.there /\ route = "delta"
      /\ part.data = delta.read /\ Len(delta.read) = EntrySize
      /\ \A u \in DOMAIN delta.read : delta.read[u] \in seen .. src
  BY DEF IInv, DeltaPlan, DeltaBasis, Differing, DeltaCheck, Goto
<1>d. /\ Len(part.data) = EntrySize /\ DOMAIN part.data = 1 .. EntrySize
      /\ \A u \in 1 .. EntrySize : part.data[u] \in seen .. src
  BY <1>a, <1>b
<1>1. PartGrows'
  BY <1>a, <1>b, <1>d DEF DeltaCheck, Goto
<1> USE DEF IInv, TypeOK, DeltaCheck, Goto
<1>2. /\ RouteFits'
      /\ NoneFromTheFuture'
      /\ RowKnown'
      /\ RowHonest'
      /\ DestHonest'
      /\ RowClaimed'
      /\ Cleared'
      /\ (pc \in Copying => ~AtListed)'
      /\ StrictPart'
      /\ InPlace'
      /\ Done'
      /\ StrictSingleVersion'
  BY <1>b
<1> QED
  BY <1>1, <1>2 DEF IInv

\* What is put in place is whole.
LEMMA RenameKeeps ==
    ASSUME IInv, TypeOK', Sheltered, Rename
    PROVE  CoreInv'
<1>a. StateTyped
  BY StateTypes DEF IInv
<1> USE DEF IInv, TypeOK, Rename, Goto, ReturnError
<1>1. NoneFromTheFuture'
  BY <1>a, EmptyFile DEF NoPart
<1>2. /\ RouteFits'
      /\ RowKnown'
      /\ RowHonest'
      /\ DestHonest'
      /\ RowClaimed'
      /\ Cleared'
      /\ (pc \in Copying => ~AtListed)'
      /\ PartGrows'
      /\ StrictPart'
      /\ InPlace'
      /\ Done'
      /\ StrictSingleVersion'
  OBVIOUS
<1> QED
  BY <1>1, <1>2 DEF IInv

\* The destination gets the mtime of a version none of its units is older than.
LEMMA ApplyMtimeKeeps ==
    ASSUME IInv, TypeOK', Sheltered, ApplyMtime
    PROVE  CoreInv'
<1>a. StateTyped
  BY StateTypes DEF IInv
<1>b. DestHonest'
  <2>1. /\ dest.there /\ \A u \in DOMAIN dest.data : dest.data[u] >= seen
        /\ pc' = "finish" /\ seen' = seen
    BY DEF IInv, ApplyMtime
  <2>2. dest'.data = dest.data /\ dest'.mtime = MtimeOf[seen]
    BY DEF IInv, TypeOK, ApplyMtime
  <2>3. seen \in 1 .. seen
    BY <1>a
  <2> QED
    BY <2>1, <2>2, <2>3
<1> USE DEF IInv, TypeOK, ApplyMtime, Goto, ReturnError
<1>1. DestHonest'
  BY <1>b
<1>2. /\ RouteFits'
      /\ NoneFromTheFuture'
      /\ RowKnown'
      /\ RowHonest'
      /\ RowClaimed'
      /\ Cleared'
      /\ (pc \in Copying => ~AtListed)'
      /\ PartGrows'
      /\ StrictPart'
      /\ InPlace'
      /\ Done'
      /\ StrictSingleVersion'
  OBVIOUS
<1> QED
  BY <1>1, <1>2 DEF IInv

-----------------------------------------------------------------------------
(* The plan of the delta route. *)

\* Outside the delta route no step leads to a point where a difference is being
\* taken, nor puts the delta route's file in place.
LEMMA DeltaElsewhere ==
    ASSUME TypeOK, RouteFits, Next, ~SourceChange, ~EditDest, ~DeltaSign,
           ~DeltaRead, ~DeltaScript, ~DeltaPlanned, ~DeltaCheck
    PROVE  /\ pc' \in Differing =>
                /\ UNCHANGED <<delta, seen, src>>
                /\ {pc, pc'} \subseteq Differing \ {"delta_plan"}
                /\ pc' = "delta_check" => part'.there
           /\ ~(pc' = "rename" /\ route' = "delta")
  BY DEF Differing, Next, Step, TypeOK, StartRun, DeltaSign, DeltaRead, DeltaScript, DeltaApply, DeltaOpen, LeaveDelta, DeltaDrop, DeltaFails, DeltaBreaks, DestGone, StartUnlisted, PruneRow, PrunePart, ForgetChunks, ForgetRow, RdmaDrop, SkipRdma, RdmaUnsupported, BeginAttempt, SizeChanged, ShortRead, ReadDone, RdmaUnavailable, RdmaCopied, Check, RunFailed, RunSucceeded, StateRemoved, Abort, StartRdma, FastCopy, SkipFastCopy, Plan, UpsertRow, ClearChunks, ClearFlags, MarkChunks, ResetChunks, ResetFlags, MarkFinished, OpenPart, RdmaOpen, RdmaPacket, DropPart, RemoveState, Rename, ApplyMtime, ReadChunk, Goto, ReturnError, process, disk

\* A point that belongs to a route is reached by that route only.
LEMMA RouteKeeps ==
    ASSUME TypeOK, RouteFits, [Next]_vars
    PROVE  RouteFits'
<1>1. CASE UNCHANGED vars
  BY <1>1 DEF vars, Differing
<1>2. CASE Next
  BY <1>2 DEF Differing, DeltaPlanned, DeltaCheck, DeltaCandidate, SourceChange, EditDest, Next, Step, StartRun, DeltaSign, DeltaRead, DeltaScript, DeltaApply, DeltaOpen, LeaveDelta, DeltaDrop, DeltaFails, DeltaBreaks, DestGone, StartUnlisted, PruneRow, PrunePart, ForgetChunks, ForgetRow, RdmaDrop, SkipRdma, RdmaUnsupported, BeginAttempt, SizeChanged, ShortRead, ReadDone, RdmaUnavailable, RdmaCopied, Check, RunFailed, RunSucceeded, StateRemoved, Abort, StartRdma, FastCopy, SkipFastCopy, Plan, UpsertRow, ClearChunks, ClearFlags, MarkChunks, ResetChunks, ResetFlags, MarkFinished, OpenPart, RdmaOpen, RdmaPacket, DropPart, RemoveState, Rename, ApplyMtime, ReadChunk, Goto, ReturnError, process, disk
<1> QED
  BY <1>1, <1>2

\* What the planner reads is the source's; what it plans has the listed size,
\* and is the listed version if it is a helper's and the mtime tells.
LEMMA DeltaPlanKeeps ==
    ASSUME TypeOK, TypeOK', RouteFits, DeltaPlan, DeltaFromSource, [Next]_vars
    PROVE  DeltaPlan' /\ DeltaFromSource'
<1>a. StateTyped
  BY StateTypes
<1>1. CASE UNCHANGED vars
  BY <1>1 DEF DeltaPlan, DeltaFromSource, Differing, SourceData, vars
<1>2. CASE SourceChange
  <2>1. /\ UNCHANGED <<pc, route, delta, seen, part>> /\ src' = src + 1
    BY <1>2 DEF SourceChange
  <2>2. seen .. src \subseteq seen' .. src'
    BY <1>a, <2>1
  <2>3. \A v : SourceData(v)' = SourceData(v)
    BY DEF SourceData
  <2> QED
    BY <2>1, <2>2, <2>3 DEF DeltaPlan, DeltaFromSource, Differing
<1>3. CASE EditDest
  BY <1>3 DEF DeltaPlan, DeltaFromSource, Differing, SourceData, EditDest
<1>7. CASE DeltaSign
  BY <1>7, EmptyFile DEF DeltaPlan, DeltaFromSource, Differing, DeltaSign
<1>8. CASE DeltaRead
  <2>1. \A u \in DOMAIN delta.read : delta.read[u] \in seen .. src
    BY <1>8 DEF DeltaPlan, Differing, DeltaRead
  <2>2. /\ DOMAIN delta'.read = DOMAIN delta.read \cup {Len(delta.read) + 1}
        /\ \A u \in DOMAIN delta.read : delta'.read[u] = delta.read[u]
        /\ delta'.read[Len(delta.read) + 1] \in seen .. src
    BY <1>8, ReadIsFile
  <2>6. \A u \in DOMAIN delta'.read : delta'.read[u] \in seen .. src
    BY <2>1, <2>2
  <2>7. pc' = "delta_plan" /\ UNCHANGED <<seen, src>>
    BY <1>8 DEF DeltaRead
  <2> QED
    BY <2>6, <2>7 DEF DeltaPlan, DeltaFromSource, Differing
<1>9. CASE DeltaScript
  <2>1. delta'.read = <<>>
    BY <1>9 DEF DeltaScript, TypeOK
  <2> QED
    BY <1>9, <2>1, EmptyFile DEF DeltaPlan, DeltaFromSource, Differing, DeltaScript
<1>4. CASE DeltaPlanned
  <2>1. /\ \A u \in DOMAIN delta.read : delta.read[u] \in seen .. src
        /\ Len(delta.read) = EntrySize /\ pc' = "delta_open"
        /\ UNCHANGED <<delta, seen, src, part>>
        /\ delta.planner = "helper" => MtimeOf[src] = MtimeOf[seen]
    BY <1>4 DEF DeltaPlan, Differing, DeltaPlanned, Goto
  <2>2. delta.planner = "helper" /\ LaterTimes =>
          \A u \in DOMAIN delta.read : delta.read[u] = seen
    <3>1. delta.planner = "helper" /\ LaterTimes => src = seen
      BY <1>a, <2>1, MtimeOrder
    <3> QED
      BY <1>a, <2>1, <3>1
  <2> QED
    BY <2>1, <2>2 DEF DeltaPlan, DeltaFromSource, Differing, LaterTimes
<1>5. CASE DeltaCheck
  <2>1. /\ \A u \in DOMAIN delta.read : delta.read[u] \in seen .. src
        /\ Len(delta.read) = EntrySize /\ delta.read \in Seq(Unit)
        /\ UNCHANGED <<delta, seen, src, part>>
        /\ pc' = "delta_drop" \/ (pc' = "rename" /\ part.data = delta.read)
        /\ delta.planner = "helper" /\ LaterTimes =>
             \A u \in DOMAIN delta.read : delta.read[u] = seen
    BY <1>5 DEF DeltaPlan, Differing, DeltaCheck, Goto, TypeOK
  <2>2. delta.planner = "helper" /\ LaterTimes => delta.read = SourceData(seen)
    BY <1>a, <2>1, SourceIsFile DEF EntrySize
  <2> QED
    BY <2>1, <2>2 DEF DeltaPlan, DeltaFromSource, Differing, SourceData, LaterTimes
<1>6. CASE Next /\ ~(\/ SourceChange \/ EditDest \/ DeltaSign \/ DeltaRead
                     \/ DeltaScript \/ DeltaPlanned \/ DeltaCheck)
  BY <1>6, DeltaElsewhere DEF DeltaPlan, DeltaFromSource, Differing, LaterTimes
<1> QED
  BY <1>1, <1>2, <1>3, <1>4, <1>5, <1>6, <1>7, <1>8, <1>9

\* While the destination is left alone it stays the basis of the plan.
LEMMA DeltaBasisKeeps ==
    ASSUME IInv, TypeOK', Sheltered, [Next]_vars
    PROVE  DeltaBasis'
<1>a. StateTyped
  BY StateTypes DEF IInv
<1>1. CASE UNCHANGED vars
  BY <1>1 DEF IInv, DeltaBasis, Differing, SourceData, vars
<1>2. CASE SourceChange
  BY <1>2 DEF IInv, DeltaBasis, Differing, SourceData, SourceChange
<1>3. CASE EditDest
  BY <1>3, EditDestKeeps
<1>4. CASE DeltaSign
  BY <1>4 DEF IInv, DeltaBasis, Differing, DeltaSign
<1>5. CASE DeltaRead \/ DeltaScript
  <2>1. delta'.basis = delta.basis /\ pc = "delta_plan" /\ pc' = pc /\ UNCHANGED dest
    <3>1. CASE DeltaRead
      <4>1. TypeOK
        BY DEF IInv
      <4>2. delta'.basis = delta.basis
        BY <3>1, <4>1, ReadIsFile
      <4> QED
        BY <3>1, <4>2 DEF DeltaRead
    <3>2. CASE DeltaScript
      BY <3>2 DEF IInv, TypeOK, DeltaScript
    <3> QED
      BY <1>5, <3>1, <3>2
  <2> QED
    BY <2>1 DEF IInv, DeltaBasis, Differing
<1>12. CASE DeltaPlanned
  BY <1>12 DEF IInv, DeltaBasis, Differing, DeltaPlanned, Goto
<1>6. CASE DeltaOpen
  <2>1. row.there /\ RowMatches => ~row.finished
    BY <1>6 DEF IInv, DeltaOpen
  <2> QED
    BY <1>6, <2>1 DEF IInv, DeltaBasis, Differing, DeltaOpen
<1>7. CASE DeltaApply
  <2>1. PICK d \in Patched : part' = [there |-> TRUE, data |-> d]
    BY <1>7 DEF DeltaApply
  <2>2. /\ pc = "delta_apply" /\ pc' = "delta_check"
        /\ UNCHANGED <<dest, delta, row, seen>> /\ dest.data = delta.basis
    BY <1>7 DEF IInv, DeltaBasis, Differing, DeltaApply
  <2>4. d = delta.read
    BY <2>2, PatchedIsFile DEF IInv
  <2> QED
    BY <2>1, <2>2, <2>4 DEF DeltaBasis, Differing
<1>8. CASE DeltaCheck
  BY <1>8 DEF IInv, DeltaBasis, Differing, DeltaCheck, Goto
<1>9. CASE /\ Next
           /\ ~(SourceChange \/ EditDest \/ DeltaPlanned \/ DeltaCheck)
           /\ ~(DeltaRead \/ DeltaScript \/ DeltaSign \/ DeltaOpen \/ DeltaApply)
  <2>1. pc' \notin Differing
    BY <1>9 DEF Differing, Next, Step, StartRun, DeltaSign, DeltaRead, DeltaScript, DeltaApply, DeltaOpen, LeaveDelta, DeltaDrop, DeltaFails, DeltaBreaks, DestGone, StartUnlisted, PruneRow, PrunePart, ForgetChunks, ForgetRow, RdmaDrop, SkipRdma, RdmaUnsupported, BeginAttempt, SizeChanged, ShortRead, ReadDone, RdmaUnavailable, RdmaCopied, Check, RunFailed, RunSucceeded, StateRemoved, Abort, StartRdma, FastCopy, SkipFastCopy, Plan, UpsertRow, ClearChunks, ClearFlags, MarkChunks, ResetChunks, ResetFlags, MarkFinished, OpenPart, RdmaOpen, RdmaPacket, DropPart, RemoveState, Rename, ApplyMtime, ReadChunk, Goto, ReturnError, process, disk
  <2> QED
    BY <2>1 DEF DeltaBasis, Differing
<1> QED
  BY <1>1, <1>2, <1>3, <1>4, <1>5, <1>6, <1>7, <1>8, <1>9, <1>12

-----------------------------------------------------------------------------
(* The induction, and the theorems of the specification. *)

\* Nothing is on disk at first.
LEMMA InitInv == Init => IInv
<1> SUFFICES ASSUME Init PROVE IInv
  OBVIOUS
<1>1. TypeOK
  BY InitTyped
<1>2. /\ DOMAIN part.data = {} /\ DOMAIN dest.data = {}
      /\ ~dest.there /\ ~row.there /\ pc = "idle"
  BY EmptyFile DEF Init, NoPart, NoDest, NoRow
<1> QED
  BY <1>1, <1>2 DEF IInv, DeltaPlan, DeltaBasis, DeltaFromSource, Differing

\* Every step keeps the part of the inductive invariant that is about the files
\* and the row.
LEMMA StepCore ==
    ASSUME IInv, Sheltered, [Next]_vars
    PROVE  CoreInv'
<1>1. TypeOK'
  BY StepTyped DEF IInv
<1>2. CASE UNCHANGED vars
  BY <1>2, SMTT(30) DEF IInv, TypeOK, vars
<1>3. CASE Next
  <2>1. CASE SourceChange
    BY <1>1, <2>1, SourceChangeKeeps
  <2>2. CASE EditDest
    BY <2>2, EditDestKeeps
  <2>3. CASE Abort
    BY <1>1, <2>3, AbortKeeps
  <2>4. CASE StartRun
    BY <1>1, <2>4, StartRunKeeps
  <2>6. CASE DeltaBreaks
    BY <1>1, <2>6, DeltaBreaksKeeps
  <2>7. CASE StartUnlisted
    BY <1>1, <2>7, StartUnlistedKeeps
  <2>5. CASE Step
    <3>1. CASE ForgetChunks
      BY <1>1, <3>1, ForgetChunksKeeps
    <3>2. CASE ForgetRow
      BY <1>1, <3>2, ForgetRowKeeps
    <3>3. CASE Plan
      BY <1>1, <3>3, PlanKeeps
    <3>4. CASE SkipRdma
      BY <1>1, <3>4, SkipRdmaKeeps
    <3>5. CASE RdmaUnsupported
      BY <1>1, <3>5, RdmaUnsupportedKeeps
    <3>6. CASE StartRdma
      BY <1>1, <3>6, StartRdmaKeeps
    <3>7. CASE FastCopy
      BY <1>1, <3>7, FastCopyKeeps
    <3>8. CASE SkipFastCopy
      BY <1>1, <3>8, SkipFastCopyKeeps
    <3>9. CASE UpsertRow
      BY <1>1, <3>9, UpsertRowKeeps
    <3>10. CASE ClearChunks
      BY <1>1, <3>10, ClearChunksKeeps
    <3>11. CASE ClearFlags
      BY <1>1, <3>11, ClearFlagsKeeps
    <3>12. CASE BeginAttempt
      BY <1>1, <3>12, BeginAttemptKeeps
    <3>13. CASE SizeChanged
      BY <1>1, <3>13, SizeChangedKeeps
    <3>14. CASE OpenPart
      BY <1>1, <3>14, OpenPartKeeps
    <3>15. CASE ShortRead
      BY <1>1, <3>15, ShortReadKeeps
    <3>16. CASE ReadDone
      BY <1>1, <3>16, ReadDoneKeeps
    <3>17. CASE MarkChunks
      BY <1>1, <3>17, MarkChunksKeeps
    <3>18. CASE RdmaOpen
      BY <1>1, <3>18, RdmaOpenKeeps
    <3>19. CASE RdmaPacket
      BY <1>1, <3>19, RdmaPacketKeeps
    <3>20. CASE RdmaCopied
      BY <1>1, <3>20, RdmaCopiedKeeps
    <3>21. CASE RdmaUnavailable
      BY <1>1, <3>21, RdmaUnavailableKeeps
    <3>22. CASE Check
      BY <1>1, <3>22, CheckKeeps
    <3>23. CASE DropPart
      BY <1>1, <3>23, DropPartKeeps
    <3>24. CASE ResetChunks
      BY <1>1, <3>24, ResetChunksKeeps
    <3>25. CASE ResetFlags
      BY <1>1, <3>25, ResetFlagsKeeps
    <3>26. CASE Rename
      BY <1>1, <3>26, RenameKeeps
    <3>27. CASE ApplyMtime
      BY <1>1, <3>27, ApplyMtimeKeeps
    <3>28. CASE DestGone
      BY <1>1, <3>28, DestGoneKeeps
    <3>29. CASE MarkFinished
      BY <1>1, <3>29, MarkFinishedKeeps
    <3>30. CASE RunFailed
      BY <1>1, <3>30, RunFailedKeeps
    <3>31. CASE RunSucceeded
      BY <1>1, <3>31, RunSucceededKeeps
    <3>32. CASE RemoveState
      BY <1>1, <3>32, RemoveStateKeeps
    <3>33. CASE StateRemoved
      BY <1>1, <3>33, StateRemovedKeeps
    <3>34. CASE \E c \in todo : ReadChunk(c)
      BY <1>1, <3>34, ReadChunkKeeps
    <3>35. CASE RdmaDrop
      BY <1>1, <3>35, RdmaDropKeeps
    <3>36. CASE DeltaSign
      BY <1>1, <3>36, DeltaSignKeeps
    <3>37. CASE DeltaPlanned
      BY <1>1, <3>37, DeltaPlannedKeeps
    <3>45. CASE DeltaRead
      BY <1>1, <3>45, DeltaReadKeeps
    <3>46. CASE DeltaScript
      BY <1>1, <3>46, DeltaScriptKeeps
    <3>38. CASE DeltaOpen
      BY <1>1, <3>38, DeltaOpenKeeps
    <3>39. CASE DeltaApply
      BY <1>1, <3>39, DeltaApplyKeeps
    <3>40. CASE DeltaCheck
      BY <1>1, <3>40, DeltaCheckKeeps
    <3>41. CASE DeltaDrop
      BY <1>1, <3>41, DeltaDropKeeps
    <3>42. CASE DeltaFails
      BY <1>1, <3>42, DeltaFailsKeeps
    <3>43. CASE PruneRow
      BY <1>1, <3>43, PruneRowKeeps
    <3>44. CASE PrunePart
      BY <1>1, <3>44, PrunePartKeeps
    <3> QED
      BY <2>5, <3>43, <3>44, <3>45, <3>46, <3>36, <3>37, <3>38, <3>39, <3>40, <3>41, <3>42, <3>35, <3>1, <3>2, <3>3, <3>4, <3>5, <3>6, <3>7, <3>8, <3>9, <3>10, <3>11, <3>12, <3>13, <3>14, <3>15, <3>16, <3>17, <3>18, <3>19, <3>20, <3>21, <3>22, <3>23, <3>24, <3>25, <3>26, <3>27, <3>28, <3>29, <3>30, <3>31, <3>32, <3>33, <3>34 DEF Step
  <2> QED
    BY <1>3, <2>1, <2>2, <2>3, <2>4, <2>5, <2>6, <2>7 DEF Next
<1> QED
  BY <1>2, <1>3

\* Every step keeps the inductive invariant.
LEMMA StepInv ==
    ASSUME IInv, Sheltered, [Next]_vars
    PROVE  IInv'
<1>1. TypeOK'
  BY StepTyped DEF IInv
<1> QED
  BY <1>1, StepCore, DeltaPlanKeeps, DeltaBasisKeeps DEF IInv

\* In every reachable state each variable has its type.  No assumption on
\* where processes stop: types survive every crash.
THEOREM Typing == Spec => []TypeOK
<1>1. Init => TypeOK
  BY InitTyped
<1>2. TypeOK /\ [Next]_vars => TypeOK'
  BY StepTyped
<1> QED
  BY <1>1, <1>2, PTL DEF Spec

\* When no process stops in a window and the destination is left alone, the
\* inductive invariant holds in every reachable state: outside the windows the
\* row in state.db never claims more than the partial file and the destination
\* hold, however many processes died between any other two steps.
THEOREM Invariance == Sheltered => (Spec => []IInv)
<1>1. Init => IInv
  BY InitInv
<1>2. Sheltered /\ IInv /\ [Next]_vars => IInv'
  BY StepInv
<1> SUFFICES ASSUME Sheltered PROVE Spec => []IInv
  OBVIOUS
<1>3. IInv /\ [Next]_vars => IInv'
  BY <1>2
<1> QED
  BY <1>1, <1>3, PTL DEF Spec

\* run_sync never puts a file in place that has a unit nobody copied from the
\* source, however many processes contributed to the partial file.
THEOREM NoHolesHolds == Sheltered => (Spec => []NoHoles)
<1>1. IInv => NoHoles
  <2> SUFFICES ASSUME IInv, dest.there, NEW u \in DOMAIN dest.data
               PROVE  dest.data[u] # 0
    BY DEF NoHoles, Hole
  <2>1. StateTyped
    BY StateTypes DEF IInv
  <2>2. CASE pc = "stamp"
    BY <2>1, <2>2 DEF IInv
  <2>3. CASE pc # "stamp"
    BY <2>1, <2>3 DEF IInv
  <2> QED
    BY <2>2, <2>3
<1> QED
  BY <1>1, Invariance, PTL

\* A file that a run reports as skipped or transferred, of a source still at
\* the listed version, is that version.
THEOREM SyncedMeansCurrentHolds == Sheltered => (Spec => []SyncedMeansCurrent)
<1>1. IInv => SyncedMeansCurrent
  <2> SUFFICES ASSUME IInv, pc = "done", outcome \in {"skipped", "transferred"}, src = seen
               PROVE  dest.there /\ dest.data = SourceData(src)
    BY DEF SyncedMeansCurrent
  <2>1. StateTyped
    BY StateTypes DEF IInv
  <2>2. /\ dest.there /\ NoneFromTheFuture
        /\ \A u \in DOMAIN dest.data : dest.data[u] >= seen
        /\ \/ \E w \in seen .. src : dest.data = SourceData(w)
           \/ Len(dest.data) = EntrySize
    BY DEF IInv
  <2>3. CASE \E w \in seen .. src : dest.data = SourceData(w)
    BY <2>1, <2>2, <2>3
  <2>4. CASE Len(dest.data) = EntrySize
    <3>1. \A u \in 1 .. EntrySize : dest.data[u] = src
      BY <2>1, <2>2, <2>4
    <3>2. dest.data \in Seq(Unit)
      BY FileTypes DEF IInv
    <3>3. /\ SourceData(src) \in Seq(Unit) /\ Len(SourceData(src)) = EntrySize
          /\ \A u \in 1 .. EntrySize : SourceData(src)[u] = src
      BY <2>1, SourceIsFile
    <3> QED
      BY <2>2, <2>4, <3>1, <3>2, <3>3
  <2> QED
    BY <2>2, <2>3, <2>4
<1> QED
  BY <1>1, Invariance, PTL

\* Under --strict-durability what a copying route renames into place is the
\* listed version, unmixed, for any number of attempts and processes.
THEOREM StrictSingleVersionHolds == Sheltered => (Spec => []StrictSingleVersion)
<1>1. IInv => StrictSingleVersion
  BY DEF IInv
<1> QED
  BY <1>1, Invariance, PTL

-----------------------------------------------------------------------------
(* FileSync implements Mirror: the source moves with SourceChange, the       *)
(* destination is replaced by Rename and stamped by ApplyMtime, and no other *)
(* step is visible.                                                         *)

\* Only these steps are visible to who reads the two files.
LEMMA OnlyVisible ==
    ASSUME Next, ~SourceChange, ~EditDest, ~Rename, ~ApplyMtime
    PROVE  UNCHANGED <<src, dest>>
  BY DEF Next, Step, StartRun, DeltaSign, DeltaRead, DeltaScript, DeltaApply, DeltaOpen, LeaveDelta, DeltaDrop, DeltaFails, DeltaBreaks, DestGone, StartUnlisted, PruneRow, PrunePart, ForgetChunks, ForgetRow, RdmaDrop, SkipRdma, RdmaUnsupported, BeginAttempt, SizeChanged, ShortRead, ReadDone, RdmaUnavailable, RdmaCopied, Check, RunFailed, RunSucceeded, StateRemoved, Abort, StartRdma, FastCopy, SkipFastCopy, Plan, UpsertRow, ClearChunks, ClearFlags, MarkChunks, ResetChunks, ResetFlags, MarkFinished, OpenPart, RdmaOpen, RdmaPacket, DropPart, RemoveState, Rename, ApplyMtime, ReadChunk, DeltaPlanned, DeltaCheck, EditDest, Goto, ReturnError, process, disk

\* A process that looks at the destination before it replaces it has listed the
\* source already: no other step leads there.
LEMMA ListingStands ==
    ASSUME IInv, Sheltered, Next, ~SourceChange, ~StartRun
    PROVE  pc' \in Copying \cup {"forget_chunks", "forget_row", "plan"} =>
             /\ pc \in Copying \cup {"forget_chunks", "forget_row", "plan"}
             /\ seen' = seen /\ dest'.data = dest.data
<1>1. CASE EditDest
  BY <1>1 DEF Sheltered, EditDest
<1>2. CASE DeltaBreaks
  BY <1>2 DEF Sheltered, DeltaBreaks, LeaveDelta
<1>3. CASE DestGone
  BY <1>3 DEF IInv, DestGone
<1>4. CASE ~EditDest /\ ~DeltaBreaks /\ ~DestGone
  BY <1>4 DEF Next, Step, StartRun, DeltaSign, DeltaRead, DeltaScript, DeltaApply, DeltaOpen, LeaveDelta, DeltaDrop, DeltaFails, StartUnlisted, PruneRow, PrunePart, ForgetChunks, ForgetRow, RdmaDrop, SkipRdma, RdmaUnsupported, BeginAttempt, SizeChanged, ShortRead, ReadDone, RdmaUnavailable, RdmaCopied, Check, RunFailed, RunSucceeded, StateRemoved, Abort, StartRdma, FastCopy, SkipFastCopy, Plan, UpsertRow, ClearChunks, ClearFlags, MarkChunks, ResetChunks, ResetFlags, MarkFinished, OpenPart, RdmaOpen, RdmaPacket, DropPart, RemoveState, Rename, ApplyMtime, ReadChunk, DeltaPlanned, DeltaCheck, Goto, ReturnError, process, disk
<1> QED
  BY <1>1, <1>2, <1>3, <1>4

\* Before it is replaced the destination has no unit newer than the listing.
LEMMA UpToListedKeeps ==
    ASSUME IInv, UpToListed, Sheltered, [Next]_vars
    PROVE  UpToListed'
<1>a. StateTyped
  BY StateTypes DEF IInv
<1>1. CASE UNCHANGED vars
  BY <1>1 DEF vars, UpToListed
<1>2. CASE SourceChange
  BY <1>2 DEF UpToListed, SourceChange
<1>3. CASE StartRun
  BY <1>a, <1>3 DEF IInv, UpToListed, StartRun
<1>4. CASE Next /\ ~SourceChange /\ ~StartRun
  BY <1>4, ListingStands DEF UpToListed
<1> QED
  BY <1>1, <1>2, <1>3, <1>4

\* A rename replaces the destination by a file that is nowhere older.
LEMMA RenameReplaces ==
    ASSUME IInv, UpToListed, Rename
    PROVE  Promise!Replace
<1>a. StateTyped
  BY StateTypes DEF IInv
<1>1. /\ pc = "rename" /\ dest' = [there |-> TRUE, data |-> part.data, mtime |-> Now]
      /\ src' = src
  BY DEF Rename
<1>2. seen \in 1 .. src
  BY <1>a
<1>3. \A u \in DOMAIN dest.data : dest.data[u] <= seen
  BY <1>1 DEF UpToListed
<1>4. /\ \A u \in DOMAIN part.data : part.data[u] >= seen
      /\ \A u \in DOMAIN part.data : part.data[u] <= src
      /\ route = "fast" => \E w \in seen .. src : part.data = SourceData(w)
      /\ route # "fast" => Len(part.data) = SizeOf[seen]
  BY <1>1 DEF IInv
<1>5. \A u \in DOMAIN part.data : part.data[u] \in seen .. src
  BY <1>a, <1>4
<1>6. \E w \in seen .. src : Len(part.data) = SizeOf[w]
  <2>1. \A w \in seen .. src : w \in Versions
    BY <1>a, VersionAssumption
  <2>2. seen \in seen .. src
    BY <1>a
  <2> QED
    BY <1>4, <2>1, <2>2, SourceIsFile
<1> QED
  BY <1>1, <1>2, <1>3, <1>5, <1>6 DEF Promise!Replace

\* The mtime it is given is that of a version it is nowhere older than.
LEMMA MtimeStamps ==
    ASSUME IInv, ApplyMtime
    PROVE  Promise!Stamp
<1>1. /\ seen \in 1 .. src /\ dest.there /\ src' = src
      /\ \A u \in DOMAIN dest.data : dest.data[u] >= seen
      /\ dest' = [dest EXCEPT !.mtime = MtimeOf[seen]]
  BY DEF IInv, TypeOK, ApplyMtime
<1> QED
  BY <1>1 DEF Promise!Stamp

\* For every number of versions and processes, and wherever these die outside the
\* windows: the destination is only ever replaced at once, by a file read in full
\* and nowhere older, and never given a later version's mtime.
THEOREM KeepsPromiseHolds == Sheltered => (Spec => KeepsPromise)
<1>1. Init => Promise!Init
  BY DEF Init, NoDest, Promise!Init
<1>2. Init => UpToListed
  BY EmptyFile DEF Init, NoDest, UpToListed
<1>3. Sheltered /\ IInv /\ UpToListed /\ [Next]_vars => UpToListed'
  BY UpToListedKeeps
<1>4. Sheltered /\ IInv /\ UpToListed /\ [Next]_vars => [Promise!Next]_(Promise!vars)
  <2> SUFFICES ASSUME Sheltered, IInv, UpToListed, [Next]_vars
               PROVE  Promise!Next \/ UNCHANGED <<src, dest>>
    BY DEF Promise!vars
  <2>1. CASE UNCHANGED vars
    BY <2>1 DEF vars
  <2>2. CASE SourceChange
    BY <2>2 DEF SourceChange, Promise!SourceMoves, Promise!Next
  <2>3. CASE EditDest
    BY <2>3 DEF Sheltered, EditDest
  <2>4. CASE Rename
    BY <2>4, RenameReplaces DEF Promise!Next
  <2>5. CASE ApplyMtime
    BY <2>5, MtimeStamps DEF Promise!Next
  <2>6. CASE Next /\ ~SourceChange /\ ~EditDest /\ ~Rename /\ ~ApplyMtime
    BY <2>6, OnlyVisible
  <2> QED
    BY <2>1, <2>2, <2>3, <2>4, <2>5, <2>6
<1> SUFFICES ASSUME Sheltered PROVE Spec => KeepsPromise
  OBVIOUS
<1>5. IInv /\ UpToListed /\ [Next]_vars => UpToListed'
  BY <1>3
<1>6. IInv /\ UpToListed /\ [Next]_vars => [Promise!Next]_(Promise!vars)
  BY <1>4
<1>7. Spec => []IInv
  BY Invariance
<1> QED
  BY <1>1, <1>2, <1>5, <1>6, <1>7, PTL DEF Spec, KeepsPromise, Promise!Spec

-----------------------------------------------------------------------------
(* --no-resume, with no assumption on crashes and on the owner. *)

USE DEF Emptied, EmptiedDelta, NoResumeIsClean, Differing, FreshCore

\* Steps that write neither file's data nor a chunk, and those that only take
\* claims back, keep the invariant of --no-resume.
LEMMA FreshQuiet ==
    ASSUME FreshInv, TypeOK',
           \/ Abort \/ StartRun \/ StartUnlisted \/ PruneRow \/ PrunePart
           \/ ForgetChunks \/ ForgetRow
           \/ Plan \/ SkipRdma \/ RdmaUnsupported \/ StartRdma
           \/ SkipFastCopy \/ UpsertRow \/ ClearChunks \/ ClearFlags
           \/ BeginAttempt \/ SizeChanged \/ ShortRead \/ MarkChunks
           \/ RdmaUnavailable \/ Check \/ DropPart \/ ResetChunks
           \/ ResetFlags \/ ApplyMtime \/ DestGone \/ MarkFinished
           \/ RunFailed \/ RunSucceeded \/ RemoveState \/ StateRemoved
           \/ RdmaDrop \/ DeltaSign \/ DeltaRead \/ DeltaScript
           \/ DeltaPlanned \/ DeltaFails \/ DeltaBreaks
           \/ DeltaOpen \/ DeltaApply \/ DeltaDrop
    PROVE  FreshCore'
<1> USE DEF FreshInv, TypeOK, Goto, ReturnError
<1>1. CASE Abort
  BY <1>1 DEF Abort
<1>2. CASE StartRun
  BY <1>2 DEF StartRun
<1>3. CASE ForgetChunks
  BY <1>3 DEF ForgetChunks
<1>4. CASE ForgetRow
  BY <1>4 DEF ForgetRow, NoRow
<1>5. CASE Plan
  BY <1>5 DEF Plan
<1>6. CASE SkipRdma
  BY <1>6 DEF SkipRdma
<1>7. CASE RdmaUnsupported
  BY <1>7 DEF RdmaUnsupported
<1>8. CASE StartRdma
  BY <1>8 DEF StartRdma
<1>9. CASE SkipFastCopy
  BY <1>9 DEF SkipFastCopy, DeltaCandidate
<1>10. CASE UpsertRow
  BY <1>10 DEF UpsertRow
<1>11. CASE ClearChunks
  BY <1>11 DEF ClearChunks
<1>12. CASE ClearFlags
  BY <1>12 DEF ClearFlags
<1>13. CASE BeginAttempt
  BY <1>13 DEF BeginAttempt
<1>14. CASE SizeChanged
  BY <1>14 DEF SizeChanged
<1>15. CASE ShortRead
  BY <1>15 DEF ShortRead
<1>16. CASE MarkChunks
  BY <1>16 DEF MarkChunks
<1>17. CASE RdmaUnavailable
  BY <1>17 DEF RdmaUnavailable
<1>18. CASE Check
  BY <1>18 DEF Check
<1>19. CASE DropPart
  BY <1>19 DEF DropPart
<1>20. CASE ResetChunks
  BY <1>20 DEF ResetChunks
<1>21. CASE ResetFlags
  BY <1>21 DEF ResetFlags
<1>22. CASE ApplyMtime
  BY <1>22 DEF ApplyMtime
<1>23. CASE DestGone
  <2>1. CASE route = "delta"
    BY <1>23, <2>1 DEF DestGone, LeaveDelta
  <2>2. CASE route # "delta"
    BY <1>23, <2>2 DEF DestGone
  <2> QED
    BY <2>1, <2>2
<1>24. CASE MarkFinished
  BY <1>24 DEF MarkFinished
<1>25. CASE RunFailed
  BY <1>25 DEF RunFailed
<1>26. CASE RunSucceeded
  BY <1>26 DEF RunSucceeded
<1>27. CASE RemoveState
  BY <1>27 DEF RemoveState, NoRow
<1>28. CASE StateRemoved
  BY <1>28 DEF StateRemoved
<1>29. CASE RdmaDrop
  BY <1>29 DEF RdmaDrop
<1>30. CASE DeltaSign
  BY <1>30 DEF DeltaSign
<1>31. CASE DeltaPlanned
  BY <1>31 DEF DeltaPlanned
<1>40. CASE DeltaRead
  BY <1>40 DEF DeltaRead
<1>41. CASE DeltaScript
  BY <1>41 DEF DeltaScript
<1>32. CASE DeltaFails
  BY <1>32 DEF DeltaFails, LeaveDelta
<1>33. CASE DeltaBreaks
  <2>1. UNCHANGED <<part, dest, row, seen, opt>>
    BY <1>33 DEF DeltaBreaks, LeaveDelta
  <2>2. /\ route = "delta"
        /\ pc \in {"delta_apply", "delta_check", "rename", "stamp", "finish"}
    BY <1>33 DEF DeltaBreaks
  <2>3. \/ pc' = "attempt" /\ route' = "full"
        \/ pc' = "idle" /\ route' = route
    BY <1>33 DEF DeltaBreaks, LeaveDelta
  <2> QED
    BY <2>1, <2>2, <2>3
<1>34. CASE DeltaOpen
  BY <1>34 DEF DeltaOpen
<1>35. CASE DeltaApply
  BY <1>35 DEF DeltaApply
<1>36. CASE DeltaDrop
  BY <1>36 DEF DeltaDrop, LeaveDelta
<1>37. CASE StartUnlisted
  BY <1>37 DEF StartUnlisted
<1>38. CASE PruneRow
  BY <1>38 DEF PruneRow, NoRow
<1>39. CASE PrunePart
  BY <1>39 DEF PrunePart
<1> QED
  BY <1>37, <1>38, <1>39, <1>40, <1>41, <1>30, <1>31, <1>32, <1>33, <1>34, <1>35, <1>36, <1>1, <1>2, <1>3, <1>4, <1>5, <1>6, <1>7, <1>8, <1>9, <1>10, <1>11, <1>12, <1>13, <1>14, <1>15, <1>16, <1>17, <1>18, <1>19, <1>20, <1>21, <1>22, <1>23, <1>24, <1>25, <1>26, <1>27, <1>28, <1>29

\* The steps that write data keep it too.
LEMMA FreshWrite ==
    ASSUME FreshInv, TypeOK',
           \/ SourceChange \/ EditDest \/ FastCopy \/ OpenPart
           \/ \E c \in todo : ReadChunk(c)
           \/ ReadDone \/ RdmaOpen \/ RdmaPacket \/ RdmaCopied \/ Rename
           \/ DeltaCheck
    PROVE  FreshCore'
<1>a. StateTyped
  BY StateTypes DEF FreshInv
<1>1. CASE SourceChange
  BY <1>1, <1>a, SMTT(30) DEF FreshInv, TypeOK, SourceChange
<1>2. CASE EditDest
  <2>1. \A u \in DOMAIN dest'.data : dest'.data[u] = Edited
    BY <1>2, EmptyFile DEF EditDest, NoDest
  <2>2. Edited >= seen
    BY <1>a, VersionAssumption DEF Edited
  <2>3. /\ UNCHANGED <<row, part, pc, opt, seen, route, todo, src>>
        /\ RouteFits /\ (~opt.resume => Emptied /\ PartGrows)
    BY <1>2 DEF EditDest, FreshInv
  <2>4. NoResumeIsClean'
    BY <2>1, <2>2, <2>3
  <2> QED
    BY <2>3, <2>4 DEF FreshInv
<1>3. CASE FastCopy
  <2>1. /\ part'.there
        /\ part'.data = SourceData(src)
        /\ DOMAIN part'.data = 1 .. SizeOf[src]
        /\ \A u \in DOMAIN part'.data : part'.data[u] = src
    BY <1>3, <1>a, SourceIsFile DEF FastCopy, SourceData
  <2>2. /\ src' = src /\ seen' = seen /\ route' = "fast" /\ pc' = "rename"
        /\ pc = "fast" /\ row' = row /\ opt' = opt
    BY <1>3 DEF FastCopy
  <2>3. PartGrows'
    BY <1>a, <2>1, <2>2
  <2> QED
    BY <2>2, <2>3 DEF FreshInv
<1>4. CASE OpenPart
  <2>1. /\ part'.there /\ Len(part'.data) = EntrySize
        /\ todo' = 0 .. ChunkCount(EntrySize, ChunkSize) - 1 \/ opt.resume
    BY <1>4, OpenedPart DEF FreshInv, OpenPart
  <2>2. \A u \in 1 .. EntrySize :
           ChunkOf(u, ChunkSize) \in 0 .. ChunkCount(EntrySize, ChunkSize) - 1
    BY UnitInCountedChunk, EntryTypes DEF FreshInv
  <2>3. UNCHANGED <<row, opt, seen, route, src>> /\ pc = "open" /\ pc' = "read"
    BY <1>4 DEF OpenPart
  <2> QED
    BY <2>1, <2>2, <2>3 DEF FreshInv
<1>5. CASE \E c \in todo : ReadChunk(c)
  <2> PICK c \in todo : ReadChunk(c)
    BY <1>5
  <2>1. PICK v \in seen .. src :
          /\ part'.there = part.there
          /\ Len(part'.data) = Len(part.data)
          /\ \A u \in 1 .. Len(part.data) :
               part'.data[u] = IF u \in UnitsOf(c) THEN v ELSE part.data[u]
    BY WrittenPart DEF FreshInv
  <2>2. /\ pc = "read" /\ pc' = "read" /\ todo' = todo \ {c}
        /\ UNCHANGED <<row, opt, seen, route, src>>
    BY DEF ReadChunk
  <2>3. PartGrows => PartGrows'
    BY <1>a, <2>1, <2>2 DEF UnitsOf
  <2> QED
    BY <2>2, <2>3 DEF FreshInv
<1>6. CASE ReadDone
  BY <1>6, <1>a DEF FreshInv, TypeOK, ReadDone, Goto
<1>7. CASE RdmaOpen
  <2>1. part'.there /\ Len(part'.data) = EntrySize
    BY <1>7, PreallocatedPart DEF FreshInv
  <2>2. /\ UNCHANGED <<row, opt, seen, route, src>>
        /\ pc = "rdma_open" /\ pc' = "rdma_copy" /\ todo' = 1 .. EntrySize
    BY <1>7 DEF RdmaOpen
  <2> QED
    BY <2>1, <2>2 DEF FreshInv
<1>8. CASE RdmaPacket
  <2>1. PICK w \in todo, v \in seen .. src :
          /\ part'.there = part.there
          /\ Len(part'.data) = Len(part.data)
          /\ todo' = todo \ {w}
          /\ \A u \in 1 .. Len(part.data) :
               part'.data[u] = IF u = w THEN v ELSE part.data[u]
    BY <1>8, ReceivedPart DEF FreshInv
  <2>2. /\ pc = "rdma_copy" /\ pc' = "rdma_copy"
        /\ UNCHANGED <<row, opt, seen, route, src>>
    BY <1>8 DEF RdmaPacket
  <2>3. PartGrows => PartGrows'
    BY <1>a, <2>1, <2>2
  <2> QED
    BY <2>2, <2>3 DEF FreshInv
<1>9. CASE RdmaCopied
  BY <1>9, <1>a DEF FreshInv, TypeOK, RdmaCopied, Goto
<1>10. CASE Rename
  <2>1. dest'.data = part.data /\ pc' = "stamp" /\ pc = "rename"
    BY <1>10 DEF Rename
  <2>2. UNCHANGED <<opt, seen, route>>
    BY <1>10 DEF Rename
  <2>3. /\ row' = row
        /\ \/ part.there /\ Whole(part.data)
           \/ opt.resume
    BY <1>10 DEF Rename, FreshInv
  <2>4. NoResumeIsClean'
    BY <2>1, <2>2, <2>3
  <2>5. RouteFits' /\ (~opt'.resume => Emptied' /\ EmptiedDelta')
    BY <2>1, <2>2, <2>3 DEF FreshInv
  <2> QED
    BY <2>1, <2>2, <2>4, <2>5
<1>11. CASE DeltaCheck
  <2>1. /\ \A u \in DOMAIN delta.read : delta.read[u] \in seen .. src
        /\ Len(delta.read) = EntrySize
        /\ part.there /\ pc = "delta_check" /\ route = "delta"
        /\ pc' = "rename" => part.data = delta.read
        /\ pc' \in {"rename", "delta_drop"}
    BY <1>11 DEF FreshInv, DeltaPlan, DeltaCheck, Goto
  <2>3. CASE pc' = "rename"
    <3>1. /\ Len(part.data) = EntrySize /\ DOMAIN part.data = 1 .. EntrySize
          /\ \A u \in 1 .. EntrySize : part.data[u] \in seen .. src
      BY <1>a, <2>1, <2>3
    <3>2. PartGrows'
      BY <1>11, <1>a, <2>1, <2>3, <3>1 DEF DeltaCheck, Goto
    <3> QED
      BY <1>11, <2>1, <2>3, <3>2 DEF FreshInv, DeltaCheck, Goto
  <2>4. CASE pc' = "delta_drop"
    BY <1>11, <2>1, <2>4 DEF FreshInv, DeltaCheck, Goto
  <2> QED
    BY <2>1, <2>3, <2>4
<1> QED
  BY <1>1, <1>2, <1>3, <1>4, <1>5, <1>6, <1>7, <1>8, <1>9, <1>10, <1>11

\* A --no-resume run renames into place only units it read itself.  Nothing is
\* assumed of the points where processes stop nor of the destination's owner.
THEOREM NoResumeIsCleanHolds == Spec => []NoResumeIsClean
<1>1. Init => FreshInv
  <2> SUFFICES ASSUME Init PROVE FreshInv
    OBVIOUS
  <2>1. TypeOK /\ pc = "idle"
    BY InitTyped DEF Init
  <2> QED
    BY <2>1 DEF FreshInv, DeltaPlan, DeltaFromSource, Differing, EmptiedDelta
<1>2. FreshInv /\ [Next]_vars => FreshInv'
  <2> SUFFICES ASSUME FreshInv, [Next]_vars PROVE FreshInv'
    OBVIOUS
  <2>1. TypeOK'
    BY StepTyped DEF FreshInv
  <2>4. DeltaPlan' /\ DeltaFromSource'
    BY <2>1, DeltaPlanKeeps DEF FreshInv
  <2>2. CASE UNCHANGED vars
    <3>1. UNCHANGED <<src, dest, part, row, pc, opt, seen, route, todo>>
      BY <2>2 DEF vars
    <3>2. RouteFits' /\ Emptied' = Emptied /\ EmptiedDelta' = EmptiedDelta
      BY <3>1 DEF FreshInv
    <3>3. PartGrows' = PartGrows /\ NoResumeIsClean' = NoResumeIsClean
      BY <3>1
    <3> QED
      BY <2>1, <2>4, <3>1, <3>2, <3>3 DEF FreshInv
  <2>3. CASE Next
    <3> HIDE DEF FreshCore
    <3> SUFFICES FreshCore'
      BY <2>1, <2>4 DEF FreshInv
    <3>1. CASE SourceChange \/ EditDest
      BY <2>1, <3>1, FreshWrite
    <3>2. CASE Abort \/ DeltaBreaks \/ StartRun \/ StartUnlisted
      BY <2>1, <3>2, FreshQuiet
    <3>3. CASE Step
      BY <2>1, <3>3, FreshQuiet, FreshWrite DEF Step
    <3> QED
      BY <2>3, <3>1, <3>2, <3>3 DEF Next
  <2> QED
    BY <2>1, <2>2, <2>3, <2>4 DEF FreshInv
<1>3. FreshInv => NoResumeIsClean
  BY DEF FreshInv
<1> QED
  BY <1>1, <1>2, <1>3, PTL DEF Spec

\* What the delta route is about to put in place has the listed size and is the
\* source's, unit by unit, whatever anyone did to the basis while the plan was
\* made and applied, and wherever earlier processes stopped; planned by a helper,
\* it is the listed version if mtimes tell versions apart.
THEOREM DeltaFromSourceHolds == Spec => []DeltaFromSource
<1> DEFINE Inv == TypeOK /\ RouteFits /\ DeltaPlan /\ DeltaFromSource
<1>1. Init => Inv
  BY InitTyped DEF Init, DeltaPlan, DeltaFromSource
<1>2. Inv /\ [Next]_vars => Inv'
  <2> SUFFICES ASSUME Inv, [Next]_vars PROVE Inv'
    OBVIOUS
  <2>1. TypeOK'
    BY StepTyped
  <2>2. RouteFits'
    BY RouteKeeps
  <2> QED
    BY <2>1, <2>2, DeltaPlanKeeps
<1>3. Inv => DeltaFromSource
  OBVIOUS
<1> QED
  BY <1>1, <1>2, <1>3, PTL DEF Spec

=============================================================================
