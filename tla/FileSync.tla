------------------------------ MODULE FileSync ------------------------------
(***************************************************************************)
(* The life of ONE regular file under parsync: the planner's decision      *)
(* (should_transfer), the transfer (transfer_one with its RDMA, fast-copy  *)
(* and chunked routes), and what survives a process: the destination file, *)
(* the partial file in .parsync/partials and the file's row in             *)
(* .parsync/state.db.  Every SQL statement is a transaction of its own, so *)
(* each is an action of its own: a process can die between any two.        *)
(*                                                                         *)
(* Data.  A file is a sequence of units, a unit the smallest range the     *)
(* source is read by; the value of a unit is the source version it was     *)
(* read from, Hole for bytes set_len allocated and nobody wrote, Edited    *)
(* for what the owner of the destination wrote.  A digest is the content.  *)
(***************************************************************************)
EXTENDS Integers, Sequences, FiniteSets

CONSTANTS
    LastVersion,  \* the source goes through versions 1 .. LastVersion
    SizeOf,       \* size, in units, of each source version
    MtimeOf,      \* modification time, in whole seconds, of each version
    Now,          \* the local clock, later than every source mtime
    Options,      \* the option records a run may be started with
    AbortPoints,  \* program points at which a process may stop short
    MaxAborts,    \* how many processes may stop short
    Edits,        \* what the owner may do to the destination, at any time
    MaxEdits,     \* how many times
    MayBeUnlisted \* whether a run may find the source without the file

Versions == 1 .. LastVersion
Hole     == 0
Edited   == LastVersion + 1
Unit     == 0 .. LastVersion + 1

Points ==
    {"idle", "prune_row", "prune_part", "forget_chunks", "forget_row", "plan", "route", "fast", "attempt", "upsert", "clear_chunks",
     "clear_flags", "open", "read", "mark", "rdma_drop", "rdma_open",
     "rdma_copy", "delta_sign", "delta_plan", "delta_open", "delta_apply",
     "delta_check", "delta_drop", "check", "drop_part", "reset_chunks", "reset_flags", "rename", "stamp", "finish",
     "done", "cleanup"}

OptionRecord ==
    [resume : BOOLEAN, dry : BOOLEAN, strict : BOOLEAN, verify : BOOLEAN, update : BOOLEAN,
     ssh : BOOLEAN, rdma : {"off", "auto", "require"}, rdmaMin : Nat,
     threshold : Nat, chunk : Nat \ {0},
     delta : BOOLEAN, deltaMin : Nat, fallback : BOOLEAN]

ASSUME VersionAssumption ==
    /\ LastVersion \in Nat \ {0}
    /\ SizeOf \in [Versions -> Nat]
    /\ Now \in Nat
    /\ MtimeOf \in [Versions -> 0 .. Now - 1]
ASSUME OptionAssumption == Options \subseteq OptionRecord
ASSUME FaultAssumption ==
    /\ AbortPoints \subseteq Points \ {"idle"}
    /\ Edits \subseteq {"modify", "delete"}
    /\ MaxAborts \in Nat
    /\ MaxEdits \in Nat
    /\ MayBeUnlisted \in BOOLEAN

VARIABLES
    src,      \* the version the source file has now
    dest,     \* the destination file
    part,     \* the partial file
    row,      \* the row of the tables files and file_chunks
    pc,       \* where the process that works on the file is
    opt,      \* its options
    delta,    \* the delta plan: who makes it, what it has read of the source,
              \* for which basis
    seen,     \* the version whose size and mtime its listing recorded
    route,    \* the way it is copying the file
    attempt,  \* change_retry of transfer_one
    todo,     \* chunks (RDMA: units) it has still to copy
    outcome,  \* how the last run ended for this file
    aborts,   \* processes stopped short so far
    edits     \* changes of the destination by its owner so far

disk    == <<dest, part, row>>
process == <<pc, opt, delta, seen, route, attempt, todo, outcome>>
vars    == <<src, dest, part, row, pc, opt, delta, seen, route, attempt, todo,
             outcome, aborts, edits>>

-----------------------------------------------------------------------------
(* Files, rows and chunks.                                                 *)

NoPart == [there |-> FALSE, data |-> <<>>]
NoDest == [there |-> FALSE, data |-> <<>>, mtime |-> 0]
NoPlan == [planner |-> "none", read |-> <<>>, basis |-> <<>>]
NoRow  == [there |-> FALSE, size |-> 0, mtime |-> 0, chunk |-> 1,
           chunks |-> {}, digest |-> {}, finished |-> FALSE]

SourceData(v) == [u \in 1 .. SizeOf[v] |-> v]

\* File::set_len: cut the file or extend it with zero bytes.
SetLen(d, n) == [u \in 1 .. n |-> IF u <= Len(d) THEN d[u] ELSE Hole]

\* The listed entry of the file.
EntrySize  == SizeOf[seen]
EntryMtime == MtimeOf[seen]

AtLeastOne(n) == IF n = 0 THEN 1 ELSE n

ChunkSize ==
    IF route # "rdma" /\ EntrySize >= opt.threshold
    THEN opt.chunk
    ELSE AtLeastOne(EntrySize)

\* Chunk idx holds the units at offset idx * size up to the next chunk's.
ChunkOf(u, size) == (u - 1) \div size
ChunkCount(size, chunk) == IF size = 0 THEN 1 ELSE ((size - 1) \div chunk) + 1

\* Mutant: only the size tells whether a row is the listed version's.
RowMatchesBySize == row.size = EntrySize

RowMatches == row.size = EntrySize /\ row.mtime = EntryMtime

-----------------------------------------------------------------------------
(* The environment: the source changes, the owner touches the destination. *)

SourceChange ==
    /\ src < LastVersion
    /\ src' = src + 1
    /\ UNCHANGED <<disk, process, aborts, edits>>

EditDest ==
    /\ edits < MaxEdits
    /\ dest.there
    /\ \/ /\ "modify" \in Edits
          /\ dest' = [there |-> TRUE, mtime |-> Now,
                      data |-> [u \in DOMAIN dest.data |-> Edited]]
       \/ /\ "delete" \in Edits
          /\ dest' = NoDest
    /\ edits' = edits + 1
    /\ UNCHANGED <<src, part, row, process, aborts>>

\* The process is killed, crashes, is interrupted, or an operation it has no
\* answer to fails and transfer_one returns the error: nothing more happens
\* to the file in this run, and what is on disk stays.
Abort ==
    /\ pc \in AbortPoints
    /\ aborts < MaxAborts
    /\ aborts' = aborts + 1
    /\ pc' = "idle"
    /\ outcome' = "failed"
    /\ UNCHANGED <<src, disk, opt, delta, seen, route, attempt, todo, edits>>

\* An error return that does not wait for a fault of the environment.
ReturnError ==
    /\ pc' = "idle"
    /\ outcome' = "failed"
    /\ UNCHANGED <<src, disk, opt, delta, seen, route, attempt, todo, aborts, edits>>

\* The process goes on to program point p with nothing else changed.
Goto(p) ==
    /\ pc' = p
    /\ UNCHANGED <<src, disk, opt, delta, seen, route, attempt, todo, outcome,
                   aborts, edits>>

-----------------------------------------------------------------------------
(* Planning.                                                               *)

\* Mutant: --no-resume does not clear the state.
StartRunWithoutClearAll ==
    /\ pc = "idle"
    /\ opt' \in Options
    /\ pc' = "plan"
    /\ seen' = src
    /\ delta' = NoPlan
    /\ route' = "none"
    /\ attempt' = 0
    /\ todo' = {}
    /\ outcome' = "none"
    /\ UNCHANGED <<src, disk, aborts, edits>>

\* run_sync_with_client up to the listing.
StartRun ==
    /\ pc = "idle"
    /\ \E o \in Options :
         /\ opt' = o
         /\ pc' = IF o.resume THEN "plan" ELSE "forget_chunks"
    /\ seen' = src
    /\ delta' = NoPlan
    /\ route' = "none"
    /\ attempt' = 0
    /\ todo' = {}
    /\ outcome' = "none"
    /\ UNCHANGED <<src, disk, aborts, edits>>

\* A run of the same destination that does not find the file in its listing: the
\* source is without it for a while, or another part of it is named.
StartUnlisted ==
    /\ MayBeUnlisted
    /\ pc = "idle"
    /\ opt' \in Options
    /\ pc' = "prune_row"
    /\ delta' = NoPlan
    /\ route' = "none"
    /\ attempt' = 0
    /\ todo' = {}
    /\ outcome' = "none"
    /\ UNCHANGED <<src, disk, seen, aborts, edits>>

\* Mutant: the row of a file that is not listed stays.
PruneNoRow ==
    /\ pc = "prune_row"
    /\ pc' = "prune_part"
    /\ UNCHANGED <<src, disk, opt, delta, seen, route, attempt, todo, outcome,
                   aborts, edits>>

\* prune_to_keys deletes the row, and with it, by the foreign key, its chunks; ...
PruneRow ==
    /\ pc = "prune_row"
    /\ row' = NoRow
    /\ pc' = "prune_part"
    /\ UNCHANGED <<src, dest, part, opt, delta, seen, route, attempt, todo, outcome,
                   aborts, edits>>

\* ... then the partial file, if it can.  The destination stays.
PrunePart ==
    /\ pc = "prune_part"
    /\ part' \in {part, NoPart}
    /\ pc' = "done"
    /\ outcome' = "unlisted"
    /\ UNCHANGED <<src, dest, row, opt, delta, seen, route, attempt, todo, aborts, edits>>

\* clear_all for --no-resume, a DELETE per table, leaves the partial file.
ForgetChunks ==
    /\ pc = "forget_chunks"
    /\ row' = [row EXCEPT !.chunks = {}]
    /\ pc' = "forget_row"
    /\ UNCHANGED <<src, dest, part, opt, delta, seen, route, attempt, todo, outcome,
                   aborts, edits>>

ForgetRow ==
    /\ pc = "forget_row"
    /\ row' = NoRow
    /\ pc' = "plan"
    /\ UNCHANGED <<src, dest, part, opt, delta, seen, route, attempt, todo, outcome,
                   aborts, edits>>

SameSizeAndMtime == Len(dest.data) = EntrySize /\ dest.mtime = EntryMtime

\* Mutant: a finished row is believed whatever version it describes.
FinishedEver == opt.resume /\ row.there /\ row.finished

FinishedEarlier ==
    /\ opt.resume
    /\ row.there
    /\ RowMatches
    /\ row.finished
    /\ opt.verify => row.digest = {dest.data}

ShouldTransfer ==
    \/ ~dest.there
    \/ /\ ~(opt.update /\ dest.mtime > EntryMtime)
       /\ ~SameSizeAndMtime
       /\ ~FinishedEarlier

Plan ==
    /\ pc = "plan"
    /\ \/ /\ ShouldTransfer /\ ~opt.dry
          /\ pc' = "route"
          /\ UNCHANGED outcome
       \/ /\ ShouldTransfer => opt.dry
          /\ pc' = "done"
          /\ outcome' = IF ShouldTransfer THEN "planned" ELSE "skipped"
    /\ UNCHANGED <<src, disk, opt, delta, seen, route, attempt, todo, aborts, edits>>

-----------------------------------------------------------------------------
(* Choosing a route.                                                       *)

RdmaWanted == opt.rdma # "off" /\ EntrySize >= opt.rdmaMin

\* There is a destination to compute the difference from.
DeltaCandidate == opt.delta /\ EntrySize >= opt.deltaMin /\ dest.there

\* try_rdma_transfer is skipped when it is not wanted, when the source cannot
\* do it, and, in auto mode, when a delta will do or another file of the run
\* found it unavailable (rdma_disabled).
SkipRdma ==
    /\ pc = "route"
    /\ RdmaWanted => opt.rdma = "auto"
    /\ Goto("fast")

RdmaUnsupported ==
    /\ pc = "route"
    /\ RdmaWanted
    /\ opt.rdma = "require"
    /\ ~opt.ssh
    /\ ReturnError

StartRdma ==
    /\ pc = "route"
    /\ RdmaWanted
    /\ DeltaCandidate => opt.rdma = "require"
    /\ opt.ssh
    /\ route' = "rdma"
    /\ pc' = "upsert"
    /\ UNCHANGED <<src, disk, opt, delta, seen, attempt, todo, outcome, aborts, edits>>

\* try_fast_copy_transfer on a file system that can clone the source file.
FastCopy ==
    /\ pc = "fast"
    /\ ~opt.resume
    /\ ~opt.delta
    /\ ~opt.ssh
    /\ ~part.there
    /\ ~row.there
    /\ part' = [there |-> TRUE, data |-> SourceData(src)]
    /\ route' = "fast"
    /\ pc' = "rename"
    /\ UNCHANGED <<src, dest, row, opt, delta, seen, attempt, todo, outcome,
                   aborts, edits>>

SkipFastCopy ==
    /\ pc = "fast"
    /\ \/ DeltaCandidate /\ route' = "delta" /\ pc' = "delta_sign"
       \/ ~DeltaCandidate /\ route' = "full" /\ pc' = "attempt"
    /\ UNCHANGED <<src, disk, opt, delta, seen, attempt, todo, outcome, aborts, edits>>

-----------------------------------------------------------------------------
(* upsert_file: one INSERT .. ON CONFLICT UPDATE, then, when the row was   *)
(* missing or described another version or chunk size, a DELETE of its     *)
(* chunks and an UPDATE of its flags.                                      *)

Changed == ~row.there \/ ~RowMatches \/ row.chunk # ChunkSize

\* Mutant: the row's chunks and flags survive a change of version.
UpsertRowKeepingProgress ==
    /\ pc = "upsert"
    /\ row' = [row EXCEPT !.there = TRUE, !.size = EntrySize,
                          !.mtime = EntryMtime, !.chunk = ChunkSize]
    /\ pc' = IF route = "rdma" THEN "rdma_drop" ELSE "open"
    /\ UNCHANGED <<src, dest, part, opt, delta, seen, route, attempt, todo, outcome,
                   aborts, edits>>

UpsertRow ==
    /\ pc = "upsert"
    /\ row' = [row EXCEPT !.there = TRUE, !.size = EntrySize,
                          !.mtime = EntryMtime, !.chunk = ChunkSize]
    /\ pc' = CASE Changed -> "clear_chunks"
               [] ~Changed /\ route = "rdma" -> "rdma_drop"
               [] OTHER -> "open"
    /\ UNCHANGED <<src, dest, part, opt, delta, seen, route, attempt, todo, outcome,
                   aborts, edits>>

ClearChunks ==
    /\ pc = "clear_chunks"
    /\ row' = [row EXCEPT !.chunks = {}]
    /\ pc' = "clear_flags"
    /\ UNCHANGED <<src, dest, part, opt, delta, seen, route, attempt, todo, outcome,
                   aborts, edits>>

ClearFlags ==
    /\ pc = "clear_flags"
    /\ row' = [row EXCEPT !.finished = FALSE, !.digest = {}]
    /\ pc' = IF route = "rdma" THEN "rdma_drop" ELSE "open"
    /\ UNCHANGED <<src, dest, part, opt, delta, seen, route, attempt, todo, outcome,
                   aborts, edits>>

-----------------------------------------------------------------------------
(* The chunked route.                                                      *)

BeginAttempt ==
    /\ pc = "attempt"
    /\ SizeOf[src] = EntrySize
    /\ Goto("upsert")

SizeChanged ==
    /\ pc = "attempt"
    /\ SizeOf[src] # EntrySize
    /\ ReturnError

\* Open without truncation, set_len, and plan the chunks the row lacks.
OpenPart ==
    /\ pc = "open"
    /\ part' = [there |-> TRUE, data |-> SetLen(part.data, EntrySize)]
    /\ todo' = (0 .. ChunkCount(EntrySize, ChunkSize) - 1) \ row.chunks
    /\ pc' = "read"
    /\ UNCHANGED <<src, dest, row, opt, delta, seen, route, attempt, outcome,
                   aborts, edits>>

UnitsOf(c) == {u \in 1 .. EntrySize : ChunkOf(u, ChunkSize) = c}

\* What a read may return: the version of now, or an older one through a
\* handle opened before the source file was replaced.
Readable == seen .. src

\* read_range and write_all_at of one chunk.  Chunks are read concurrently.
ReadChunk(c) ==
    /\ pc = "read"
    /\ c \in todo
    /\ \E v \in Readable :
         /\ \A u \in UnitsOf(c) : u <= SizeOf[v]
         /\ part' = [part EXCEPT !.data =
              [u \in 1 .. Len(@) |-> IF u \in UnitsOf(c) THEN v ELSE @[u]]]
    /\ todo' = todo \ {c}
    /\ UNCHANGED <<src, dest, row, pc, opt, delta, seen, route, attempt, outcome,
                   aborts, edits>>

\* The source shrank: every retry of the chunk, with the same handle or
\* another one, is a short read.
ShortRead ==
    /\ pc = "read"
    /\ \E v \in Readable, c \in todo : \E u \in UnitsOf(c) : u > SizeOf[v]
    /\ ReturnError

ReadDone ==
    /\ pc = "read"
    /\ todo = {}
    /\ Goto("mark")

\* mark_chunks_completed_batch, once, after the last group of chunks.
MarkChunks ==
    /\ pc = "mark"
    /\ row' = [row EXCEPT !.chunks =
                 @ \cup (0 .. ChunkCount(EntrySize, ChunkSize) - 1)]
    /\ pc' = "check"
    /\ UNCHANGED <<src, dest, part, opt, delta, seen, route, attempt, todo, outcome,
                   aborts, edits>>

-----------------------------------------------------------------------------
(* The RDMA route.                                                         *)

\* try_rdma_transfer removes the partial file ...
RdmaDrop ==
    /\ pc = "rdma_drop"
    /\ part' = NoPart
    /\ pc' = "rdma_open"
    /\ UNCHANGED <<src, dest, row, opt, delta, seen, route, attempt, todo, outcome,
                   aborts, edits>>

\* ... and the receiver, when it has a socket to listen on, makes it anew.
RdmaOpen ==
    /\ pc = "rdma_open"
    /\ part' = [there |-> TRUE, data |-> SetLen(<<>>, EntrySize)]
    /\ todo' = 1 .. EntrySize
    /\ pc' = "rdma_copy"
    /\ UNCHANGED <<src, dest, row, opt, delta, seen, route, attempt, outcome,
                   aborts, edits>>

\* Packets arrive in offset order.
RdmaPacket ==
    /\ pc = "rdma_copy"
    /\ \E u \in todo, v \in Readable :
         /\ \A w \in todo : u <= w
         /\ u <= SizeOf[v]
         /\ part' = [part EXCEPT !.data[u] = v]
         /\ todo' = todo \ {u}
    /\ UNCHANGED <<src, dest, row, pc, opt, delta, seen, route, attempt, outcome,
                   aborts, edits>>

RdmaCopied ==
    /\ pc = "rdma_copy"
    /\ todo = {}
    /\ Goto("check")

RdmaUnavailable ==
    /\ pc \in {"rdma_open", "rdma_copy"}
    /\ Goto("drop_part")

-----------------------------------------------------------------------------
(* The delta route: the partial file is rebuilt from blocks of the present  *)
(* destination, the basis, and literals from the source.  The session row   *)
(* of delta_sessions is left out: it is written anew each time, so that     *)
(* apply_delta_ops always starts at operation 0.                            *)

\* build_signature of the basis, which must not be empty.
DeltaSign ==
    /\ pc = "delta_sign"
    /\ dest.there
    /\ dest.data # <<>>
    /\ delta' = [planner |-> "helper", read |-> <<>>, basis |-> dest.data]
    /\ pc' = "delta_plan"
    /\ UNCHANGED <<src, disk, opt, seen, route, attempt, todo, outcome,
                   aborts, edits>>

\* generate_delta_plan.  The planner, whichever it is, reads the source from its
\* first unit to its end while the source may change: fs::read, read_bytes.
DeltaRead ==
    /\ pc = "delta_plan"
    /\ \E v \in Readable :
         /\ Len(delta.read) < SizeOf[v]
         /\ delta' = [delta EXCEPT !.read = Append(@, v)]
    /\ UNCHANGED <<src, disk, pc, opt, seen, route, attempt, todo, outcome,
                   aborts, edits>>

\* Over ssh, when the helper's channel fails, a Python script begins again.
DeltaScript ==
    /\ pc = "delta_plan"
    /\ opt.ssh
    /\ delta.planner = "helper"
    /\ delta' = [delta EXCEPT !.planner = "script", !.read = <<>>]
    /\ UNCHANGED <<src, disk, pc, opt, seen, route, attempt, todo, outcome,
                   aborts, edits>>

\* Mutant: the plan's mtime is not compared with the listed one.
DeltaPlannedBySize ==
    /\ pc = "delta_plan"
    /\ \E v \in Readable : Len(delta.read) >= SizeOf[v]
    /\ Len(delta.read) = EntrySize
    /\ Goto("delta_open")

\* The end of the source: the plan carries the size of what was read and an
\* mtime.  The helper (a local source too) takes it by a stat after the read;
\* the script repeats the one it was asked for.  Only a plan of the listed size
\* and mtime is followed.
DeltaPlanned ==
    /\ pc = "delta_plan"
    /\ \E v \in Readable : Len(delta.read) >= SizeOf[v]
    /\ Len(delta.read) = EntrySize
    /\ delta.planner = "helper" => MtimeOf[src] = EntryMtime
    /\ Goto("delta_open")

\* apply_delta_ops opens the basis, then creates or truncates the partial file,
\* whatever the row says of its chunks ...
DeltaOpen ==
    /\ pc = "delta_open"
    /\ dest.there
    /\ part' = [there |-> TRUE, data |-> <<>>]
    /\ pc' = "delta_apply"
    /\ UNCHANGED <<src, dest, row, opt, delta, seen, route, attempt, todo,
                   outcome, aborts, edits>>

\* What the operations give: literals are what was read, blocks are copied from
\* the basis as it is now.
Patched ==
    IF dest.data = delta.basis
    THEN {delta.read}
    ELSE {d \in [DOMAIN delta.read -> Unit] :
            \A u \in DOMAIN d : d[u] \in {delta.read[u], Edited}}

\* ... and writes the output.
DeltaApply ==
    /\ pc = "delta_apply"
    /\ \E d \in Patched : part' = [there |-> TRUE, data |-> d]
    /\ pc' = "delta_check"
    /\ UNCHANGED <<src, dest, row, opt, delta, seen, route, attempt, todo,
                   outcome, aborts, edits>>

\* Mutant: the digest of the output is not compared with the plan's.
DeltaUnchecked ==
    /\ pc = "delta_check"
    /\ Goto("rename")

\* The digest of the output against the digest of what the planner read.
DeltaCheck ==
    /\ pc = "delta_check"
    /\ Goto(IF part.data = delta.read THEN "rename" ELSE "delta_drop")

\* transfer_one after an error of the delta route: the chunked route, unless
\* --no-delta-fallback.  The row and its chunks stay as they were.
LeaveDelta ==
    /\ IF opt.fallback
       THEN pc' = "attempt" /\ route' = "full" /\ UNCHANGED outcome
       ELSE pc' = "idle" /\ outcome' = "failed" /\ UNCHANGED route
    /\ UNCHANGED <<src, dest, row, opt, delta, seen, attempt, todo, edits>>

DeltaDrop ==
    /\ pc = "delta_drop"
    /\ part' = NoPart
    /\ LeaveDelta
    /\ UNCHANGED aborts

\* The basis is empty or gone, there is no helper or it takes too long, the
\* source is another one now, or there are too many literals.
DeltaFails ==
    /\ pc \in {"delta_sign", "delta_plan", "delta_open"}
    /\ LeaveDelta
    /\ UNCHANGED <<part, aborts>>

\* An operation fails once the partial file has been truncated: up to the
\* rename, or after it (everything after it counts as one point).
DeltaBreaks ==
    /\ route = "delta"
    /\ \/ pc \in {"delta_apply", "delta_check", "rename", "stamp"} \cap AbortPoints
       \/ pc = "finish" /\ "stamp" \in AbortPoints
    /\ aborts < MaxAborts
    /\ aborts' = aborts + 1
    /\ LeaveDelta
    /\ UNCHANGED part

-----------------------------------------------------------------------------
(* The change check of --strict-durability, and starting over.             *)

\* Mutant: the change check looks at the size only.
SourceOfListedSize == SizeOf[src] = EntrySize

SourceAsListed == SizeOf[src] = EntrySize /\ MtimeOf[src] = EntryMtime

Check ==
    /\ pc = "check"
    /\ Goto(IF opt.strict /\ ~SourceAsListed THEN "drop_part" ELSE "rename")

DropPart ==
    /\ pc = "drop_part"
    /\ part' = NoPart
    /\ pc' = "reset_chunks"
    /\ UNCHANGED <<src, dest, row, opt, delta, seen, route, attempt, todo, outcome,
                   aborts, edits>>

\* Mutant: reset_progress resets the flags only.
ResetNoChunks ==
    /\ pc = "reset_chunks"
    /\ Goto("reset_flags")

\* reset_progress: a DELETE of the chunks, then an UPDATE of the flags.
ResetChunks ==
    /\ pc = "reset_chunks"
    /\ row' = [row EXCEPT !.chunks = {}]
    /\ pc' = "reset_flags"
    /\ UNCHANGED <<src, dest, part, opt, delta, seen, route, attempt, todo, outcome,
                   aborts, edits>>

GivesUp ==
    \/ route = "rdma" /\ opt.rdma = "require"
    \/ route = "full" /\ attempt = 1

\* Mutant: the attempt that gives up is counted as well.
ResetFlagsCountingOn ==
    /\ pc = "reset_flags"
    /\ row' = [row EXCEPT !.finished = FALSE, !.digest = {}]
    /\ pc' = CASE GivesUp -> "idle"
               [] ~GivesUp /\ route = "rdma" -> "fast"
               [] OTHER -> "attempt"
    /\ outcome' = IF GivesUp THEN "failed" ELSE outcome
    /\ attempt' = IF route = "full" THEN attempt + 1 ELSE attempt
    /\ UNCHANGED <<src, dest, part, opt, delta, seen, route, todo, aborts, edits>>

ResetFlags ==
    /\ pc = "reset_flags"
    /\ row' = [row EXCEPT !.finished = FALSE, !.digest = {}]
    /\ pc' = CASE GivesUp -> "idle"
               [] ~GivesUp /\ route = "rdma" -> "fast"
               [] OTHER -> "attempt"
    /\ outcome' = IF GivesUp THEN "failed" ELSE outcome
    /\ attempt' = IF route = "full" THEN 1 ELSE attempt
    /\ UNCHANGED <<src, dest, part, opt, delta, seen, route, todo, aborts, edits>>

-----------------------------------------------------------------------------
(* Putting the file in place, and the end of the run.                      *)

Rename ==
    /\ pc = "rename"
    /\ dest' = [there |-> TRUE, data |-> part.data, mtime |-> Now]
    /\ part' = NoPart
    /\ pc' = "stamp"
    /\ UNCHANGED <<src, row, opt, delta, seen, route, attempt, todo, outcome,
                   aborts, edits>>

\* Mutant: the destination is given the source's mtime of the moment.
ApplyLatestMtime ==
    /\ pc = "stamp"
    /\ dest.there
    /\ dest' = [dest EXCEPT !.mtime = MtimeOf[src]]
    /\ pc' = "finish"
    /\ UNCHANGED <<src, part, row, opt, delta, seen, route, attempt, todo, outcome,
                   aborts, edits>>

ApplyMtime ==
    /\ pc = "stamp"
    /\ dest.there
    /\ dest' = [dest EXCEPT !.mtime = EntryMtime]
    /\ pc' = "finish"
    /\ UNCHANGED <<src, part, row, opt, delta, seen, route, attempt, todo, outcome,
                   aborts, edits>>

\* The owner removed the file before its mtime is set or its digest is taken.
DestGone ==
    /\ \/ pc = "stamp"
       \/ pc = "finish" /\ opt.verify
    /\ ~dest.there
    /\ IF route = "delta" THEN LeaveDelta /\ UNCHANGED <<part, aborts>>
                          ELSE ReturnError

\* mark_finished(_with_digest) is an UPDATE: without a row it does nothing.
MarkFinished ==
    /\ pc = "finish"
    /\ opt.verify => dest.there
    /\ row' = IF row.there
              THEN [row EXCEPT !.finished = TRUE,
                               !.digest = IF opt.verify THEN {dest.data} ELSE {}]
              ELSE row
    /\ pc' = "done"
    /\ outcome' = "transferred"
    /\ UNCHANGED <<src, dest, part, opt, delta, seen, route, attempt, todo,
                   aborts, edits>>

\* Another file of the run failed: the run returns its error, the state stays.
RunFailed ==
    /\ pc = "done"
    /\ Goto("idle")

RunSucceeded ==
    /\ pc = "done"
    /\ Goto("cleanup")

\* remove_dir_all of the state directory deletes its entries in no set order.
RemoveState ==
    /\ pc = "cleanup"
    /\ \/ row.there /\ row' = NoRow /\ UNCHANGED part
       \/ part.there /\ part' = NoPart /\ UNCHANGED row
    /\ UNCHANGED <<src, dest, process, aborts, edits>>

StateRemoved ==
    /\ pc = "cleanup"
    /\ ~row.there
    /\ ~part.there
    /\ Goto("idle")

-----------------------------------------------------------------------------
Init ==
    /\ src = 1
    /\ dest = NoDest
    /\ part = NoPart
    /\ row = NoRow
    /\ pc = "idle"
    /\ opt \in Options
    /\ delta = NoPlan
    /\ seen = 1
    /\ route = "none"
    /\ attempt = 0
    /\ todo = {}
    /\ outcome = "none"
    /\ aborts = 0
    /\ edits = 0

Step ==
    \/ PruneRow \/ PrunePart \/ ForgetChunks \/ ForgetRow \/ Plan
    \/ SkipRdma \/ RdmaUnsupported \/ StartRdma \/ FastCopy \/ SkipFastCopy
    \/ UpsertRow \/ ClearChunks \/ ClearFlags
    \/ BeginAttempt \/ SizeChanged \/ OpenPart
    \/ (\E c \in todo : ReadChunk(c))
    \/ ShortRead \/ ReadDone \/ MarkChunks
    \/ RdmaDrop \/ RdmaOpen \/ RdmaPacket \/ RdmaCopied \/ RdmaUnavailable
    \/ DeltaSign \/ DeltaRead \/ DeltaScript \/ DeltaPlanned \/ DeltaOpen \/ DeltaApply \/ DeltaCheck
    \/ DeltaDrop \/ DeltaFails
    \/ Check \/ DropPart \/ ResetChunks \/ ResetFlags
    \/ Rename \/ ApplyMtime \/ DestGone \/ MarkFinished
    \/ RunFailed \/ RunSucceeded \/ RemoveState \/ StateRemoved

Next == SourceChange \/ EditDest \/ Abort \/ DeltaBreaks
        \/ StartRun \/ StartUnlisted \/ Step

Spec == Init /\ [][Next]_vars

\* Runs that copy whatever the circumstances: with a route to fall back to.
Productive ==
    {o \in Options : ~o.dry /\ o.rdma # "require" /\ (o.delta => o.fallback)}

\* A process that is not stopped goes on, and whoever wants the file in sync
\* runs parsync again and again, now and then with such options.
FairSpec ==
    Spec /\ WF_vars(Step) /\ SF_vars(StartRun /\ opt' \in Productive)

-----------------------------------------------------------------------------
Row ==
    [there : BOOLEAN, size : Nat, mtime : Nat, chunk : Nat \ {0},
     chunks : SUBSET Nat, digest : SUBSET Seq(Unit), finished : BOOLEAN]

\* The type of every variable; the files, the registry and what each attempt
\* remembers of them.
TypeOK ==
    /\ src \in Versions
    /\ dest \in [there : BOOLEAN, data : Seq(Unit), mtime : 0 .. Now]
    /\ part \in [there : BOOLEAN, data : Seq(Unit)]
    /\ row \in Row
    /\ pc \in Points
    /\ opt \in Options
    /\ delta \in [planner : {"none", "helper", "script"}, read : Seq(Unit),
                  basis : Seq(Unit)]
    /\ seen \in 1 .. src
    /\ route \in {"none", "rdma", "fast", "delta", "full"}
    /\ attempt \in {0, 1}
    /\ todo \in SUBSET Nat
    /\ outcome \in {"none", "unlisted", "planned", "skipped", "transferred", "failed"}
    /\ aborts \in 0 .. MaxAborts
    /\ edits \in 0 .. MaxEdits

-----------------------------------------------------------------------------
(* Properties.                                                             *)

\* Points just after a step that left the row promising more than the disk
\* holds, or less than it claims to have forgotten.
Windows ==
    {"clear_chunks", "clear_flags", "rdma_open", "rdma_copy", "drop_part",
     "delta_apply", "delta_drop", "reset_chunks", "stamp"}

\* Every change of the source shows in its mtime.
LaterTimes == \A v, w \in Versions : v < w => MtimeOf[v] < MtimeOf[w]

\* What the three safety properties below rest on: no process stops short in a
\* window, nor a dry run while it removes the state it did not use; the
\* destination is left alone; a new version has a later mtime.
Sheltered ==
    /\ AbortPoints \cap Windows = {}
    /\ "cleanup" \in AbortPoints => \A o \in Options : ~o.dry
    /\ Edits = {}
    /\ LaterTimes

\* The destination never shows bytes nobody wrote: whatever run_sync renames
\* into place has been copied from the source in full, over all the runs and
\* processes that contributed to the partial file (transfer_one, set_len).
NoHoles == dest.there => \A u \in DOMAIN dest.data : dest.data[u] # Hole

\* A file reported as synced is: when the run ends well for the file, skipped
\* or transferred, and the source is still the listed version, the
\* destination holds that version (should_transfer, transfer_one).
SyncedMeansCurrent ==
    pc = "done" /\ outcome \in {"skipped", "transferred"} /\ src = seen =>
      dest.there /\ dest.data = SourceData(src)

\* --strict-durability never puts a mixture of versions in place, nor another
\* version than the listed one, however many attempts and processes built the
\* partial file (the stat after the copy).  A file system clone and the delta
\* route do not stat the source once more: see DeltaFromSource for the latter.
StrictSingleVersion ==
    pc = "stamp" /\ opt.strict /\ route \notin {"fast", "delta"} =>
      dest.data = SourceData(seen)

\* What the delta route is about to put in place has the listed size and comes
\* from the source, no unit of it older than the listing, whatever happens to
\* the basis between its signature and the copying of its blocks (the digest of
\* transfer_one_delta); and the plan of a helper, which stats the source after
\* reading it, gives the listed version, unmixed.  The script does not: what it
\* reads of a source being changed passes every check if the size is the same.
DeltaFromSource ==
    pc = "rename" /\ route = "delta" =>
      /\ Len(part.data) = EntrySize
      /\ \A u \in DOMAIN part.data : part.data[u] \in seen .. src
      /\ delta.planner = "helper" /\ LaterTimes => part.data = SourceData(seen)

\* --no-resume owes nothing to the past: what such a run renames into place it
\* has read from the source itself, every unit of it at the listed version or
\* later, wherever earlier processes died and whatever the owner did.
NoResumeIsClean ==
    pc = "stamp" /\ ~opt.resume => \A u \in DOMAIN dest.data : dest.data[u] >= seen

\* --dry-run writes no file (its documentation), so a dry run between two
\* real ones costs nothing.
DryRunKeepsDisk == [][opt.dry /\ pc # "idle" => UNCHANGED disk]_vars

\* The destination only ever changes as Mirror says: replaced at once, never by
\* something older, and never given a later version's mtime (run_sync,
\* safe_rename, apply_mtime).
Promise == INSTANCE Mirror
KeepsPromise == Promise!Spec

\* If the source stops changing, processes stop dying and runs are repeated,
\* the destination becomes the source and stays so.
EventuallyCurrent == <>[](dest.there /\ dest.data = SourceData(src))

-----------------------------------------------------------------------------
(* The inductive invariant behind the three safety properties.  It says    *)
(* how far, at each point, the row may be believed about the partial file  *)
(* and the partial file about the source.                                  *)

\* The transfer has begun and has not replaced the destination yet ...
Copying ==
    {"route", "fast", "attempt", "upsert", "clear_chunks", "clear_flags",
     "open", "read", "mark", "rdma_drop", "rdma_open", "rdma_copy",
     "delta_sign", "delta_plan", "delta_open", "delta_apply", "delta_check",
     "delta_drop", "check", "drop_part", "reset_chunks", "reset_flags", "rename"}
\* ... the row is the listed version's ...
Claimed ==
    {"clear_chunks", "clear_flags", "open", "read", "mark", "rdma_drop",
     "rdma_open", "rdma_copy", "check", "drop_part", "reset_chunks",
     "reset_flags", "rename", "stamp", "finish"}
\* ... the partial file is ready to be put in place.
Ready == {"mark", "check", "rename"}
\* ... a difference is taken from the destination.
Differing == {"delta_plan", "delta_open", "delta_apply", "delta_check", "delta_drop"}

RouteFits ==
    /\ pc \in {"open", "read", "mark", "attempt"} => route = "full"
    /\ pc \in {"rdma_drop", "rdma_open", "rdma_copy"} => route = "rdma"
    /\ pc \in {"upsert", "clear_chunks", "clear_flags", "check", "drop_part",
              "reset_chunks", "reset_flags"} => route \in {"full", "rdma"}
    /\ pc \in Differing \cup {"delta_sign"} => route = "delta"
    /\ pc \in {"rename", "stamp", "finish"} => route # "none"

\* No unit is newer than the source.
NoneFromTheFuture ==
    /\ \A u \in DOMAIN part.data : part.data[u] <= src
    /\ \A u \in DOMAIN dest.data : dest.data[u] <= src

\* A row describes a version that has been listed.
RowKnown ==
    row.there =>
      \E v \in 1 .. seen : row.size = SizeOf[v] /\ row.mtime = MtimeOf[v]

AtListed == dest.there /\ SameSizeAndMtime

\* Each chunk the row calls complete is in the partial file.
Backed ==
    \A u \in 1 .. row.size :
       ChunkOf(u, row.chunk) \in row.chunks =>
         part.there /\ u <= Len(part.data) /\ part.data[u] >= seen

\* Outside the windows, the row of the listed version either belongs to a
\* destination that is in place or is backed by the partial file.
RowHonest ==
    row.there /\ RowMatches /\ pc \notin Windows /\ ~(opt.dry /\ pc = "cleanup") =>
      AtListed \/ (~row.finished /\ Backed)

\* A destination's mtime is that of a version no unit is older than.
DestHonest ==
    dest.there /\ pc # "stamp" =>
      \E v \in 1 .. seen :
        dest.mtime = MtimeOf[v] /\ \A u \in DOMAIN dest.data : dest.data[u] >= v

RowClaimed ==
    pc \in Claimed =>
      CASE route = "fast" -> ~row.there
        [] route = "delta" -> TRUE
        [] OTHER ->
           /\ row.there
           /\ RowMatches
           /\ row.chunk = ChunkSize
           /\ pc \notin {"clear_chunks", "clear_flags"} => ~row.finished

Cleared ==
    /\ pc \in {"forget_row", "clear_flags", "reset_flags"} => row.chunks = {}
    /\ pc = "prune_part" => ~row.there

Whole(d) ==
    /\ \A u \in DOMAIN d : d[u] >= seen
    /\ IF route = "fast" THEN \E w \in seen .. src : d = SourceData(w)
                        ELSE Len(d) = EntrySize

PartGrows ==
    /\ pc \in {"read", "rdma_copy"} =>
         part.there /\ Len(part.data) = EntrySize
    /\ pc = "read" => \A u \in 1 .. EntrySize :
         ChunkOf(u, ChunkSize) \notin todo => part.data[u] >= seen
    /\ pc = "rdma_copy" => \A u \in 1 .. EntrySize :
         u \notin todo => part.data[u] >= seen
    /\ pc \in Ready => part.there /\ Whole(part.data)

StrictPart ==
    pc = "rename" /\ opt.strict /\ route \notin {"fast", "delta"} =>
      part.data = SourceData(seen)

\* The plan is one for the destination as it is, and what is built from it is
\* what its planner read; meanwhile no row of the listed version is finished.
DeltaPlan ==
    /\ pc \in Differing =>
         \A u \in DOMAIN delta.read : delta.read[u] \in seen .. src
    /\ pc \in Differing \ {"delta_plan"} =>
         /\ Len(delta.read) = EntrySize
         /\ delta.planner = "helper" /\ LaterTimes =>
              \A u \in DOMAIN delta.read : delta.read[u] = seen
    /\ pc = "delta_check" => part.there
DeltaBasis ==
    /\ pc \in Differing => delta.basis = dest.data
    /\ pc = "delta_check" => part.data = delta.read
    /\ pc # "delta_drop"
    /\ pc = "delta_apply" /\ row.there /\ RowMatches => ~row.finished

InPlace ==
    /\ pc \in {"stamp", "finish"} => dest.there /\ Whole(dest.data)
    /\ pc = "finish" => dest.mtime = EntryMtime

Done ==
    /\ pc = "done" /\ outcome \in {"skipped", "transferred"} =>
         /\ dest.there
         /\ \A u \in DOMAIN dest.data : dest.data[u] >= seen
         /\ \/ \E w \in seen .. src : dest.data = SourceData(w)
            \/ Len(dest.data) = EntrySize
    /\ pc \in {"done", "cleanup"} /\ ~opt.dry /\ row.there /\ RowMatches =>
         AtListed

CoreInv ==
    /\ TypeOK
    /\ RouteFits
    /\ NoneFromTheFuture
    /\ RowKnown
    /\ RowHonest
    /\ DestHonest
    /\ RowClaimed
    /\ Cleared
    /\ pc \in Copying => ~AtListed
    /\ PartGrows
    /\ StrictPart
    /\ InPlace
    /\ Done
    /\ StrictSingleVersion

IInv == CoreInv /\ DeltaPlan /\ DeltaBasis /\ DeltaFromSource

\* Until it is replaced, the destination is nowhere newer than the listing: what
\* the run puts in place of it cannot be older (KeepsPromise).
UpToListed ==
    pc \in Copying \cup {"forget_chunks", "forget_row", "plan"} =>
      \A u \in DOMAIN dest.data : dest.data[u] <= seen

-----------------------------------------------------------------------------
(* The inductive invariant behind NoResumeIsClean, for every process that    *)
(* may stop anywhere and every owner: no chunk is believed before it is read. *)

Emptied ==
    pc \in {"forget_row", "plan", "route", "fast", "attempt", "upsert",
            "clear_chunks", "clear_flags", "open", "read", "mark", "rdma_drop",
            "rdma_open", "rdma_copy", "reset_flags", "delta_sign"}
        \cup Differing
      => row.chunks = {}

\* The delta route leaves it so.
EmptiedDelta ==
    pc \in {"rename", "stamp", "finish"} /\ route = "delta" => row.chunks = {}

FreshCore ==
    /\ RouteFits
    /\ ~opt.resume => Emptied /\ EmptiedDelta /\ PartGrows
    /\ NoResumeIsClean

FreshInv == TypeOK /\ DeltaPlan /\ DeltaFromSource /\ FreshCore

=============================================================================
