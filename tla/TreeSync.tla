------------------------------ MODULE TreeSync ------------------------------
(***************************************************************************)
(* A run of parsync over a whole tree (run_sync_with_client): it lists the *)
(* source, walks the sorted list creating directories, links and a queue   *)
(* of files (the planning), lets up to Jobs workers copy the queued files, *)
(* and, when every one succeeded, removes its state directory.  The same   *)
(* command is run again and again over a source that changes, interrupted, *)
(* killed and hit by errors.  What happens inside the copy of one file is  *)
(* the subject of FileSync; here it is a step that reads the file.         *)
(*                                                                         *)
(* A node of a tree is a kind, a version (a file's contents, a link's      *)
(* target), a modification time and a mode.  In the source a version       *)
(* determines the modification time: they are the same number.             *)
(***************************************************************************)
EXTENDS Integers, FiniteSets, Sequences

CONSTANTS
    LastPath,  \* the relative paths, numbered as the sorted list has them
    Above,     \* the directories a path is in, below the root
    Hidden,    \* paths whose first component begins with a dot
    Big,       \* paths whose files have at least rdma_min_size bytes
    Trees,     \* what the source is, one after the other
    Before,    \* what the destination may be at first
    Now,       \* the local clock, later than every source mtime
    Options,   \* the option records the command may have
    Jobs,      \* the number of workers
    MaxFaults  \* how many errors and kills there may be

Paths == 1 .. LastPath

Kinds     == {"none", "file", "dir", "link"}
Node      == [kind : Kinds, ver : Nat, mtime : Nat, mode : {"rw", "ro"}]
OptionRecord ==
    [recursive : BOOLEAN, links : BOOLEAN, perms : BOOLEAN, dry : BOOLEAN,
     ssh : BOOLEAN, star : BOOLEAN, rdma : {"off", "auto", "require"}]

\* Entries are in directories.
WellFormed(tree) ==
    \A p \in Paths : tree[p].kind # "none" => \A q \in Above[p] : tree[q].kind = "dir"

ASSUME PathAssumption ==
    /\ LastPath \in Nat
    /\ Above \in [Paths -> SUBSET Paths]
    /\ \A p \in Paths : \A q \in Above[p] : q < p /\ Above[q] \subseteq Above[p]
    /\ \A p \in Paths : \A q \in Above[p] : (q \in Hidden) = (p \in Hidden)
    /\ Hidden \subseteq Paths
    /\ Big \subseteq Paths
ASSUME TreeAssumption ==
    /\ Now \in Nat
    /\ Trees \in Seq([Paths -> Node]) /\ Trees # <<>>
    /\ Before \subseteq [Paths -> Node]
    /\ \A i \in DOMAIN Trees : WellFormed(Trees[i])
    /\ \A i \in DOMAIN Trees : \A p \in Paths :
         Trees[i][p].mtime = Trees[i][p].ver /\ Trees[i][p].ver < Now
    /\ \A tree \in Before : WellFormed(tree)
ASSUME RunAssumption ==
    /\ Options \subseteq OptionRecord
    /\ Jobs \in Nat \ {0}
    /\ MaxFaults \in Nat

VARIABLES
    src,       \* the source is Trees[src]
    dest,      \* the destination tree
    part,      \* the version in each partial file
    phase,     \* where the process is; idle: there is none
    opt,       \* its options
    seen,      \* the listed tree
    at,        \* how far it is with each path
    flag,      \* INTERRUPTED
    signals,   \* INTERRUPT_COUNT
    disabled,  \* RuntimeWarnings.rdma_disabled
    probes,    \* RDMA setups of the run that failed in the way it remembers
    hurt,      \* an error, a signal or a change of the source hit the run
    outcome,   \* how the last run ended
    faults     \* errors and kills so far

run  == <<phase, opt, seen, at, flag, signals, disabled, probes, hurt, outcome>>
vars == <<src, dest, part, run, faults>>

Phases == {"idle", "ready", "listing", "planning", "working", "cleanup"}
Stages == {"none", "listed", "unlinked", "queued", "rdma", "copy", "place", "stamp",
           "meta", "done", "failed"}
Absent == [kind |-> "none", ver |-> 0, mtime |-> 0, mode |-> "rw"]
Active == {p \in Paths : at[p] \in {"rdma", "copy", "place", "stamp", "meta"}}

-----------------------------------------------------------------------------
(* The destination.                                                        *)

\* The directory p is in; none when that is the root.
Holder(p) == {q \in Above[p] : Above[p] = Above[q] \cup {q}}

Writable(p) == \A q \in Holder(p) : dest[q].mode = "rw"

\* p becomes a node; that changes the directory it is in.
Put(p, node) ==
    [q \in Paths |->
        IF q = p THEN node
        ELSE IF q \in Holder(p) THEN [dest[q] EXCEPT !.mtime = Now]
        ELSE dest[q]]

Mode(p) == IF opt.perms THEN seen[p].mode ELSE dest[p].mode

\* Mutant: a link passes for what it points to.
LooksClear(p) ==
    /\ \A q \in Above[p] : dest[q].kind # "file"
    /\ seen[p].kind = "dir" => dest[p].kind # "file"

\* Mutant: no link may be in the way, even of a link.
ClearOfLinks(p) ==
    /\ \A q \in Above[p] : dest[q].kind \in {"dir", "none"}
    /\ dest[p].kind # "link"
    /\ seen[p].kind = "dir" => dest[p].kind \in {"dir", "none"}

\* validate_destination_path: only directories on the way to p, a link in
\* its place only for a link, only a directory for a directory.
Clear(p) ==
    /\ \A q \in Above[p] : dest[q].kind \in {"dir", "none"}
    /\ dest[p].kind = "link" => seen[p].kind = "link"
    /\ seen[p].kind = "dir" => dest[p].kind \in {"dir", "none"}

-----------------------------------------------------------------------------
(* The environment.                                                        *)

SourceChange ==
    /\ src < Len(Trees)
    /\ src' = src + 1
    /\ hurt' = TRUE
    /\ UNCHANGED <<dest, part, phase, opt, seen, at, flag, signals, disabled, probes, outcome, faults>>

End(how) == phase' = "idle" /\ outcome' = how

\* Something the run has no answer to: an error of the remote or of the
\* disk that is returned, or the end of the process.
Fault ==
    /\ phase # "idle"
    /\ faults < MaxFaults
    /\ faults' = faults + 1
    /\ hurt' = TRUE

Kill ==
    /\ Fault
    /\ End("killed")
    /\ UNCHANGED <<src, dest, part, opt, seen, at, flag, signals, disabled, probes>>

\* Mutant: the handler only sets the flag.
InterruptSetsFlag ==
    /\ Fault
    /\ signals' = signals + 1
    /\ flag' = TRUE
    /\ UNCHANGED <<src, dest, part, phase, opt, seen, at, disabled, probes, outcome>>

\* The handler of ctrlc: the second signal ends the process.
Interrupt ==
    /\ Fault
    /\ signals' = signals + 1
    /\ flag' = TRUE
    /\ IF signals' >= 2 THEN End("killed") ELSE UNCHANGED <<phase, outcome>>
    /\ UNCHANGED <<src, dest, part, opt, seen, at, disabled, probes>>

-----------------------------------------------------------------------------
(* A run until its plan is made.                                           *)

\* The handler is installed.
Start ==
    /\ phase = "idle"
    /\ phase' = "ready"
    /\ seen' = [p \in Paths |-> Absent]
    /\ at' = [p \in Paths |-> "none"]
    /\ flag' = FALSE
    /\ signals' = 0
    /\ disabled' = FALSE
    /\ probes' = 0
    /\ hurt' = FALSE
    /\ outcome' = "none"
    /\ UNCHANGED <<src, dest, part, opt, faults>>

\* clear_interrupt_flag; a signal since Start is forgotten.
ClearFlag ==
    /\ phase = "ready"
    /\ phase' = "listing"
    /\ flag' = FALSE
    /\ signals' = 0
    /\ UNCHANGED <<src, dest, part, opt, seen, at, disabled, probes, hurt, outcome, faults>>

\* What a listing finds.  Over ssh it is that of `find`, which leaves hidden
\* entries of the source directory out when its path ends in /*, or, when
\* that fails for whatever reason, the walk over SFTP, which does not.
Found(walk) ==
    {p \in Paths :
        /\ Trees[src][p].kind # "none"
        /\ opt.recursive \/ Above[p] = {}
        /\ ~(opt.star /\ opt.ssh /\ ~walk /\ p \in Hidden)}

ListEntries ==
    /\ phase = "listing"
    /\ \E walk \in BOOLEAN :
         /\ walk => opt.ssh
         /\ seen' = [p \in Paths |-> IF p \in Found(walk) THEN Trees[src][p] ELSE Absent]
         /\ at' = [p \in Paths |-> IF p \in Found(walk) THEN "listed" ELSE "none"]
    /\ phase' = "planning"
    /\ UNCHANGED <<src, dest, part, opt, flag, signals, disabled, probes, hurt, outcome, faults>>

\* An error before the workers start is the end of the run.
RunBreaks ==
    /\ phase \in {"ready", "listing", "planning", "cleanup"}
    /\ Fault
    /\ End("failed")
    /\ UNCHANGED <<src, dest, part, opt, seen, at, flag, signals, disabled, probes>>

\* The entry the planner is at.
Unplanned == {p \in Paths : at[p] \in {"listed", "unlinked"}}
Current(p) ==
    /\ phase = "planning"
    /\ p \in Unplanned
    /\ \A q \in Unplanned : p <= q

Planning(p) == Current(p) /\ at[p] = "listed" /\ ~flag /\ Clear(p)

Reach(p, stage) ==
    /\ at' = [at EXCEPT ![p] = stage]
    /\ UNCHANGED <<src, phase, opt, seen, flag, signals, outcome, faults>>

\* What stops the planner at p: a signal, validate_destination_path, an
\* entry it may not create or replace, a directory in the place of a link.
Refused(p) ==
    /\ Current(p)
    /\ \/ at[p] = "listed" /\ (flag \/ ~Clear(p))
       \/ /\ ~opt.dry
          /\ seen[p].kind = "dir"
          /\ dest[p].kind = "none"
          /\ ~Writable(p)
       \/ /\ ~opt.dry /\ opt.links
          /\ seen[p].kind = "link"
          /\ dest[p].kind = "dir" \/ ~Writable(p)

PlanRefused ==
    /\ \E p \in Paths : Refused(p)
    /\ End("failed")
    /\ UNCHANGED <<src, dest, part, opt, seen, at, flag, signals, disabled, probes, hurt, faults>>

\* create_dir_all, apply_mtime, apply_metadata: the directory has its mode
\* and its modification time before anything is put into it.
PlanDir(p) ==
    /\ Planning(p)
    /\ ~Refused(p)
    /\ seen[p].kind = "dir"
    /\ dest' = IF opt.dry THEN dest
               ELSE IF dest[p].kind = "none"
               THEN Put(p, [kind |-> "dir", ver |-> 0, mtime |-> seen[p].mtime,
                            mode |-> IF opt.perms THEN seen[p].mode ELSE "rw"])
               ELSE [dest EXCEPT ![p].mtime = seen[p].mtime, ![p].mode = Mode(p)]
    /\ Reach(p, "done")
    /\ UNCHANGED <<part, disabled, probes, hurt>>

SkipLink(p) ==
    /\ Planning(p)
    /\ seen[p].kind = "link"
    /\ ~opt.links \/ opt.dry
    /\ Reach(p, "done")
    /\ UNCHANGED <<dest, part, disabled, probes, hurt>>

\* create_or_replace_symlink, in every run: what is there is removed ...
PlanUnlink(p) ==
    /\ Planning(p)
    /\ ~Refused(p)
    /\ seen[p].kind = "link"
    /\ opt.links /\ ~opt.dry
    /\ dest' = IF dest[p].kind = "none" THEN dest ELSE Put(p, Absent)
    /\ Reach(p, "unlinked")
    /\ UNCHANGED <<part, disabled, probes, hurt>>

\* ... and the link is made.
PlanLink(p) ==
    /\ Current(p)
    /\ at[p] = "unlinked"
    /\ dest' = Put(p, [kind |-> "link", ver |-> seen[p].ver, mtime |-> Now, mode |-> "rw"])
    /\ Reach(p, "done")
    /\ UNCHANGED <<part, disabled, probes, hurt>>

\* Mutant: a file that is there is believed to be the listed one.
InPlaceByName(p) == dest[p].kind = "file"

\* should_transfer: size and modification time tell (FileSync has the rest).
InPlace(p) == dest[p].kind = "file" /\ dest[p].mtime = seen[p].mtime

PlanFile(p) ==
    /\ Planning(p)
    /\ seen[p].kind = "file"
    /\ dest' = IF InPlace(p) /\ ~opt.dry THEN [dest EXCEPT ![p].mode = Mode(p)] ELSE dest
    /\ Reach(p, IF InPlace(p) THEN "done" ELSE "queued")
    /\ UNCHANGED <<part, disabled, probes, hurt>>

Planned ==
    /\ phase = "planning"
    /\ Unplanned = {}
    /\ phase' = "working"
    /\ UNCHANGED <<src, dest, part, opt, seen, at, flag, signals, disabled, probes, hurt,
                   outcome, faults>>

-----------------------------------------------------------------------------
(* The workers.                                                            *)

TakesRdma(p) == opt.rdma # "off" /\ p \in Big /\ ~disabled

\* A worker takes the file: a signal is looked at first, a dry run ends
\* here; what it does next is decided by what holds now.
Begin(p) ==
    /\ at[p] = "queued"
    /\ Cardinality(Active) < Jobs
    /\ Reach(p, IF flag THEN "failed"
                ELSE IF opt.dry THEN "done"
                ELSE IF ~Clear(p) THEN "failed"
                ELSE IF TakesRdma(p) /\ opt.ssh THEN "rdma"
                ELSE IF TakesRdma(p) /\ opt.rdma = "require" THEN "failed"
                ELSE "copy")
    /\ UNCHANGED <<dest, part, disabled, probes, hurt>>

\* Mutant: that RDMA cannot be set up is not remembered.
RdmaUnavailableForFile(p) ==
    /\ at[p] = "rdma"
    /\ probes' = probes + 1
    /\ hurt' = (hurt \/ opt.rdma = "require")
    /\ Reach(p, IF opt.rdma = "require" THEN "failed" ELSE "copy")
    /\ UNCHANGED <<dest, part, disabled>>

\* RdmaCopyResult::Unavailable with cache_for_run: the run gives RDMA up,
\* other workers may be in the middle of theirs.
RdmaUnavailable(p) ==
    /\ at[p] = "rdma"
    /\ probes' = probes + 1
    /\ hurt' = (hurt \/ opt.rdma = "require")
    /\ disabled' = (disabled \/ opt.rdma # "require")
    /\ Reach(p, IF opt.rdma = "require" THEN "failed" ELSE "copy")
    /\ UNCHANGED <<dest, part>>

Changed(p) == Trees[src][p] # seen[p]

\* Unavailable for this file only, or the source changed under a strict
\* transfer: RDMA is not given up.
RdmaDeclined(p) ==
    /\ at[p] = "rdma"
    /\ opt.rdma # "require"
    /\ Reach(p, "copy")
    /\ UNCHANGED <<dest, part, disabled, probes, hurt>>

\* The file is read into the partial file, by either route.
Copy(p) ==
    /\ at[p] \in {"rdma", "copy"}
    /\ Trees[src][p].kind = "file"
    /\ part' = [part EXCEPT ![p] = Trees[src][p].ver]
    /\ Reach(p, "place")
    /\ UNCHANGED <<dest, disabled, probes, hurt>>

\* A signal was seen between two chunks, or the change of the source was.
CopyGivesUp(p) ==
    /\ \/ at[p] = "copy" /\ flag
       \/ at[p] \in {"rdma", "copy"} /\ Changed(p)
    /\ Reach(p, "failed")
    /\ UNCHANGED <<dest, part, disabled, probes, hurt>>

\* safe_rename, after another look at the destination.
Place(p) ==
    /\ at[p] = "place"
    /\ IF Clear(p) /\ dest[p].kind # "dir" /\ Writable(p)
       THEN /\ dest' = Put(p, [kind |-> "file", ver |-> part[p], mtime |-> Now, mode |-> "rw"])
            /\ part' = [part EXCEPT ![p] = 0]
            /\ Reach(p, "stamp")
       ELSE /\ Reach(p, "failed")
            /\ UNCHANGED <<dest, part>>
    /\ UNCHANGED <<disabled, probes, hurt>>

\* Mutant: the modification time the source has now.
StampCurrent(p) ==
    /\ at[p] = "stamp"
    /\ dest' = [dest EXCEPT ![p].mtime = Trees[src][p].mtime]
    /\ Reach(p, "meta")
    /\ UNCHANGED <<part, disabled, probes, hurt>>

Stamp(p) ==
    /\ at[p] = "stamp"
    /\ dest' = [dest EXCEPT ![p].mtime = seen[p].mtime]
    /\ Reach(p, "meta")
    /\ UNCHANGED <<part, disabled, probes, hurt>>

\* apply_metadata, and the row of the file is marked finished.
Finish(p) ==
    /\ at[p] = "meta"
    /\ dest' = [dest EXCEPT ![p].mode = Mode(p)]
    /\ Reach(p, "done")
    /\ UNCHANGED <<part, disabled, probes, hurt>>

\* Mutant: the error of a job is not kept.
JobLost(p) ==
    /\ p \in Active
    /\ Fault
    /\ at' = [at EXCEPT ![p] = "done"]
    /\ UNCHANGED <<src, dest, part, phase, opt, seen, flag, signals, disabled, probes, outcome>>

\* transfer_one returns an error: it is kept, the other jobs go on.
JobFails(p) ==
    /\ p \in Active
    /\ Fault
    /\ at' = [at EXCEPT ![p] = "failed"]
    /\ UNCHANGED <<src, dest, part, phase, opt, seen, flag, signals, disabled, probes, outcome>>

\* Every job has ended: one error is the error of the run.
WorkDone ==
    /\ phase = "working"
    /\ \A p \in Paths : at[p] \in {"none", "done", "failed"}
    /\ IF \E p \in Paths : at[p] = "failed"
       THEN End("failed")
       ELSE phase' = "cleanup" /\ outcome' = outcome
    /\ UNCHANGED <<src, dest, part, opt, seen, at, flag, signals, disabled, probes, hurt, faults>>

\* remove_state_root_with_retry: the partial files go with the directory.
Cleanup ==
    /\ phase = "cleanup"
    /\ part' = [p \in Paths |-> 0]
    /\ End("ok")
    /\ UNCHANGED <<src, dest, opt, seen, at, flag, signals, disabled, probes, hurt, faults>>

-----------------------------------------------------------------------------

Init ==
    /\ src = 1
    /\ dest \in Before
    /\ part = [p \in Paths |-> 0]
    /\ phase = "idle"
    /\ opt \in Options
    /\ seen = [p \in Paths |-> Absent]
    /\ at = [p \in Paths |-> "none"]
    /\ flag = FALSE
    /\ signals = 0
    /\ disabled = FALSE
    /\ probes = 0
    /\ hurt = FALSE
    /\ outcome = "none"
    /\ faults = 0

Plan == \E p \in Paths :
    PlanDir(p) \/ SkipLink(p) \/ PlanUnlink(p) \/ PlanLink(p) \/ PlanFile(p)

\* The workers are threads of the process.
Work(p) ==
    /\ phase = "working"
    /\ \/ Begin(p) \/ RdmaUnavailable(p) \/ RdmaDeclined(p) \/ Copy(p) \/ CopyGivesUp(p)
       \/ Place(p) \/ Stamp(p) \/ Finish(p)

Proceed ==
    \/ Start \/ ClearFlag \/ ListEntries \/ PlanRefused \/ Plan \/ Planned
    \/ \E p \in Paths : Work(p)
    \/ WorkDone \/ Cleanup

Next ==
    \/ Proceed
    \/ SourceChange \/ Kill \/ Interrupt \/ RunBreaks
    \/ \E p \in Paths : JobFails(p)

Spec == Init /\ [][Next]_vars

\* The process goes on, the workers are served, and the command is run
\* again when it has ended.
FairSpec == Spec /\ WF_vars(Proceed)

-----------------------------------------------------------------------------
(* Properties.                                                             *)

\* Every variable has its type; one signal at most is taken by a process
\* that goes on (the handler's process::exit on the second).
TypeOK ==
    /\ src \in DOMAIN Trees
    /\ dest \in [Paths -> Node]
    /\ part \in [Paths -> Nat]
    /\ phase \in Phases
    /\ opt \in Options
    /\ seen \in [Paths -> Node]
    /\ at \in [Paths -> Stages]
    /\ flag \in BOOLEAN
    /\ signals \in 0 .. 2
    /\ phase # "idle" => signals <= 1
    /\ disabled \in BOOLEAN
    /\ probes \in Nat
    /\ hurt \in BOOLEAN
    /\ outcome \in {"none", "ok", "failed", "killed"}
    /\ faults \in 0 .. MaxFaults

\* Nothing of the tree is ever written through a link or into what is not a
\* directory, whatever the kinds of the entries were in earlier runs
\* (validate_destination_path at planning, at the start of a transfer and
\* before the rename).
NothingThroughLinks == WellFormed(dest)

\* A directory that has a link in it cannot keep its modification time: the
\* planner makes its links after it (and in every run again).
Relinked(q) == opt.links /\ \E p \in Paths : q \in Holder(p) /\ seen[p].kind = "link"

\* What the run was asked to do with p is done, and still is.
Synced(p) ==
    CASE seen[p].kind = "file" ->
           /\ dest[p].kind = "file" /\ dest[p].mtime = seen[p].mtime
           /\ dest[p].ver >= seen[p].ver
           /\ ~hurt => dest[p].ver = seen[p].ver
           /\ opt.perms => dest[p].mode = seen[p].mode
      [] seen[p].kind = "dir" ->
           dest[p].kind = "dir" /\ (opt.perms => dest[p].mode = seen[p].mode)
      [] seen[p].kind = "link" ->
           opt.links => dest[p].kind = "link" /\ dest[p].ver = seen[p].ver
      [] OTHER -> TRUE

\* A run that reports success has left every listed file with the listed
\* contents or later ones, its time and mode, every directory and every
\* link: whatever jobs failed beside others, and wherever a signal came
\* (the error list of run_sync_with_client).
SuccessMeansSynced == outcome = "ok" /\ ~opt.dry => \A p \in Paths : Synced(p)

NeedsWrite(p) ==
    CASE seen[p].kind = "dir"  -> dest[p].kind = "none"
      [] seen[p].kind = "file" -> dest[p].kind = "none" \/ dest[p].mtime # seen[p].mtime
      [] seen[p].kind = "link" -> opt.links
      [] OTHER -> FALSE

\* What no run can get past: an entry whose kind has changed (save a file
\* that is now a link), and, for a file, a link or a new directory, a
\* directory without write permission.
Obstacle ==
    \E p \in Paths :
        /\ seen[p].kind # "none"
        /\ \/ \E q \in Above[p] : dest[q].kind \in {"file", "link"}
           \/ dest[p].kind = "link" /\ seen[p].kind # "link"
           \/ dest[p].kind = "dir" /\ seen[p].kind # "dir"
           \/ dest[p].kind = "file" /\ seen[p].kind = "dir"
           \/ NeedsWrite(p) /\ ~Writable(p)

\* A run fails only because of an error, a signal, a change of the source
\* or an obstacle: workers do not fail one another, and a plan made is a
\* plan that can be carried out.
FailsForAReason ==
    outcome = "failed" => hurt \/ Obstacle \/ (opt.rdma = "require" /\ ~opt.ssh)

\* With rdma=auto a host on which RDMA cannot be set up is asked at most
\* once per worker and run, however the workers are interleaved (the flag
\* RuntimeWarnings.rdma_disabled; with one worker, the test
\* rdma_auto_caches_setup_unavailability_for_run).
RdmaProbes == opt.rdma # "require" => probes <= Jobs

\* The destination is what the listing of the source asks for.
Mirrored ==
    \A p \in Paths :
        /\ Trees[src][p].kind # "none" /\ (opt.recursive \/ Above[p] = {}) /\ p \notin Hidden
             => seen[p] = Trees[src][p]
        /\ Synced(p)
        /\ seen[p].kind = "file" => dest[p].ver = seen[p].ver
        /\ seen[p].kind = "dir" => Relinked(p) \/ dest[p].mtime = seen[p].mtime

\* When the source stays as it is and errors stop, then from some run on
\* every run leaves the destination as the source is: files, modes, links,
\* and the times of the directories, which the first run gets wrong; unless
\* there is an obstacle.
EventuallyMirrored ==
    ~opt.dry /\ opt.rdma # "require" => <>[](phase = "idle" => Mirrored \/ Obstacle)

\* Paths that are files throughout, one version after the other.
SteadyFiles ==
    {p \in Paths :
        /\ \A tree \in Before : tree[p] = Absent
        /\ \A i \in DOMAIN Trees : Trees[i][p].kind = "file"
        /\ Trees[1][p].ver = 1
        /\ \A i \in 2 .. Len(Trees) : Trees[i][p].ver - Trees[i - 1][p].ver \in {0, 1}}

FileMirror(p) == INSTANCE Mirror WITH
    LastVersion <- Trees[Len(Trees)][p].ver,
    SizeOf <- [v \in 1 .. Now |-> 1],
    MtimeOf <- [v \in 1 .. Now |-> v],
    src <- Trees[src][p].ver,
    dest <- [there |-> dest[p].kind = "file",
             data  |-> IF dest[p].kind = "file" THEN <<dest[p].ver>> ELSE <<>>,
             mtime |-> dest[p].mtime]

\* Each file of the tree goes through what Mirror promises, and what
\* FileSync shows of a single file: runs over the tree, with their other
\* files, links and directories, do not get in its way.
FilesKeepPromise ==
    /\ \A p \in SteadyFiles : FileMirror(p)!Init
    /\ [][\A p \in SteadyFiles : [FileMirror(p)!Next]_(FileMirror(p)!vars)]_vars

-----------------------------------------------------------------------------
(* The inductive invariants behind SuccessMeansSynced, FailsForAReason and *)
(* FilesKeepPromise.                                                       *)

\* What the comparison of modification times rests on: the versions of a file in
\* the source go forward, and what is at first in its place at the destination, if
\* it has the time of one of them, is that version.
TimesTell ==
    \A p \in Paths : \A j \in DOMAIN Trees : Trees[j][p].kind = "file" =>
        /\ \A i \in 1 .. j :
              Trees[i][p].kind = "file" => Trees[i][p].ver <= Trees[j][p].ver
        /\ \A tree \in Before :
              tree[p].kind = "file" /\ tree[p].mtime = Trees[j][p].mtime
                => tree[p].ver = Trees[j][p].ver

\* An entry is listed as it was at some time, and as it is if nothing has hit the run.
Listed ==
    \A p \in Paths : seen[p].kind # "none" =>
        /\ \E i \in 1 .. src : seen[p] = Trees[i][p]
        /\ ~hurt => seen[p] = Trees[src][p]

\* How far the paths are, at each point of the run.
StagesFit ==
    /\ \A p \in Paths :
        /\ at[p] \in {"queued", "failed"} \/ p \in Active => seen[p].kind = "file"
        /\ at[p] \in {"queued", "rdma", "copy", "place"} => ~InPlace(p)
        /\ phase = "planning" => at[p] \in {"none", "listed", "unlinked", "queued", "done"}
        /\ phase = "cleanup" \/ outcome = "ok" => at[p] \in {"none", "done"}
    /\ phase # "idle" => outcome = "none"
    /\ flag => hurt

RdmaRequired == opt.rdma = "require" /\ ~opt.ssh

\* A listed file that no worker can put in place.
Blocked(p) ==
    \/ dest[p].kind \in {"link", "dir"}
    \/ ~InPlace(p) /\ ~Writable(p)

\* The reason for a failure is still there at the end of the run.
ReasonStays ==
    /\ \A p \in Paths : at[p] = "failed" => hurt \/ Blocked(p) \/ RdmaRequired
    /\ FailsForAReason

\* A file of the destination that has the time a later listing may show is the
\* version of that listing.
TimesTellVersions ==
    \A p \in Paths, j \in src .. Len(Trees) :
        /\ dest[p].kind = "file" /\ Trees[j][p].kind = "file"
        /\ dest[p].mtime = Trees[j][p].mtime
        => dest[p].ver = Trees[j][p].ver

\* v was read by this run.
Read(p, v) ==
    /\ v >= seen[p].ver
    /\ ~hurt => v = seen[p].ver
    /\ \A j \in src .. Len(Trees) : Trees[j][p].kind = "file" => v <= Trees[j][p].ver

\* What the run has achieved for p, stage by stage.
Achieved(p) ==
    /\ at[p] = "listed" /\ seen[p].kind = "file" /\ InPlace(p) => dest[p].ver = seen[p].ver
    /\ at[p] = "place" => Read(p, part[p])
    /\ at[p] \in {"stamp", "meta"} => dest[p].kind = "file" /\ Read(p, dest[p].ver)
    /\ at[p] = "meta" => dest[p].mtime = seen[p].mtime
    /\ at[p] = "done" /\ ~opt.dry => Synced(p)

AllAchieved == \A p \in Paths : Achieved(p)

\* How a steady file's destination is behind what the run has listed and what it has
\* read, and these behind the source.
Steady(p) ==
    /\ dest[p].kind \in {"none", "file"}
    /\ dest[p].kind = "file" => dest[p].ver \in 1 .. Trees[src][p].ver
    /\ at[p] \in {"listed", "queued", "rdma", "copy", "place"} /\ dest[p].kind = "file"
         => dest[p].ver <= seen[p].ver
    /\ at[p] = "place" => part[p] \in seen[p].ver .. Trees[src][p].ver
    /\ at[p] = "stamp" => dest[p].kind = "file" /\ dest[p].ver >= seen[p].ver

AllSteady == \A p \in SteadyFiles : Steady(p)

=============================================================================
