--------------------------- MODULE DestinationLock --------------------------
(***************************************************************************)
(* Several parsync processes on one destination: the lock file of          *)
(* acquire_destination_lock (state.rs), its recovery from processes that   *)
(* died, and the end of run_sync_with_client (sync.rs), which drops the    *)
(* lock and then removes the state directory the lock file lies in.        *)
(*                                                                         *)
(* Each system call is an action.  A process has one pid, its name, and    *)
(* takes part once.                                                        *)
(***************************************************************************)
EXTENDS Naturals, FiniteSets

CONSTANTS
    Procs,        \* the processes
    CrashPoints,  \* where a process may be killed
    Ends,         \* how a run may end: "error", "success"
    Serial        \* no process acquires while another one acquires or cleans up

Points ==
    {"new", "mkdir", "create", "write", "read", "probe", "unlink", "recreate",
     "hold", "drop", "clean_files", "clean_dir", "refused", "gone", "dead"}

Acquiring == {"mkdir", "create", "write", "read", "probe", "unlink", "recreate"}
CleaningUp == {"drop", "clean_files", "clean_dir"}
Ended     == {"refused", "gone", "dead"}

Nobody == "nobody"

ASSUME LockAssumption ==
    /\ Nobody \notin Procs
    /\ CrashPoints \subseteq Points \ (Ended \cup {"new"})
    /\ Ends \subseteq {"error", "success"}
    /\ Serial \in BOOLEAN

VARIABLES
    pc,    \* where each process is
    dir,   \* the state directory exists
    lock,  \* who created the file now at the path of the lock, or Nobody
    inked, \* the processes that have written their pid into the file they made
    pid,   \* the pid each process has read from the lock file
    end,   \* how each run ends
    alone  \* history: the processes that started when no other one ran

vars == <<pc, dir, lock, inked, pid, end, alone>>

Alive(p) == pc[p] \notin Ended \cup {"new"}

Quiet == \A p \in Procs : pc[p] \notin Acquiring \cup CleaningUp

Goto(p, point) == pc' = [pc EXCEPT ![p] = point]

-----------------------------------------------------------------------------
(* acquire_destination_lock.                                               *)

Start(p) ==
    /\ pc[p] = "new"
    /\ Serial => Quiet
    /\ alone' = IF \E q \in Procs : Alive(q) THEN alone ELSE alone \cup {p}
    /\ Goto(p, "mkdir")
    /\ UNCHANGED <<dir, lock, inked, pid, end>>

MakeDir(p) ==
    /\ pc[p] = "mkdir"
    /\ dir' = TRUE
    /\ Goto(p, "create")
    /\ UNCHANGED <<lock, inked, pid, end, alone>>

\* Mutant: the lock file is opened even if it exists.
OpenLock(p) ==
    /\ dir
    /\ lock' = p
    /\ Goto(p, "write")

\* Mutant: no pid is written to a new lock file.
CreateBlank(p) ==
    /\ dir
    /\ lock = Nobody
    /\ lock' = p
    /\ Goto(p, "hold")

\* open_new_lock: O_EXCL decides between the processes at the path.
CreateNew(p) ==
    /\ dir
    /\ lock = Nobody
    /\ lock' = p
    /\ Goto(p, "write")

Create(p) ==
    /\ pc[p] = "create"
    /\ CreateNew(p)
    /\ UNCHANGED <<dir, inked, pid, end, alone>>

CreateFails(p) ==
    /\ pc[p] = "create"
    /\ ~dir \/ lock # Nobody
    /\ Goto(p, "read")
    /\ UNCHANGED <<dir, lock, inked, pid, end, alone>>

\* write_lock_metadata writes to the open file, wherever its name has gone.
Write(p) ==
    /\ pc[p] = "write"
    /\ inked' = inked \cup {p}
    /\ Goto(p, "hold")
    /\ UNCHANGED <<dir, lock, pid, end, alone>>

\* clear_stale_lock_if_any: without a file, or without a pid in it, the
\* first error is returned.
Read(p) ==
    /\ pc[p] = "read"
    /\ IF lock # Nobody /\ lock \in inked
       THEN /\ pid' = [pid EXCEPT ![p] = lock]
            /\ Goto(p, "probe")
       ELSE /\ UNCHANGED pid
            /\ Goto(p, "refused")
    /\ UNCHANGED <<dir, lock, inked, end, alone>>

\* Mutant: the process in the lock file is taken for dead.
ProbeNobody(p) ==
    /\ pc[p] = "probe"
    /\ Goto(p, "unlink")
    /\ UNCHANGED <<dir, lock, inked, pid, end, alone>>

\* Mutant: the process in the lock file is taken to be alive.
ProbeEverybody(p) ==
    /\ pc[p] = "probe"
    /\ Goto(p, "refused")
    /\ UNCHANGED <<dir, lock, inked, pid, end, alone>>

\* process_is_alive.
Probe(p) ==
    /\ pc[p] = "probe"
    /\ Goto(p, IF Alive(pid[p]) THEN "refused" ELSE "unlink")
    /\ UNCHANGED <<dir, lock, inked, pid, end, alone>>

\* The file at the path is removed, whoever made it; without one the removal
\* fails and with it the run.
Unlink(p) ==
    /\ pc[p] = "unlink"
    /\ lock' = Nobody
    /\ Goto(p, IF lock = Nobody THEN "refused" ELSE "recreate")
    /\ UNCHANGED <<dir, inked, pid, end, alone>>

Recreate(p) ==
    /\ pc[p] = "recreate"
    /\ \/ CreateNew(p)
       \/ /\ ~dir \/ lock # Nobody
          /\ Goto(p, "refused")
          /\ UNCHANGED lock
    /\ UNCHANGED <<dir, inked, pid, end, alone>>

-----------------------------------------------------------------------------
(* The end of a run.                                                       *)

FinishRun(p) ==
    /\ pc[p] = "hold"
    /\ Serial => Quiet
    /\ \E e \in Ends : end' = [end EXCEPT ![p] = e]
    /\ Goto(p, "drop")
    /\ UNCHANGED <<dir, lock, inked, pid, alone>>

\* Drop of DestinationLock removes the file at the path, whoever made it.
Drop(p) ==
    /\ pc[p] = "drop"
    /\ lock' = Nobody
    /\ Goto(p, IF end[p] = "success" THEN "clean_files" ELSE "gone")
    /\ UNCHANGED <<dir, inked, pid, end, alone>>

\* If the directory is there, remove_dir_all removes what it finds in it ...
CleanFiles(p) ==
    /\ pc[p] = "clean_files"
    /\ IF dir
       THEN /\ lock' = Nobody
            /\ Goto(p, "clean_dir")
       ELSE /\ UNCHANGED lock
            /\ Goto(p, "gone")
    /\ UNCHANGED <<dir, inked, pid, end, alone>>

\* ... and then the directory, unless something has appeared in it.
CleanDir(p) ==
    /\ pc[p] = "clean_dir"
    /\ dir' = (dir /\ lock # Nobody)
    /\ Goto(p, "gone")
    /\ UNCHANGED <<lock, inked, pid, end, alone>>

Crash(p) ==
    /\ pc[p] \in CrashPoints
    /\ Goto(p, "dead")
    /\ UNCHANGED <<dir, lock, inked, pid, end, alone>>

-----------------------------------------------------------------------------
Init ==
    /\ pc = [p \in Procs |-> "new"]
    /\ dir = FALSE
    /\ lock = Nobody
    /\ inked = {}
    /\ pid = [p \in Procs |-> Nobody]
    /\ end = [p \in Procs |-> "error"]
    /\ alone = {}

Step(p) ==
    \/ Start(p) \/ MakeDir(p)
    \/ Create(p) \/ CreateFails(p) \/ Write(p)
    \/ Read(p) \/ Probe(p) \/ Unlink(p) \/ Recreate(p)
    \/ FinishRun(p) \/ Drop(p) \/ CleanFiles(p) \/ CleanDir(p)

Next == \E p \in Procs : Step(p) \/ Crash(p)

Spec == Init /\ [][Next]_vars

-----------------------------------------------------------------------------
\* The type of every variable; the lock file of whoever works holds a pid, or
\* nobody could recover the lock after a crash.
TypeOK ==
    /\ pc \in [Procs -> Points]
    /\ dir \in BOOLEAN
    /\ lock \in Procs \cup {Nobody}
    /\ inked \subseteq Procs
    /\ pid \in [Procs -> Procs \cup {Nobody}]
    /\ \A p \in Procs : pc[p] = "probe" => pid[p] # Nobody
    /\ \A p \in Procs : pc[p] = "hold" => p \in inked
    /\ end \in [Procs -> {"error", "success"}]
    /\ alone \subseteq Procs

\* Two processes never work on the same destination (DestinationLock; the test
\* destination_lock_is_exclusive).
MutualExclusion ==
    \A p, q \in Procs : pc[p] = "hold" /\ pc[q] = "hold" => p = q

\* A process that works owns the lock file at the path, its pid is in it, and
\* the state directory is there: nobody else's recovery or cleanup took them.
HolderKeepsLock ==
    \A p \in Procs : pc[p] = "hold" => lock = p /\ p \in inked /\ dir

\* A process that starts when no other one runs gets the lock, whatever file
\* the dead have left (clear_stale_lock_if_any; the test
\* stale_destination_lock_is_recovered).
AloneGetsLock == \A p \in alone : pc[p] # "refused"

=============================================================================
