----------------------- MODULE DestinationLock_proofs -----------------------
(***************************************************************************)
(* Proofs about DestinationLock, for every set of processes: who works     *)
(* works alone and keeps its lock, and who comes alone gets it, if         *)
(* processes do not overlap while they acquire the lock or clean up.       *)
(***************************************************************************)
EXTENDS DestinationLock, TLAPS

Busy(p) == pc[p] \in Acquiring \cup CleaningUp

\* The steps, one by one.
LEMMA StepCases ==
    ASSUME Next
    PROVE  \E p \in Procs :
             \/ Start(p) \/ MakeDir(p)
             \/ Create(p) \/ CreateFails(p) \/ Write(p)
             \/ Read(p) \/ Probe(p) \/ Unlink(p) \/ Recreate(p)
             \/ FinishRun(p) \/ Drop(p) \/ CleanFiles(p) \/ CleanDir(p)
             \/ Crash(p)
BY DEF Next, Step

\* The types, in the initial state ...
LEMMA TypeInit == Init => TypeOK
BY DEF Init, TypeOK, Points

\* ... and in every step.
LEMMA TypeStep == TypeOK /\ [Next]_vars => TypeOK'
<1>. SUFFICES ASSUME TypeOK, [Next]_vars PROVE TypeOK'
  OBVIOUS
<1>1. CASE UNCHANGED vars
  BY <1>1 DEF vars, TypeOK
<1>2. ASSUME NEW p \in Procs,
             \/ Start(p) \/ MakeDir(p) \/ Create(p) \/ CreateFails(p) \/ Write(p)
      PROVE  TypeOK'
  <2>1. CASE Start(p)
    BY <2>1 DEF Start, Goto, TypeOK, Points
  <2>2. CASE MakeDir(p)
    BY <2>2 DEF MakeDir, Goto, TypeOK, Points
  <2>3. CASE Create(p)
    BY <2>3 DEF Create, CreateNew, Goto, TypeOK, Points
  <2>4. CASE CreateFails(p)
    BY <2>4 DEF CreateFails, Goto, TypeOK, Points
  <2>5. CASE Write(p)
    BY <2>5 DEF Write, Goto, TypeOK, Points
  <2>. QED BY <1>2, <2>1, <2>2, <2>3, <2>4, <2>5
<1>3. ASSUME NEW p \in Procs, \/ Read(p) \/ Probe(p) \/ Unlink(p) \/ Recreate(p)
      PROVE  TypeOK'
  <2>1. CASE Read(p)
    BY <2>1 DEF Read, Goto, TypeOK, Points
  <2>2. CASE Probe(p)
    BY <2>2 DEF Probe, Goto, TypeOK, Points
  <2>3. CASE Unlink(p)
    BY <2>3 DEF Unlink, Goto, TypeOK, Points
  <2>4. CASE Recreate(p)
    BY <2>4 DEF Recreate, CreateNew, Goto, TypeOK, Points
  <2>. QED BY <1>3, <2>1, <2>2, <2>3, <2>4
<1>4. ASSUME NEW p \in Procs,
             \/ FinishRun(p) \/ Drop(p) \/ CleanFiles(p) \/ CleanDir(p) \/ Crash(p)
      PROVE  TypeOK'
  <2>1. CASE FinishRun(p)
    BY <2>1, LockAssumption DEF FinishRun, Goto, TypeOK, Points
  <2>2. CASE Drop(p)
    BY <2>2 DEF Drop, Goto, TypeOK, Points
  <2>3. CASE CleanFiles(p)
    BY <2>3 DEF CleanFiles, Goto, TypeOK, Points
  <2>4. CASE CleanDir(p)
    BY <2>4 DEF CleanDir, Goto, TypeOK, Points
  <2>5. CASE Crash(p)
    BY <2>5 DEF Crash, Goto, TypeOK, Points
  <2>. QED BY <1>4, <2>1, <2>2, <2>3, <2>4, <2>5
<1>. QED BY <1>1, <1>2, <1>3, <1>4, StepCases

\* The variables keep their types, and who works has written its pid.
THEOREM TypeCorrect == Spec => []TypeOK
BY TypeInit, TypeStep, PTL DEF Spec

-----------------------------------------------------------------------------
(* Mutual exclusion.                                                       *)

\* Only one process is about the lock file, and what it knows of it is true:
\* nobody else removes or makes one in between.
LockInv ==
    /\ TypeOK
    /\ \A p, q \in Procs : Busy(p) /\ Busy(q) => p = q
    /\ lock # Nobody => pc[lock] # "new"
    /\ \A p \in Procs :
         /\ pc[p] = "hold" => lock = p /\ dir
         /\ pc[p] = "write" => lock = p /\ dir
         /\ pc[p] \in {"probe", "unlink"} => lock = pid[p] /\ pid[p] # Nobody
         /\ pc[p] = "unlink" => pc[pid[p]] \in Ended
         /\ pc[p] = "drop" => lock = p
         /\ pc[p] \in {"recreate", "clean_files", "clean_dir"} => lock = Nobody

\* What is known of the lock, in the initial state ...
LEMMA LockInit == Init => LockInv
BY TypeInit DEF Init, LockInv, Busy, Acquiring, CleaningUp

USE LockAssumption

\* ... and in every step.
LEMMA LockStep ==
    ASSUME Serial, LockInv, [Next]_vars
    PROVE  LockInv'
<1>0. TypeOK'
  BY TypeStep DEF LockInv
<1>1. CASE UNCHANGED vars
  BY <1>0, <1>1 DEF vars, LockInv, Busy
<1>2. ASSUME NEW p \in Procs,
             \/ Start(p) \/ MakeDir(p) \/ Create(p) \/ CreateFails(p) \/ Write(p)
      PROVE  LockInv'
  <2>1. CASE Start(p)
    BY <1>0, <2>1 DEF Start, Goto, Quiet, LockInv, TypeOK, Busy, Acquiring, CleaningUp, Ended
  <2>2. CASE MakeDir(p)
    BY <1>0, <2>2 DEF MakeDir, Goto, LockInv, TypeOK, Busy, Acquiring, CleaningUp, Ended
  <2>3. CASE Create(p)
    BY <1>0, <2>3 DEF Create, CreateNew, Goto, LockInv, TypeOK, Busy, Acquiring, CleaningUp, Ended
  <2>4. CASE CreateFails(p)
    BY <1>0, <2>4 DEF CreateFails, Goto, LockInv, TypeOK, Busy, Acquiring, CleaningUp, Ended
  <2>5. CASE Write(p)
    BY <1>0, <2>5 DEF Write, Goto, LockInv, TypeOK, Busy, Acquiring, CleaningUp, Ended
  <2>. QED BY <1>2, <2>1, <2>2, <2>3, <2>4, <2>5
<1>3. ASSUME NEW p \in Procs, \/ Read(p) \/ Probe(p) \/ Unlink(p) \/ Recreate(p)
      PROVE  LockInv'
  <2>1. CASE Read(p)
    BY <1>0, <2>1 DEF Read, Goto, LockInv, TypeOK, Busy, Acquiring, CleaningUp, Ended
  <2>2. CASE Probe(p)
    BY <1>0, <2>2 DEF Probe, Alive, Goto, LockInv, TypeOK, Busy, Acquiring, CleaningUp, Ended
  <2>3. CASE Unlink(p)
    BY <1>0, <2>3 DEF Unlink, Goto, LockInv, TypeOK, Busy, Acquiring, CleaningUp, Ended
  <2>4. CASE Recreate(p)
    BY <1>0, <2>4 DEF Recreate, CreateNew, Goto, LockInv, TypeOK, Busy, Acquiring, CleaningUp, Ended
  <2>. QED BY <1>3, <2>1, <2>2, <2>3, <2>4
<1>4. ASSUME NEW p \in Procs,
             \/ FinishRun(p) \/ Drop(p) \/ CleanFiles(p) \/ CleanDir(p) \/ Crash(p)
      PROVE  LockInv'
  <2>1. CASE FinishRun(p)
    BY <1>0, <2>1 DEF FinishRun, Quiet, Goto, LockInv, TypeOK, Busy, Acquiring, CleaningUp, Ended
  <2>2. CASE Drop(p)
    BY <1>0, <2>2 DEF Drop, Goto, LockInv, TypeOK, Busy, Acquiring, CleaningUp, Ended
  <2>3. CASE CleanFiles(p)
    BY <1>0, <2>3 DEF CleanFiles, Goto, LockInv, TypeOK, Busy, Acquiring, CleaningUp, Ended
  <2>4. CASE CleanDir(p)
    BY <1>0, <2>4 DEF CleanDir, Goto, LockInv, TypeOK, Busy, Acquiring, CleaningUp, Ended
  <2>5. CASE Crash(p)
    BY <1>0, <2>5 DEF Crash, Goto, LockInv, TypeOK, Busy, Acquiring, CleaningUp, Ended
  <2>. QED BY <1>4, <2>1, <2>2, <2>3, <2>4, <2>5
<1>. QED BY <1>1, <1>2, <1>3, <1>4, StepCases

\* When processes do not overlap while they acquire or clean up, the lock
\* file says who works, wherever processes are killed.
THEOREM Invariance == Serial => (Spec => []LockInv)
<1>. SUFFICES ASSUME Serial PROVE Spec => []LockInv
  OBVIOUS
<1>1. LockInv /\ [Next]_vars => LockInv'
  BY LockStep
<1>. QED BY <1>1, LockInit, PTL DEF Spec

\* Then two processes never work on the same destination.
THEOREM MutualExclusionHolds == Serial => (Spec => []MutualExclusion)
<1>1. LockInv => MutualExclusion
  BY DEF LockInv, MutualExclusion
<1>. QED BY <1>1, Invariance, PTL

\* And who works keeps its lock file, with its pid, and its directory.
THEOREM HolderKeepsLockHolds == Serial => (Spec => []HolderKeepsLock)
<1>1. LockInv => HolderKeepsLock
  BY DEF LockInv, TypeOK, HolderKeepsLock
<1>. QED BY <1>1, Invariance, PTL

-----------------------------------------------------------------------------
(* Recovery.                                                               *)

\* What a process that came alone finds is a lock file of somebody dead, with
\* a pid in it.
AloneInv ==
    /\ LockInv
    /\ AloneGetsLock
    /\ lock # Nobody => lock \in inked \/ pc[lock] = "write"
    /\ \A p \in Procs :
         /\ pc[p] = "new" => p \notin alone
         /\ pc[p] \in {"new", "mkdir", "create", "read", "probe", "unlink"} => lock # p
         /\ pc[p] \in {"create", "read", "probe", "unlink", "recreate"} => dir
         /\ pc[p] = "read" => lock # Nobody
         /\ p \in alone /\ pc[p] \in Acquiring => \A q \in Procs : Alive(q) => q = p

\* The same for one that works alone, in the initial state ...
LEMMA AloneInit == Init => AloneInv
BY LockInit DEF Init, AloneInv, AloneGetsLock, Acquiring

\* ... and in every step.
LEMMA AloneStep ==
    ASSUME Serial, "write" \notin CrashPoints, AloneInv, [Next]_vars
    PROVE  AloneInv'
<1>0. LockInv'
  BY LockStep DEF AloneInv
<1>1. CASE UNCHANGED vars
  BY <1>0, <1>1 DEF vars, AloneInv, AloneGetsLock, Alive
<1>2. ASSUME NEW p \in Procs,
             \/ Start(p) \/ MakeDir(p) \/ Create(p) \/ CreateFails(p) \/ Write(p)
      PROVE  AloneInv'
  <2>1. CASE Start(p)
    BY <1>0, <2>1 DEF Start, Goto, Quiet, AloneInv, AloneGetsLock, LockInv, TypeOK, Alive, Busy, Acquiring, CleaningUp, Ended
  <2>2. CASE MakeDir(p)
    BY <1>0, <2>2 DEF MakeDir, Goto, AloneInv, AloneGetsLock, LockInv, TypeOK, Alive, Acquiring, Ended
  <2>3. CASE Create(p)
    BY <1>0, <2>3 DEF Create, CreateNew, Goto, AloneInv, AloneGetsLock, LockInv, TypeOK, Alive, Acquiring, Ended
  <2>4. CASE CreateFails(p)
    BY <1>0, <2>4 DEF CreateFails, Goto, AloneInv, AloneGetsLock, LockInv, TypeOK, Alive, Acquiring, Ended
  <2>5. CASE Write(p)
    BY <1>0, <2>5 DEF Write, Goto, AloneInv, AloneGetsLock, LockInv, TypeOK, Alive, Acquiring, Ended
  <2>. QED BY <1>2, <2>1, <2>2, <2>3, <2>4, <2>5
<1>3. ASSUME NEW p \in Procs, \/ Read(p) \/ Probe(p) \/ Unlink(p) \/ Recreate(p)
      PROVE  AloneInv'
  <2>1. CASE Read(p)
    BY <1>0, <2>1 DEF Read, Goto, AloneInv, AloneGetsLock, LockInv, TypeOK, Alive, Busy, Acquiring, CleaningUp, Ended
  <2>2. CASE Probe(p)
    BY <1>0, <2>2 DEF Probe, Goto, AloneInv, AloneGetsLock, LockInv, TypeOK, Alive, Acquiring, Ended
  <2>3. CASE Unlink(p)
    BY <1>0, <2>3 DEF Unlink, Goto, AloneInv, AloneGetsLock, LockInv, TypeOK, Alive, Busy, Acquiring, CleaningUp, Ended
  <2>4. CASE Recreate(p)
    BY <1>0, <2>4 DEF Recreate, CreateNew, Goto, AloneInv, AloneGetsLock, LockInv, TypeOK, Alive, Acquiring, Ended
  <2>. QED BY <1>3, <2>1, <2>2, <2>3, <2>4
<1>4. ASSUME NEW p \in Procs,
             \/ FinishRun(p) \/ Drop(p) \/ CleanFiles(p) \/ CleanDir(p) \/ Crash(p)
      PROVE  AloneInv'
  <2>1. CASE FinishRun(p)
    BY <1>0, <2>1 DEF FinishRun, Quiet, Goto, AloneInv, AloneGetsLock, LockInv, TypeOK, Alive, Acquiring, CleaningUp, Ended
  <2>2. CASE Drop(p)
    BY <1>0, <2>2 DEF Drop, Goto, AloneInv, AloneGetsLock, LockInv, TypeOK, Alive, Busy, Acquiring, CleaningUp, Ended
  <2>3. CASE CleanFiles(p)
    BY <1>0, <2>3 DEF CleanFiles, Goto, AloneInv, AloneGetsLock, LockInv, TypeOK, Alive, Acquiring, Ended
  <2>4. CASE CleanDir(p)
    BY <1>0, <2>4 DEF CleanDir, Goto, AloneInv, AloneGetsLock, LockInv, TypeOK, Alive, Busy, Acquiring, CleaningUp, Ended
  <2>5. CASE Crash(p)
    BY <1>0, <2>5 DEF Crash, Goto, AloneInv, AloneGetsLock, LockInv, TypeOK, Alive, Acquiring, Ended
  <2>. QED BY <1>4, <2>1, <2>2, <2>3, <2>4, <2>5
<1>. QED BY <1>1, <1>2, <1>3, <1>4, StepCases

\* When moreover no process is killed between creating its lock file and
\* writing its pid, a process that starts when no other one runs gets the
\* lock, whatever the dead have left.
THEOREM AloneGetsLockHolds ==
    Serial /\ "write" \notin CrashPoints => (Spec => []AloneGetsLock)
<1>. SUFFICES ASSUME Serial, "write" \notin CrashPoints
              PROVE  Spec => []AloneGetsLock
  OBVIOUS
<1>1. AloneInv /\ [Next]_vars => AloneInv'
  BY AloneStep
<1>2. AloneInv => AloneGetsLock
  BY DEF AloneInv
<1>. QED BY <1>1, <1>2, AloneInit, PTL DEF Spec

=============================================================================
