-------------------------- MODULE TreeSync_proofs --------------------------
(***************************************************************************)
(* Proofs about TreeSync, for every tree, every sequence of source trees   *)
(* and every number of workers.                                            *)
(***************************************************************************)
EXTENDS TreeSync, FiniteSetTheorems, Induction, TLAPS

\* Every step is one of these, for one path or for none.
LEMMA StepCases ==
    ASSUME [Next]_vars
    PROVE  \/ Start \/ ClearFlag \/ ListEntries \/ PlanRefused \/ Planned
           \/ WorkDone \/ Cleanup \/ SourceChange \/ Kill \/ Interrupt \/ RunBreaks
           \/ UNCHANGED vars
           \/ \E p \in Paths :
                \/ PlanDir(p) \/ SkipLink(p) \/ PlanUnlink(p) \/ PlanLink(p) \/ PlanFile(p)
                \/ phase = "working" /\ ( \/ Begin(p) \/ RdmaUnavailable(p) \/ RdmaDeclined(p)
                                         \/ Copy(p) \/ CopyGivesUp(p) \/ Place(p)
                                         \/ Stamp(p) \/ Finish(p) )
                \/ JobFails(p)
BY DEF Next, Proceed, Plan, Work

-----------------------------------------------------------------------------
(* Types.                                                                  *)

\* Putting a node into the destination leaves it a tree of nodes.
LEMMA PutType ==
    ASSUME dest \in [Paths -> Node], NEW p \in Paths, NEW node \in Node
    PROVE  Put(p, node) \in [Paths -> Node]
BY TreeAssumption DEF Put, Node

\* What the runs put into the destination are nodes.
LEMMA NodeFacts ==
    /\ Absent \in Node
    /\ \A t, m : t \in Nat /\ m \in {"rw", "ro"} =>
         [kind |-> "dir", ver |-> 0, mtime |-> t, mode |-> m] \in Node
    /\ \A v : v \in Nat =>
         /\ [kind |-> "link", ver |-> v, mtime |-> Now, mode |-> "rw"] \in Node
         /\ [kind |-> "file", ver |-> v, mtime |-> Now, mode |-> "rw"] \in Node
BY TreeAssumption DEF Absent, Node, Kinds

\* Times and modes may be set.
LEMMA SetType ==
    ASSUME dest \in [Paths -> Node], seen \in [Paths -> Node], NEW p \in Paths
    PROVE  /\ [dest EXCEPT ![p].mtime = seen[p].mtime] \in [Paths -> Node]
           /\ [dest EXCEPT ![p].mode = Mode(p)] \in [Paths -> Node]
           /\ [dest EXCEPT ![p].mtime = seen[p].mtime, ![p].mode = Mode(p)] \in [Paths -> Node]
<1>1. dest[p] \in Node /\ seen[p].mtime \in Nat /\ Mode(p) \in {"rw", "ro"}
  BY DEF Mode, Node
<1>2. /\ [dest[p] EXCEPT !.mtime = seen[p].mtime] \in Node
      /\ [dest[p] EXCEPT !.mode = Mode(p)] \in Node
  BY <1>1 DEF Node
<1>3. [dest[p] EXCEPT !.mtime = seen[p].mtime, !.mode = Mode(p)] \in Node
  BY <1>1 DEF Node
<1>. QED BY <1>1, <1>2, <1>3

\* The types, in the initial state ...
LEMMA TypeInit == ASSUME Init PROVE TypeOK
<1>1. 1 \in DOMAIN Trees
  BY TreeAssumption
<1>2. faults \in 0 .. MaxFaults /\ signals \in 0 .. 2
  BY RunAssumption DEF Init
<1>3. dest \in [Paths -> Node] /\ seen \in [Paths -> Node]
  BY TreeAssumption, NodeFacts DEF Init
<1>. QED BY <1>1, <1>2, <1>3 DEF Init, TypeOK, Phases, Stages

\* ... and in every step.
LEMMA TypeStep == ASSUME TypeOK, [Next]_vars PROVE TypeOK'
<1>. USE DEF TypeOK, Phases
<1>1. CASE PlanRefused \/ Planned \/ WorkDone \/ UNCHANGED vars
  BY <1>1 DEF PlanRefused, Planned, WorkDone, End, vars, run
<1>f. CASE ClearFlag
  <2>1. flag' \in BOOLEAN
    BY <1>f DEF ClearFlag
  <2>. QED BY <1>f, <2>1 DEF ClearFlag
<1>s. CASE Start
  <2>1. flag' \in BOOLEAN /\ disabled' \in BOOLEAN /\ hurt' \in BOOLEAN
    BY <1>s DEF Start
  <2>2. seen' \in [Paths -> Node] /\ at' \in [Paths -> Stages]
    BY <1>s, NodeFacts DEF Start, Stages
  <2>. QED BY <1>s, <2>1, <2>2 DEF Start
<1>c. CASE Cleanup
  BY <1>c DEF Cleanup, End
<1>e. Fault => faults' \in 0 .. MaxFaults /\ hurt' \in BOOLEAN
  BY RunAssumption DEF Fault
<1>k. CASE Kill \/ RunBreaks
  BY <1>k, <1>e DEF Kill, RunBreaks, End
<1>i. CASE Interrupt
  <2>1. signals \in 0 .. 1
    BY <1>i DEF Interrupt, Fault
  <2>2. signals' \in 0 .. 2 /\ (signals' >= 2 \/ signals' <= 1)
    BY <2>1, <1>i DEF Interrupt
  <2>. QED BY <1>i, <1>e, <2>2 DEF Interrupt, End
<1>2. CASE SourceChange
  BY <1>2, TreeAssumption DEF SourceChange
<1>3. CASE ListEntries
  <2>1. Trees[src] \in [Paths -> Node]
    BY TreeAssumption
  <2>. QED BY <1>3, <2>1, NodeFacts DEF ListEntries, Stages
<1>4. ASSUME NEW p \in Paths,
             \/ PlanDir(p) \/ SkipLink(p) \/ PlanUnlink(p) \/ PlanLink(p) \/ PlanFile(p)
             \/ Begin(p) \/ RdmaUnavailable(p) \/ RdmaDeclined(p) \/ Copy(p)
             \/ CopyGivesUp(p) \/ Place(p) \/ Stamp(p) \/ Finish(p) \/ JobFails(p)
      PROVE  TypeOK'
  <2>1. /\ seen[p].ver \in Nat /\ seen[p].mtime \in Nat /\ seen[p].mode \in {"rw", "ro"}
        /\ part[p] \in Nat /\ Trees[src][p].ver \in Nat
    BY TreeAssumption DEF Node
  <2>2. CASE PlanDir(p)
    BY <2>1, <2>2, PutType, NodeFacts, SetType DEF PlanDir, Reach, Stages
  <2>3. CASE SkipLink(p)
    BY <2>3 DEF SkipLink, Reach, Stages
  <2>p. CASE PlanFile(p)
    BY <2>p, SetType DEF PlanFile, Reach, Stages
  <2>4. CASE PlanUnlink(p)
    BY <2>4, PutType, NodeFacts DEF PlanUnlink, Reach, Stages
  <2>l. CASE PlanLink(p)
    <3>1. Put(p, [kind |-> "link", ver |-> seen[p].ver, mtime |-> Now, mode |-> "rw"])
            \in [Paths -> Node]
      BY <2>1, PutType, NodeFacts
    <3>. QED BY <2>l, <3>1 DEF PlanLink, Reach, Stages
  <2>5. CASE Begin(p) \/ RdmaDeclined(p) \/ CopyGivesUp(p)
    BY <2>5 DEF Begin, RdmaDeclined, CopyGivesUp, Reach, Stages
  <2>r. CASE RdmaUnavailable(p)
    BY <2>r DEF RdmaUnavailable, Reach, Stages
  <2>c. CASE Copy(p)
    BY <2>1, <2>c DEF Copy, Reach, Stages
  <2>6. CASE Place(p)
    <3>1. Put(p, [kind |-> "file", ver |-> part[p], mtime |-> Now, mode |-> "rw"])
            \in [Paths -> Node]
      BY <2>1, PutType, NodeFacts
    <3>2. dest' \in [Paths -> Node] /\ part' \in [Paths -> Nat]
      BY <2>6, <3>1 DEF Place
    <3>3. at' \in [Paths -> Stages]
      BY <2>6 DEF Place, Reach, Stages
    <3>. QED BY <2>6, <3>2, <3>3 DEF Place, Reach
  <2>7. CASE Stamp(p)
    BY <2>7, SetType DEF Stamp, Reach, Stages
  <2>9. CASE Finish(p)
    BY <2>9, SetType DEF Finish, Reach, Stages
  <2>8. CASE JobFails(p)
    BY <2>8, <1>e DEF JobFails, Stages
  <2>. QED BY <1>4, <2>2, <2>3, <2>p, <2>4, <2>l, <2>5, <2>r, <2>c, <2>6, <2>7, <2>8, <2>9
<1>. HIDE DEF TypeOK, Phases
<1>. QED BY <1>1, <1>f, <1>s, <1>c, <1>k, <1>i, <1>2, <1>3, <1>4, StepCases

\* The variables of TreeSync keep their types, and a process that has taken
\* two signals is gone.
THEOREM TypeCorrect == Spec => []TypeOK
BY TypeInit, TypeStep, PTL DEF Spec

-----------------------------------------------------------------------------
(* Nothing is written through links: the directories a listed path is in   *)
(* are listed, are planned before it, and stay directories.                *)

\* What is listed is in listed directories.
ListedTree ==
    \A p \in Paths : seen[p].kind # "none" => \A q \in Above[p] : seen[q].kind = "dir"

\* How far a path can be, by what is listed there.
ListedAt ==
    \A p \in Paths :
        /\ seen[p].kind = "dir" => at[p] \in {"listed", "done"}
        /\ seen[p].kind = "none" <=> at[p] = "none"
        /\ at[p] = "unlinked" => seen[p].kind = "link" /\ dest[p].kind = "none"

\* Directories come first in the plan.
DirsFirst ==
    \A p \in Paths : at[p] \notin {"none", "listed"} => \A q \in Above[p] : at[q] = "done"

DirsMade ==
    \A p \in Paths : seen[p].kind = "dir" /\ at[p] = "done" /\ ~opt.dry => dest[p].kind = "dir"

\* A dry run copies nothing and makes no link.
Dry == {"none", "listed", "queued", "done", "failed"}
DryStays == opt.dry => \A p \in Paths : at[p] \in Dry

TreeInv == /\ TypeOK /\ NothingThroughLinks
           /\ ListedTree /\ ListedAt /\ DirsFirst /\ DirsMade /\ DryStays

\* The kinds of the nodes are all these invariants see of the destination.
LEMMA SameKinds ==
    ASSUME TreeInv, TypeOK', seen' = seen, at' = at, opt' = opt,
           \A q \in Paths : dest'[q].kind = dest[q].kind
    PROVE  TreeInv'
BY PathAssumption
   DEF TreeInv, NothingThroughLinks, WellFormed, ListedTree, ListedAt, DirsFirst, DirsMade, DryStays

\* The directories a path is in when its turn has come.
LEMMA Surroundings ==
    ASSUME TreeInv, NEW p \in Paths, ~opt.dry,
           Current(p) \/ at[p] \notin {"none", "listed"}
    PROVE  \A q \in Above[p] : q \in Paths /\ at[q] = "done" /\ dest[q].kind = "dir"
<1>1. Above[p] \subseteq Paths /\ \A q \in Above[p] : q < p
  BY PathAssumption
<1>2. at[p] # "none"
  BY DEF Current, Unplanned
<1>3. \A q \in Above[p] : seen[q].kind = "dir" /\ at[q] \in {"listed", "done"}
  BY <1>1, <1>2 DEF TreeInv, ListedTree, ListedAt
<1>4. \A q \in Above[p] : at[q] = "done"
  <2>1. CASE Current(p)
    <3>1. \A q \in Above[p] : q \notin Unplanned
      BY <1>1, <2>1 DEF Current, Paths
    <3>. QED BY <1>1, <1>3, <3>1 DEF Unplanned
  <2>2. CASE at[p] \notin {"none", "listed"}
    BY <2>2 DEF TreeInv, DirsFirst
  <2>. QED BY <2>1, <2>2
<1>. QED BY <1>1, <1>3, <1>4 DEF TreeInv, DirsMade

\* The same without the question of what is there, for a dry run as well.
LEMMA DirsPlanned ==
    ASSUME TreeInv, NEW p \in Paths, Current(p) \/ at[p] \notin {"none", "listed"}
    PROVE  \A q \in Above[p] : q \in Paths /\ at[q] = "done"
<1>1. Above[p] \subseteq Paths /\ \A q \in Above[p] : q < p
  BY PathAssumption
<1>2. \A q \in Above[p] : at[q] \in {"listed", "done"}
  BY <1>1 DEF TreeInv, ListedTree, ListedAt, Current, Unplanned
<1>3. CASE Current(p)
  <2>1. \A q \in Above[p] : q \notin Unplanned
    BY <1>1, <1>3 DEF Current, Paths
  <2>. QED BY <1>1, <1>2, <2>1 DEF Unplanned
<1>4. CASE at[p] \notin {"none", "listed"}
  BY <1>1, <1>4 DEF TreeInv, DirsFirst
<1>. QED BY <1>3, <1>4

\* A path goes on to a stage past "listed", and the destination changes in
\* that path alone, if at all.
LEMMA OnePathMoves ==
    ASSUME TreeInv, TypeOK', NEW p \in Paths, NEW stage \in Stages,
           Current(p) \/ at[p] \notin {"none", "listed"},
           seen' = seen, opt' = opt, at' = [at EXCEPT ![p] = stage],
           at[p] # "done", stage \notin {"none", "listed"},
           seen[p].kind = "dir" => stage = "done", opt.dry => stage \in Dry,
           stage = "unlinked" => seen[p].kind = "link" /\ dest'[p].kind = "none",
           \A q \in Paths : q # p => dest'[q].kind = dest[q].kind,
           \/ dest'[p].kind = dest[p].kind
           \/ ~opt.dry /\ dest[p].kind # "dir",
           seen[p].kind = "dir" /\ ~opt.dry => dest'[p].kind = "dir"
    PROVE  TreeInv'
<1>. USE PathAssumption
<1>1. at[p] # "none" /\ seen[p].kind # "none"
  BY DEF Current, Unplanned, TreeInv, ListedAt
<1>2. at' \in [Paths -> Stages] /\ at'[p] = stage
      /\ \A q \in Paths : q # p => at'[q] = at[q]
  BY DEF TreeInv, TypeOK
<1>3. ListedTree'
  BY DEF TreeInv, ListedTree
<1>4. ListedAt'
  BY <1>1, <1>2 DEF TreeInv, ListedAt
<1>5. DirsFirst'
  <2>1. \A q \in Paths : at[q] = "done" => at'[q] = "done"
    BY <1>2
  <2>. QED BY <1>2, <2>1, DirsPlanned DEF TreeInv, DirsFirst
<1>6. DirsMade'
  BY <1>2 DEF TreeInv, DirsMade
<1>7. NothingThroughLinks'
  <2>. SUFFICES ASSUME NEW r \in Paths, dest'[r].kind # "none", NEW q \in Above[r]
                PROVE  dest'[q].kind = "dir"
    BY DEF NothingThroughLinks, WellFormed
  <2>1. q \in Paths /\ q < r /\ q # r
    BY DEF Paths
  <2>2. dest[r].kind # "none" => dest[q].kind = "dir"
    BY DEF TreeInv, NothingThroughLinks, WellFormed
  <2>3. CASE r = p
    BY <2>1, <2>2, <2>3, Surroundings
  <2>4. CASE r # p
    BY <2>1, <2>2, <2>4
  <2>. QED BY <2>3, <2>4
<1>8. DryStays'
  BY <1>2 DEF TreeInv, DryStays
<1>. QED BY <1>3, <1>4, <1>5, <1>6, <1>7, <1>8 DEF TreeInv

\* What Put and the setting of times and modes do to kinds.
LEMMA PutKinds ==
    ASSUME dest \in [Paths -> Node], NEW p \in Paths, NEW node
    PROVE  /\ Put(p, node)[p] = node
           /\ \A q \in Paths : q # p => Put(p, node)[q].kind = dest[q].kind
BY DEF Put, Node

\* Setting times and modes leaves the kinds alone.
LEMMA SetKinds ==
    ASSUME dest \in [Paths -> Node], NEW p \in Paths, NEW t, NEW m
    PROVE  \A q \in Paths :
             /\ [dest EXCEPT ![p].mtime = t][q].kind = dest[q].kind
             /\ [dest EXCEPT ![p].mode = m][q].kind = dest[q].kind
             /\ [dest EXCEPT ![p].mtime = t, ![p].mode = m][q].kind = dest[q].kind
BY DEF Node

\* What is known of the tree, in the initial state ...
LEMMA TreeInit == ASSUME Init PROVE TreeInv
<1>1. TypeOK
  BY TypeInit
<1>2. NothingThroughLinks
  BY TreeAssumption DEF Init, NothingThroughLinks
<1>. QED BY <1>1, <1>2
     DEF Init, TreeInv, ListedTree, ListedAt, DirsFirst, DirsMade, DryStays, Dry, Absent

\* ... and in every step.
LEMMA TreeStep == ASSUME TreeInv, [Next]_vars PROVE TreeInv'
<1>t. TypeOK /\ TypeOK'
  BY TypeStep DEF TreeInv
<1>. USE <1>t
<1>1. CASE \/ ClearFlag \/ PlanRefused \/ Planned \/ WorkDone \/ Cleanup \/ SourceChange
           \/ Kill \/ Interrupt \/ RunBreaks \/ UNCHANGED vars
  <2>1. UNCHANGED <<dest, seen, at, opt>>
    BY <1>1 DEF ClearFlag, PlanRefused, Planned, WorkDone, Cleanup, SourceChange, Kill,
       Interrupt, RunBreaks, vars, run
  <2>. QED BY <2>1, SameKinds
<1>2. CASE Start
  BY <1>2 DEF Start, TreeInv, NothingThroughLinks, ListedTree, ListedAt, DirsFirst, DirsMade, DryStays, Dry, Absent
<1>3. CASE ListEntries
  <2>1. PICK walk \in BOOLEAN :
          /\ seen' = [p \in Paths |-> IF p \in Found(walk) THEN Trees[src][p] ELSE Absent]
          /\ at' = [p \in Paths |-> IF p \in Found(walk) THEN "listed" ELSE "none"]
    BY <1>3 DEF ListEntries
  <2>2. WellFormed(Trees[src])
    BY TreeAssumption DEF TypeOK
  <2>3. \A p \in Found(walk) : \A q \in Above[p] :
          q \in Found(walk) /\ Trees[src][q].kind = "dir"
    BY <2>2, PathAssumption DEF Found, WellFormed
  <2>4. \A p \in Found(walk) : Trees[src][p].kind # "none"
    BY DEF Found
  <2>5. ListedTree'
    <3>. SUFFICES ASSUME NEW p \in Paths, seen'[p].kind # "none", NEW q \in Above[p]
                  PROVE  seen'[q].kind = "dir"
      BY DEF ListedTree
    <3>1. p \in Found(walk)
      BY <2>1 DEF Absent
    <3>2. q \in Paths
      BY PathAssumption
    <3>. QED BY <2>1, <2>3, <3>1, <3>2
  <2>6. ListedAt' /\ DirsFirst' /\ DirsMade' /\ DryStays'
    BY <2>1, <2>4 DEF ListedAt, DirsFirst, DirsMade, DryStays, Dry, Absent
  <2>. QED BY <1>3, <2>5, <2>6 DEF ListEntries, TreeInv, NothingThroughLinks
<1>4. ASSUME NEW p \in Paths,
             \/ PlanDir(p) \/ SkipLink(p) \/ PlanUnlink(p) \/ PlanLink(p) \/ PlanFile(p)
             \/ Begin(p) \/ RdmaUnavailable(p) \/ RdmaDeclined(p) \/ Copy(p)
             \/ CopyGivesUp(p) \/ Place(p) \/ Stamp(p) \/ Finish(p) \/ JobFails(p)
      PROVE  TreeInv'
  <2>. USE DEF Reach
  <2>1. CASE PlanDir(p)
    <3>1. /\ Current(p) /\ at[p] = "listed" /\ seen[p].kind = "dir" /\ Clear(p)
          /\ at' = [at EXCEPT ![p] = "done"] /\ UNCHANGED <<seen, opt>>
      BY <2>1 DEF PlanDir, Planning
    <3>2. /\ \A q \in Paths : q # p => dest'[q].kind = dest[q].kind
          /\ dest'[p].kind = dest[p].kind \/ (~opt.dry /\ dest[p].kind # "dir")
          /\ ~opt.dry => dest'[p].kind = "dir"
      <4>1. CASE opt.dry
        BY <2>1, <4>1 DEF PlanDir
      <4>2. CASE ~opt.dry /\ dest[p].kind = "none"
        BY <2>1, <4>2, PutKinds DEF PlanDir, TypeOK
      <4>3. CASE ~opt.dry /\ dest[p].kind # "none"
        <5>1. dest[p].kind = "dir"
          BY <3>1, <4>3 DEF Clear
        <5>. QED BY <2>1, <4>3, <5>1, SetKinds DEF PlanDir, TypeOK
      <4>. QED BY <4>1, <4>2, <4>3
    <3>. QED BY <3>1, <3>2, OnePathMoves DEF Stages, Dry
  <2>2. CASE SkipLink(p)
    BY <2>2, OnePathMoves DEF SkipLink, Planning, Stages, Dry
  <2>3. CASE PlanUnlink(p)
    <3>1. /\ Current(p) /\ at[p] = "listed" /\ seen[p].kind = "link" /\ ~opt.dry
          /\ at' = [at EXCEPT ![p] = "unlinked"] /\ UNCHANGED <<seen, opt>>
      BY <2>3 DEF PlanUnlink, Planning
    <3>2. dest[p].kind # "dir"
      BY <2>3, <3>1 DEF PlanUnlink, Refused
    <3>3. /\ \A q \in Paths : q # p => dest'[q].kind = dest[q].kind
          /\ dest'[p].kind = "none"
      BY <2>3, PutKinds DEF PlanUnlink, Absent, TypeOK
    <3>. QED BY <3>1, <3>2, <3>3, OnePathMoves DEF Stages, Dry
  <2>4. CASE PlanLink(p)
    <3>1. /\ Current(p) /\ at[p] = "unlinked" /\ UNCHANGED <<seen, opt>>
          /\ at' = [at EXCEPT ![p] = "done"]
      BY <2>4 DEF PlanLink
    <3>2. dest[p].kind = "none" /\ seen[p].kind = "link"
      BY <3>1 DEF TreeInv, ListedAt
    <3>3. \A q \in Paths : q # p => dest'[q].kind = dest[q].kind
      BY <2>4, PutKinds DEF PlanLink, TypeOK
    <3>4. ~opt.dry
      BY <3>1 DEF TreeInv, DryStays, Dry
    <3>. QED BY <3>1, <3>2, <3>3, <3>4, OnePathMoves DEF Stages, Dry
  <2>5. CASE PlanFile(p)
    <3>1. \A q \in Paths : dest'[q].kind = dest[q].kind
      BY <2>5, SetKinds DEF PlanFile, TypeOK
    <3>. QED BY <2>5, <3>1, OnePathMoves DEF PlanFile, Planning, Stages, Dry
  <2>6. CASE \/ Begin(p) \/ RdmaUnavailable(p) \/ RdmaDeclined(p) \/ Copy(p)
             \/ CopyGivesUp(p) \/ Stamp(p) \/ Finish(p) \/ JobFails(p)
    <3>1. PICK stage \in {"rdma", "copy", "place", "meta", "done", "failed"} :
            at' = [at EXCEPT ![p] = stage]
      BY <2>6 DEF Begin, RdmaUnavailable, RdmaDeclined, Copy, CopyGivesUp, Stamp, Finish, JobFails
    <3>2. at[p] \in {"queued", "rdma", "copy", "place", "stamp", "meta"} /\ UNCHANGED <<seen, opt>>
      BY <2>6 DEF Begin, RdmaUnavailable, RdmaDeclined, Copy, CopyGivesUp, Stamp, Finish,
         JobFails, Active
    <3>5. opt.dry => stage \in Dry
      <4>1. CASE at[p] = "queued"
        BY <2>6, <3>1, <4>1 DEF Begin, RdmaUnavailable, RdmaDeclined, Copy, CopyGivesUp, Stamp,
           Finish, JobFails, Active, TypeOK, Dry
      <4>. QED BY <3>2, <4>1 DEF TreeInv, DryStays, Dry
    <3>3. \A q \in Paths : dest'[q].kind = dest[q].kind
      <4>1. CASE Stamp(p)
        BY <4>1, SetKinds DEF Stamp, TypeOK
      <4>2. CASE Finish(p)
        BY <4>2, SetKinds DEF Finish, TypeOK
      <4>3. CASE \/ Begin(p) \/ RdmaUnavailable(p) \/ RdmaDeclined(p) \/ Copy(p)
                 \/ CopyGivesUp(p) \/ JobFails(p)
        BY <4>3 DEF Begin, RdmaUnavailable, RdmaDeclined, Copy, CopyGivesUp, JobFails
      <4>. QED BY <2>6, <4>1, <4>2, <4>3
    <3>4. seen[p].kind # "dir"
      BY <3>2 DEF TreeInv, ListedAt
    <3>. QED BY <3>1, <3>2, <3>3, <3>4, <3>5, OnePathMoves DEF Stages, Dry
  <2>7. CASE Place(p)
    <3>1. at[p] = "place" /\ UNCHANGED <<seen, opt>>
      BY <2>7 DEF Place
    <3>2. seen[p].kind # "dir"
      BY <3>1 DEF TreeInv, ListedAt
    <3>3. CASE at' = [at EXCEPT ![p] = "failed"] /\ UNCHANGED dest
      BY <3>1, <3>2, <3>3, OnePathMoves DEF Stages, Dry
    <3>4. CASE /\ at' = [at EXCEPT ![p] = "stamp"] /\ dest[p].kind # "dir"
               /\ dest' = Put(p, [kind |-> "file", ver |-> part[p], mtime |-> Now, mode |-> "rw"])
      <4>1. \A q \in Paths : q # p => dest'[q].kind = dest[q].kind
        BY <3>4, PutKinds DEF TypeOK
      <4>2. ~opt.dry
        BY <3>1 DEF TreeInv, DryStays, Dry
      <4>. QED BY <3>1, <3>2, <3>4, <4>1, <4>2, OnePathMoves DEF Stages, Dry
    <3>. QED BY <2>7, <3>3, <3>4 DEF Place
  <2>. QED BY <1>4, <2>1, <2>2, <2>3, <2>4, <2>5, <2>6, <2>7
<1>. QED BY <1>1, <1>2, <1>3, <1>4, StepCases

\* Nothing is ever written through a link of the destination, or into what
\* is not a directory.
THEOREM NothingThroughLinksHolds == Spec => []NothingThroughLinks
<1>1. TreeInv => NothingThroughLinks
  BY DEF TreeInv
<1>. QED BY <1>1, TreeInit, TreeStep, PTL DEF Spec

-----------------------------------------------------------------------------
(* RDMA is given up for the run by the first worker that learns of it; only *)
(* those that had begun before can still ask.                              *)

AtRdma == {p \in Paths : at[p] = "rdma"}

RdmaInv ==
    /\ TypeOK
    /\ Cardinality(Active) <= Jobs
    /\ opt.rdma # "require" /\ ~disabled => probes = 0
    /\ opt.rdma # "require" /\ disabled => probes + Cardinality(AtRdma) <= Jobs

\* The files at work and those at RDMA are counted.
LEMMA Counts ==
    ASSUME TypeOK
    PROVE  /\ IsFiniteSet(Active) /\ IsFiniteSet(AtRdma) /\ AtRdma \subseteq Active
           /\ Cardinality(Active) \in Nat /\ Cardinality(AtRdma) \in Nat
           /\ Cardinality(AtRdma) <= Cardinality(Active)
<1>1. IsFiniteSet(Paths)
  BY PathAssumption, FS_Interval DEF Paths
<1>2. IsFiniteSet(Active) /\ IsFiniteSet(AtRdma) /\ AtRdma \subseteq Active
  BY <1>1, FS_Subset DEF Active, AtRdma
<1>. QED BY <1>2, FS_CardinalityType, FS_Subset

\* When no path becomes active the invariant is kept, unless the flag or
\* the count changes.
LEMMA NoneBegins ==
    ASSUME RdmaInv, TypeOK', Active' \subseteq Active, AtRdma' \subseteq AtRdma,
           UNCHANGED <<opt, disabled, probes>>
    PROVE  RdmaInv'
<1>1. Cardinality(Active') <= Cardinality(Active)
  BY Counts, FS_Subset DEF RdmaInv
<1>2. Cardinality(AtRdma') <= Cardinality(AtRdma)
  BY Counts, FS_Subset DEF RdmaInv
<1>3. /\ Cardinality(Active) \in Nat /\ Cardinality(Active') \in Nat
      /\ Cardinality(AtRdma) \in Nat /\ Cardinality(AtRdma') \in Nat
  BY Counts, <1>1, FS_Subset, FS_CardinalityType DEF RdmaInv
<1>. QED BY <1>1, <1>2, <1>3, RunAssumption DEF RdmaInv, TypeOK

\* What is known of the probes, in the initial state ...
LEMMA RdmaInit == ASSUME Init PROVE RdmaInv
<1>1. TypeOK /\ Active = {} /\ AtRdma = {}
  BY TypeInit DEF Init, Active, AtRdma
<1>. QED BY <1>1, FS_EmptySet, RunAssumption DEF Init, RdmaInv

\* ... and in every step.
LEMMA RdmaStep == ASSUME RdmaInv, [Next]_vars PROVE RdmaInv'
<1>t. TypeOK /\ TypeOK'
  BY TypeStep DEF RdmaInv
<1>. USE <1>t
<1>1. CASE \/ ClearFlag \/ PlanRefused \/ Planned \/ WorkDone \/ Cleanup \/ SourceChange
           \/ Kill \/ Interrupt \/ RunBreaks \/ UNCHANGED vars
  <2>1. UNCHANGED <<at, opt, disabled, probes>>
    BY <1>1 DEF ClearFlag, PlanRefused, Planned, WorkDone, Cleanup, SourceChange, Kill,
       Interrupt, RunBreaks, vars, run
  <2>. QED BY <2>1, NoneBegins DEF Active, AtRdma
<1>2. CASE Start
  <2>1. Active' = {} /\ AtRdma' = {}
    BY <1>2 DEF Start, Active, AtRdma
  <2>. QED BY <1>2, <2>1, FS_EmptySet, RunAssumption DEF Start, RdmaInv
<1>3. CASE ListEntries
  <2>1. Active' = {} /\ AtRdma' = {}
    BY <1>3 DEF ListEntries, Active, AtRdma
  <2>. QED BY <1>3, <2>1, NoneBegins DEF ListEntries
<1>4. ASSUME NEW p \in Paths,
             \/ PlanDir(p) \/ SkipLink(p) \/ PlanUnlink(p) \/ PlanLink(p) \/ PlanFile(p)
             \/ RdmaDeclined(p) \/ Copy(p) \/ CopyGivesUp(p) \/ Place(p) \/ Stamp(p)
             \/ Finish(p) \/ JobFails(p)
      PROVE  RdmaInv'
  <2>1. PICK stage : /\ at' = [at EXCEPT ![p] = stage] /\ stage # "rdma"
                     /\ p \in Active \/ stage \in {"done", "unlinked", "queued"}
    BY <1>4 DEF PlanDir, SkipLink, PlanUnlink, PlanLink, PlanFile, RdmaDeclined, Copy,
       CopyGivesUp, Place, Stamp, Finish, JobFails, Reach, Active
  <2>2. UNCHANGED <<opt, disabled, probes>>
    BY <1>4 DEF PlanDir, SkipLink, PlanUnlink, PlanLink, PlanFile, RdmaDeclined, Copy,
       CopyGivesUp, Place, Stamp, Finish, JobFails, Reach
  <2>3. Active' \subseteq Active /\ AtRdma' \subseteq AtRdma
    BY <2>1 DEF Active, AtRdma, TypeOK
  <2>. QED BY <2>2, <2>3, NoneBegins
<1>5. ASSUME NEW p \in Paths, Begin(p)
      PROVE  RdmaInv'
  <2>. DEFINE stage == IF flag THEN "failed"
                       ELSE IF opt.dry THEN "done"
                       ELSE IF ~Clear(p) THEN "failed"
                       ELSE IF TakesRdma(p) /\ opt.ssh THEN "rdma"
                       ELSE IF TakesRdma(p) /\ opt.rdma = "require" THEN "failed"
                       ELSE "copy"
  <2>1. at' = [at EXCEPT ![p] = stage] /\ (stage = "rdma" => ~disabled)
    BY <1>5 DEF Begin, Reach, TakesRdma
  <2>. HIDE DEF stage
  <2>2. Active' \subseteq Active \cup {p} /\ p \notin Active
    BY <1>5, <2>1 DEF Begin, Active, TypeOK
  <2>3. Cardinality(Active') <= Jobs
    <3>1. /\ IsFiniteSet(Active \cup {p})
          /\ Cardinality(Active \cup {p}) = Cardinality(Active) + 1
      BY <2>2, Counts, FS_AddElement
    <3>2. Cardinality(Active') <= Cardinality(Active \cup {p}) /\ IsFiniteSet(Active')
      BY <2>2, <3>1, FS_Subset
    <3>3. Cardinality(Active') \in Nat
      BY <3>2, FS_CardinalityType
    <3>4. Cardinality(Active) < Jobs
      BY <1>5 DEF Begin
    <3>. QED BY <3>1, <3>2, <3>3, <3>4, Counts, RunAssumption
  <2>4. disabled => AtRdma' \subseteq AtRdma
    BY <1>5, <2>1 DEF AtRdma, TypeOK
  <2>5. CASE disabled
    <3>1. Cardinality(AtRdma') <= Cardinality(AtRdma) /\ Cardinality(AtRdma') \in Nat
      BY <2>4, <2>5, Counts, FS_Subset, FS_CardinalityType
    <3>. QED BY <1>5, <2>3, <2>5, <3>1, Counts, RunAssumption DEF Begin, Reach, RdmaInv, TypeOK
  <2>6. CASE ~disabled
    BY <1>5, <2>3, <2>6 DEF Begin, Reach, RdmaInv
  <2>. QED BY <2>5, <2>6
<1>6. ASSUME NEW p \in Paths, RdmaUnavailable(p)
      PROVE  RdmaInv'
  <2>1. /\ at[p] = "rdma" /\ probes' = probes + 1 /\ opt' = opt
        /\ at' = [at EXCEPT ![p] = IF opt.rdma = "require" THEN "failed" ELSE "copy"]
        /\ opt.rdma # "require" => disabled'
    BY <1>6 DEF RdmaUnavailable, Reach
  <2>2. Active' \subseteq Active /\ AtRdma' = AtRdma \ {p} /\ p \in AtRdma
    BY <2>1 DEF Active, AtRdma, TypeOK
  <2>3. Cardinality(Active') <= Cardinality(Active) /\ Cardinality(Active') \in Nat
    BY <2>2, Counts, FS_Subset, FS_CardinalityType
  <2>4. Cardinality(AtRdma') = Cardinality(AtRdma) - 1
    BY <2>2, Counts, FS_RemoveElement
  <2>5. opt.rdma # "require" => probes + Cardinality(AtRdma) <= Jobs
    BY Counts, RunAssumption DEF RdmaInv, TypeOK
  <2>. QED BY <2>1, <2>3, <2>4, <2>5, Counts, RunAssumption DEF RdmaInv, TypeOK
<1>. QED BY <1>1, <1>2, <1>3, <1>4, <1>5, <1>6, StepCases

\* A host that cannot do RDMA is asked at most once per worker and run.
THEOREM RdmaProbesHolds == Spec => []RdmaProbes
<1>1. RdmaInv => RdmaProbes
  <2>. SUFFICES ASSUME RdmaInv, opt.rdma # "require"
                PROVE  probes <= Jobs
    BY DEF RdmaProbes
  <2>. QED BY Counts, RunAssumption DEF RdmaInv, TypeOK
<1>. QED BY <1>1, RdmaInit, RdmaStep, PTL DEF Spec

-----------------------------------------------------------------------------
(* Why runs fail.                                                          *)

\* What a step for p does to the other paths.
Touches(p) ==
    \A q \in Paths \ {p} :
        \/ dest'[q] = dest[q]
        \/ q \in Above[p] /\ dest'[q] = [dest[q] EXCEPT !.mtime = Now]

\* Every step for a path touches that path, and the directory it is in.
LEMMA StepTouches ==
    ASSUME TypeOK, NEW p \in Paths,
           \/ PlanDir(p) \/ SkipLink(p) \/ PlanUnlink(p) \/ PlanLink(p) \/ PlanFile(p)
           \/ Begin(p) \/ RdmaUnavailable(p) \/ RdmaDeclined(p) \/ Copy(p)
           \/ CopyGivesUp(p) \/ Place(p) \/ Stamp(p) \/ Finish(p) \/ JobFails(p)
    PROVE  Touches(p)
<1>1. CASE dest' = dest
  BY <1>1 DEF Touches
<1>2. ASSUME NEW node, dest' = Put(p, node)
      PROVE  Touches(p)
  BY <1>2 DEF Touches, Put, Holder
<1>3. CASE PlanDir(p)
  BY <1>1, <1>2, <1>3 DEF PlanDir, Touches, TypeOK
<1>4. CASE PlanUnlink(p) \/ PlanLink(p) \/ Place(p)
  BY <1>1, <1>2, <1>4 DEF PlanUnlink, PlanLink, Place
<1>5. CASE PlanFile(p) \/ Stamp(p) \/ Finish(p)
  BY <1>1, <1>5 DEF PlanFile, Stamp, Finish, Touches, TypeOK
<1>6. CASE \/ SkipLink(p) \/ Begin(p) \/ RdmaUnavailable(p) \/ RdmaDeclined(p) \/ Copy(p)
           \/ CopyGivesUp(p) \/ JobFails(p)
  BY <1>1, <1>6 DEF SkipLink, Begin, RdmaUnavailable, RdmaDeclined, Copy, CopyGivesUp, JobFails
<1>. QED BY <1>3, <1>4, <1>5, <1>6

\* A listed path has no listed file or link above it, so that a step for it leaves
\* these alone; of the directories above it the time changes at most.
LEMMA OthersKept ==
    ASSUME TreeInv, NEW p \in Paths, seen[p].kind # "none", Touches(p)
    PROVE  \A q \in Paths \ {p} :
             /\ seen[q].kind # "dir" => dest'[q] = dest[q]
             /\ dest'[q].kind = dest[q].kind /\ dest'[q].mode = dest[q].mode
             /\ dest'[q].ver = dest[q].ver
<1>1. \A q \in Above[p] : seen[q].kind = "dir"
  BY DEF TreeInv, ListedTree
<1>2. \A q \in Paths : dest[q] \in Node
  BY DEF TreeInv, TypeOK
<1>3. \A q \in Paths : LET n == [dest[q] EXCEPT !.mtime = Now]
                       IN  n.kind = dest[q].kind /\ n.mode = dest[q].mode /\ n.ver = dest[q].ver
  BY <1>2 DEF Node
<1>. QED BY <1>1, <1>3 DEF Touches

\* The planner goes from one entry of the list to the next.
LEMMA PlanMoves ==
    ASSUME TypeOK, NEW p \in Paths,
           PlanDir(p) \/ SkipLink(p) \/ PlanUnlink(p) \/ PlanLink(p) \/ PlanFile(p)
    PROVE  /\ phase = "planning" /\ at[p] \in {"listed", "unlinked"}
           /\ UNCHANGED <<src, phase, opt, seen, flag, hurt, outcome, part>>
           /\ \E stage \in {"done", "unlinked", "queued"} :
                /\ at' = [at EXCEPT ![p] = stage]
                /\ stage = "queued" => seen[p].kind = "file" /\ ~InPlace(p) /\ PlanFile(p)
           /\ \A q \in Paths \ {p} : at'[q] = at[q]
BY DEF TypeOK, PlanDir, SkipLink, PlanUnlink, PlanLink, PlanFile, Planning, Current, Unplanned, Reach

\* A worker moves its file along; only Place, Stamp and Finish touch the destination.
LEMMA WorkMoves ==
    ASSUME TypeOK, NEW p \in Paths,
           \/ Begin(p) \/ RdmaUnavailable(p) \/ RdmaDeclined(p) \/ Copy(p)
           \/ CopyGivesUp(p) \/ Place(p) \/ Stamp(p) \/ Finish(p) \/ JobFails(p)
    PROVE  /\ at[p] = "queued" \/ p \in Active
           /\ UNCHANGED <<src, phase, opt, seen, flag, outcome>>
           /\ hurt => hurt'
           /\ \E stage \in {"rdma", "copy", "place", "stamp", "meta", "done", "failed"} :
                at' = [at EXCEPT ![p] = stage]
           /\ \A q \in Paths \ {p} : at'[q] = at[q]
           /\ at'[p] \in {"queued", "rdma", "copy", "place"} =>
                at[p] \in {"queued", "rdma", "copy"} /\ dest' = dest
<1>. USE DEF TypeOK, Active, Reach
<1>1. CASE Begin(p)
  BY <1>1 DEF Begin
<1>2. CASE RdmaUnavailable(p)
  BY <1>2 DEF RdmaUnavailable
<1>3. CASE RdmaDeclined(p) \/ Copy(p) \/ CopyGivesUp(p)
  BY <1>3 DEF RdmaDeclined, Copy, CopyGivesUp
<1>4. CASE Place(p)
  BY <1>4 DEF Place
<1>5. CASE Stamp(p) \/ Finish(p)
  BY <1>5 DEF Stamp, Finish
<1>6. CASE JobFails(p)
  BY <1>6 DEF JobFails, Fault
<1>. QED BY <1>1, <1>2, <1>3, <1>4, <1>5, <1>6

\* What is listed was there.
LEMMA ListedKeeps ==
    ASSUME TypeOK, Listed, [Next]_vars
    PROVE  Listed'
<1>1. CASE Start
  BY <1>1 DEF Start, Listed, Absent
<1>2. CASE ListEntries
  <2>1. PICK walk \in BOOLEAN :
          seen' = [p \in Paths |-> IF p \in Found(walk) THEN Trees[src][p] ELSE Absent]
    BY <1>2 DEF ListEntries
  <2>2. src \in 1 .. src /\ src' = src
    BY <1>2, TreeAssumption DEF ListEntries, TypeOK
  <2>. QED BY <2>1, <2>2 DEF Listed, Absent
<1>3. CASE SourceChange
  <2>1. hurt' /\ seen' = seen /\ 1 .. src \subseteq 1 .. src'
    BY <1>3, TreeAssumption DEF SourceChange, TypeOK
  <2>. QED BY <2>1 DEF Listed
<1>4. CASE UNCHANGED <<seen, src>> /\ (hurt => hurt')
  BY <1>4 DEF Listed
<1>5. CASE \/ ClearFlag \/ PlanRefused \/ Planned \/ WorkDone \/ Cleanup
           \/ Kill \/ Interrupt \/ RunBreaks \/ UNCHANGED vars
  BY <1>4, <1>5 DEF ClearFlag, PlanRefused, Planned, WorkDone, Cleanup, Kill, Interrupt,
     RunBreaks, Fault, vars, run
<1>. QED BY <1>1, <1>2, <1>3, <1>4, <1>5, StepCases, PlanMoves, WorkMoves

\* The stages fit the point of the run.
LEMMA StagesKeep ==
    ASSUME TreeInv, StagesFit, [Next]_vars
    PROVE  StagesFit'
<1>t. TypeOK /\ TypeOK'
  BY TypeStep DEF TreeInv
<1>1. CASE Start
  BY <1>1 DEF Start, StagesFit, Active
<1>2. CASE ListEntries
  <2>1. \A p \in Paths : at'[p] \in {"none", "listed"}
    BY <1>2 DEF ListEntries
  <2>2. phase' = "planning" /\ outcome = "none" /\ outcome' = "none" /\ UNCHANGED <<flag, hurt>>
    BY <1>2 DEF ListEntries, StagesFit
  <2>. QED BY <2>1, <2>2 DEF StagesFit, Active
<1>3. CASE UNCHANGED <<at, seen, dest>> /\ (hurt => hurt')
  <2>1. \A p \in Paths :
          /\ (p \in Active)' <=> p \in Active
          /\ InPlace(p)' <=> InPlace(p)
    BY <1>3 DEF Active, InPlace
  <2>2. CASE ClearFlag
    BY <1>3, <2>1, <2>2 DEF ClearFlag, StagesFit
  <2>3. CASE SourceChange \/ UNCHANGED vars
    BY <1>3, <2>1, <2>3 DEF SourceChange, StagesFit, vars, run
  <2>4. CASE Kill \/ RunBreaks
    BY <1>3, <2>1, <2>4 DEF Kill, RunBreaks, Fault, StagesFit, End
  <2>5. CASE Interrupt
    BY <1>3, <2>1, <2>5 DEF Interrupt, Fault, StagesFit, End
  <2>6. CASE PlanRefused
    BY <1>3, <2>1, <2>6 DEF PlanRefused, StagesFit, End
  <2>7. CASE Planned
    BY <1>3, <2>1, <2>7 DEF Planned, StagesFit
  <2>8. CASE WorkDone
    <3>1. CASE \E p \in Paths : at[p] = "failed"
      BY <1>3, <2>1, <2>8, <3>1 DEF WorkDone, StagesFit, End
    <3>2. CASE ~\E p \in Paths : at[p] = "failed"
      BY <1>3, <2>1, <2>8, <3>2 DEF WorkDone, StagesFit
    <3>. QED BY <3>1, <3>2
  <2>9. CASE Cleanup
    BY <1>3, <2>1, <2>9 DEF Cleanup, StagesFit, End
  <2>10. CASE ~(\/ ClearFlag \/ SourceChange \/ UNCHANGED vars \/ Kill \/ RunBreaks \/ Interrupt
               \/ PlanRefused \/ Planned \/ WorkDone \/ Cleanup \/ Start \/ ListEntries)
    <3>1. UNCHANGED <<phase, flag, outcome>>
      BY <1>t, <2>10, StepCases, PlanMoves, WorkMoves
    <3>. QED BY <1>3, <2>1, <3>1 DEF StagesFit
  <2>. QED BY <1>1, <1>2, <2>2, <2>3, <2>4, <2>5, <2>6, <2>7, <2>8, <2>9, <2>10
<1>4. CASE \/ ClearFlag \/ PlanRefused \/ Planned \/ WorkDone \/ Cleanup \/ SourceChange
           \/ Kill \/ Interrupt \/ RunBreaks \/ UNCHANGED vars
  BY <1>3, <1>4 DEF ClearFlag, PlanRefused, Planned, WorkDone, Cleanup, SourceChange, Kill,
     Interrupt, RunBreaks, Fault, vars, run
<1>5. ASSUME NEW p \in Paths,
             PlanDir(p) \/ SkipLink(p) \/ PlanUnlink(p) \/ PlanLink(p) \/ PlanFile(p)
      PROVE  StagesFit'
  <2>1. PICK stage \in {"done", "unlinked", "queued"} :
          /\ at' = [at EXCEPT ![p] = stage]
          /\ stage = "queued" => seen[p].kind = "file" /\ ~InPlace(p) /\ PlanFile(p)
    BY <1>t, <1>5, PlanMoves
  <2>2. /\ phase = "planning" /\ phase' = "planning" /\ at[p] \in {"listed", "unlinked"}
        /\ UNCHANGED <<seen, flag, hurt, outcome>> /\ \A q \in Paths \ {p} : at'[q] = at[q]
    BY <1>t, <1>5, PlanMoves
  <2>3. at'[p] = stage
    BY <1>t, <2>1 DEF TypeOK
  <2>4. outcome = "none"
    BY <2>2 DEF StagesFit
  <2>5. seen[p].kind # "none"
    BY <2>2 DEF TreeInv, ListedAt
  <2>6. \A q \in Paths \ {p} : seen[q].kind # "dir" => dest'[q] = dest[q]
    BY <1>t, <1>5, <2>5, StepTouches, OthersKept
  <2>7. ASSUME NEW q \in Paths
        PROVE  /\ (at[q] \in {"queued", "failed"} \/ q \in Active => seen[q].kind = "file")'
               /\ (at[q] \in {"queued", "rdma", "copy", "place"} => ~InPlace(q))'
               /\ at'[q] \in {"none", "listed", "unlinked", "queued", "done"}
    <3>1. CASE q = p
      <4>1. CASE stage = "queued"
        <5>1. dest' = dest
          BY <2>1, <4>1 DEF PlanFile
        <5>. QED BY <2>1, <2>2, <2>3, <3>1, <4>1, <5>1 DEF Active, InPlace
      <4>. QED BY <2>3, <3>1, <4>1 DEF Active
    <3>2. CASE q # p
      <4>1. at[q] = "queued" => seen[q].kind = "file" /\ ~InPlace(q)
        BY DEF StagesFit
      <4>2. at'[q] = at[q] /\ at[q] \in {"none", "listed", "unlinked", "queued", "done"}
        BY <2>2, <3>2 DEF StagesFit
      <4>. QED BY <2>2, <2>6, <3>2, <4>1, <4>2 DEF Active, InPlace
    <3>. QED BY <3>1, <3>2
  <2>. QED BY <2>2, <2>4, <2>7 DEF StagesFit
<1>6. ASSUME NEW p \in Paths, phase \notin {"idle", "planning", "cleanup"} \/ p \in Active,
             \/ Begin(p) \/ RdmaUnavailable(p) \/ RdmaDeclined(p) \/ Copy(p)
             \/ CopyGivesUp(p) \/ Place(p) \/ Stamp(p) \/ Finish(p) \/ JobFails(p),
             outcome # "ok"
      PROVE  StagesFit'
  <2>1. PICK stage \in {"rdma", "copy", "place", "stamp", "meta", "done", "failed"} :
          at' = [at EXCEPT ![p] = stage]
    BY <1>t, <1>6, WorkMoves
  <2>2. /\ at[p] = "queued" \/ p \in Active
        /\ UNCHANGED <<src, phase, opt, seen, flag, outcome>>
        /\ hurt => hurt'
        /\ \A q \in Paths \ {p} : at'[q] = at[q]
        /\ at'[p] \in {"queued", "rdma", "copy", "place"} =>
             at[p] \in {"queued", "rdma", "copy"} /\ dest' = dest
    BY <1>t, <1>6, WorkMoves
  <2>3. at'[p] = stage
    BY <1>t, <2>1 DEF TypeOK
  <2>4. seen[p].kind = "file"
    BY <2>2 DEF StagesFit
  <2>5. \A q \in Paths \ {p} : seen[q].kind # "dir" => dest'[q] = dest[q]
    BY <1>t, <1>6, <2>4, StepTouches, OthersKept
  <2>6. phase \notin {"planning", "cleanup"}
    BY <1>6, <2>2 DEF StagesFit, Active
  <2>7. ASSUME NEW q \in Paths
        PROVE  /\ (at[q] \in {"queued", "failed"} \/ q \in Active => seen[q].kind = "file")'
               /\ (at[q] \in {"queued", "rdma", "copy", "place"} => ~InPlace(q))'
    <3>1. CASE q = p
      BY <2>2, <2>3, <2>4, <3>1 DEF StagesFit, InPlace
    <3>2. CASE q # p
      <4>1. at'[q] = at[q] /\ ((q \in Active)' <=> q \in Active)
        BY <2>2, <3>2 DEF Active
      <4>2. seen[q].kind # "dir" => (InPlace(q)' <=> InPlace(q))
        BY <2>2, <2>5, <3>2 DEF InPlace
      <4>3. at[q] \in {"queued", "rdma", "copy", "place"} => seen[q].kind = "file"
        BY DEF StagesFit, Active
      <4>. QED BY <2>2, <4>1, <4>2, <4>3 DEF StagesFit
    <3>. QED BY <3>1, <3>2
  <2>8. /\ phase' \notin {"planning", "cleanup"} /\ outcome' # "ok"
        /\ phase' # "idle" => outcome' = "none"
        /\ flag' => hurt'
    BY <1>6, <2>2, <2>6 DEF StagesFit
  <2>. QED BY <2>7, <2>8 DEF StagesFit
<1>7. ASSUME NEW p \in Paths, JobFails(p)
      PROVE  StagesFit'
  BY <1>6, <1>7 DEF JobFails, Fault, StagesFit
<1>8. ASSUME NEW p \in Paths, phase = "working",
             \/ Begin(p) \/ RdmaUnavailable(p) \/ RdmaDeclined(p) \/ Copy(p)
             \/ CopyGivesUp(p) \/ Place(p) \/ Stamp(p) \/ Finish(p)
      PROVE  StagesFit'
  BY <1>6, <1>8 DEF StagesFit
<1>. QED BY <1>1, <1>2, <1>4, <1>5, <1>7, <1>8, StepCases

FailInv == TreeInv /\ Listed /\ StagesFit /\ ReasonStays

\* What a failed file is blocked by is not moved by the work on another file.
LEMMA BlockedKept ==
    ASSUME TreeInv, StagesFit, NEW p \in Paths, NEW q \in Paths \ {p},
           at[q] = "failed", seen[p].kind = "file", Touches(p), seen' = seen, Blocked(q)
    PROVE  Blocked(q)'
<1>1. seen[q].kind = "file" /\ \A h \in Above[q] : h \in Paths /\ seen[h].kind = "dir"
  BY PathAssumption DEF StagesFit, TreeInv, ListedTree
<1>2. dest'[q] = dest[q] /\ \A h \in Above[q] : dest'[h].mode = dest[h].mode
  BY <1>1, OthersKept
<1>3. Holder(q) \subseteq Above[q]
  BY DEF Holder
<1>. QED BY <1>1, <1>2, <1>3 DEF Blocked, InPlace, Writable, Holder

\* All that can be in the way of a file whose turn has come is a link.
LEMMA OnlyLinks ==
    ASSUME TreeInv, NEW p \in Paths, ~opt.dry, at[p] \notin {"none", "listed"},
           seen[p].kind = "file", ~Clear(p)
    PROVE  dest[p].kind = "link"
BY Surroundings DEF Clear

\* What refuses an entry to the planner is an obstacle.
LEMMA RefusedByObstacle ==
    ASSUME TreeInv, NEW p \in Paths, Refused(p)
    PROVE  flag \/ Obstacle
<1>1. seen[p].kind # "none"
  BY DEF Refused, Current, Unplanned, TreeInv, ListedAt
<1>2. dest[p].kind \in Kinds /\ \A q \in Above[p] : dest[q].kind \in Kinds
  BY PathAssumption DEF TreeInv, TypeOK, Node
<1>3. CASE ~Clear(p)
  BY <1>1, <1>2, <1>3 DEF Clear, Obstacle, Kinds
<1>4. CASE ~opt.dry /\ seen[p].kind = "dir" /\ dest[p].kind = "none" /\ ~Writable(p)
  BY <1>1, <1>4 DEF Obstacle, NeedsWrite
<1>5. CASE opt.links /\ seen[p].kind = "link" /\ (dest[p].kind = "dir" \/ ~Writable(p))
  BY <1>1, <1>5 DEF Obstacle, NeedsWrite
<1>. QED BY <1>3, <1>4, <1>5 DEF Refused

\* What blocks a file is an obstacle.
LEMMA BlockedByObstacle ==
    ASSUME TreeInv, NEW p \in Paths, seen[p].kind = "file", Blocked(p)
    PROVE  Obstacle
<1>1. dest[p].kind \in Kinds
  BY DEF TreeInv, TypeOK, Node
<1>2. dest[p].kind \in {"link", "dir"} => Obstacle
  BY DEF Obstacle
<1>3. ~InPlace(p) /\ ~Writable(p) /\ dest[p].kind \in {"none", "file"} => Obstacle
  BY DEF Obstacle, NeedsWrite, InPlace
<1>. QED BY <1>1, <1>2, <1>3 DEF Blocked, Kinds

\* The file a worker fails with is blocked, when nothing has hit the run.
LEMMA WorkFails ==
    ASSUME FailInv, NEW p \in Paths,
           \/ Begin(p) \/ RdmaUnavailable(p) \/ RdmaDeclined(p) \/ Copy(p)
           \/ CopyGivesUp(p) \/ Place(p) \/ Stamp(p) \/ Finish(p) \/ JobFails(p),
           at'[p] = "failed"
    PROVE  hurt' \/ Blocked(p)' \/ RdmaRequired'
<1>. USE DEF FailInv
<1>t. /\ TypeOK /\ (flag => hurt) /\ UNCHANGED <<opt, seen, src>> /\ (hurt => hurt')
      /\ at[p] = "queued" \/ p \in Active
  BY WorkMoves DEF TreeInv, StagesFit
<1>f. seen[p].kind = "file"
  BY <1>t DEF StagesFit
<1>b. dest' = dest /\ Blocked(p) => Blocked(p)'
  BY <1>t DEF Blocked, InPlace, Writable, Holder
<1>1. CASE Begin(p)
  <2>1. dest' = dest /\ at[p] = "queued"
    BY <1>1 DEF Begin
  <2>2. \/ flag \/ (~opt.dry /\ ~Clear(p)) \/ RdmaRequired
    BY <1>1, <1>t DEF Begin, Reach, TypeOK, RdmaRequired
  <2>3. ~opt.dry /\ ~Clear(p) => Blocked(p)
    BY <1>f, <2>1, OnlyLinks DEF Blocked
  <2>. QED BY <1>t, <1>b, <2>1, <2>2, <2>3 DEF RdmaRequired
<1>2. CASE RdmaUnavailable(p)
  BY <1>2, <1>t DEF RdmaUnavailable, Reach, TypeOK
<1>3. CASE CopyGivesUp(p)
  <2>1. flag \/ Changed(p)
    BY <1>3 DEF CopyGivesUp
  <2>2. Changed(p) => hurt
    BY <1>f DEF Changed, Listed
  <2>. QED BY <1>t, <2>1, <2>2
<1>4. CASE Place(p)
  <2>1. at[p] = "place" /\ ~opt.dry
    BY <1>4 DEF Place, TreeInv, DryStays, Dry
  <2>2. dest' = dest /\ ~(Clear(p) /\ dest[p].kind # "dir" /\ Writable(p))
    BY <1>4, <1>t DEF Place, Reach, TypeOK
  <2>3. ~InPlace(p)
    BY <2>1 DEF StagesFit
  <2>4. Blocked(p)
    BY <1>f, <2>1, <2>2, <2>3, OnlyLinks DEF Blocked
  <2>. QED BY <1>b, <2>2, <2>4
<1>5. CASE JobFails(p)
  BY <1>5 DEF JobFails, Fault
<1>6. CASE RdmaDeclined(p) \/ Copy(p)
  BY <1>6, <1>t DEF RdmaDeclined, Copy, Reach, TypeOK
<1>7. CASE Stamp(p) \/ Finish(p)
  BY <1>7, <1>t DEF Stamp, Finish, Reach, TypeOK
<1>. QED BY <1>1, <1>2, <1>3, <1>4, <1>5, <1>6, <1>7

\* A run has a reason to fail, and it lasts.
LEMMA ReasonKeeps ==
    ASSUME FailInv, [Next]_vars
    PROVE  ReasonStays'
<1>. USE DEF FailInv
<1>t. TypeOK /\ TreeInv' /\ StagesFit'
  BY TreeStep, StagesKeep DEF TreeInv
<1>o. /\ phase # "idle" => outcome = "none"
      /\ flag => hurt
      /\ \A p \in Paths : at[p] = "failed" => seen[p].kind = "file"
      /\ phase = "planning" => \A p \in Paths : at[p] # "failed"
  BY DEF StagesFit
<1>1. CASE Start \/ ListEntries
  <2>1. (\A p \in Paths : at'[p] # "failed") /\ outcome' = "none"
    BY <1>1, <1>o DEF Start, ListEntries
  <2>. QED BY <2>1 DEF ReasonStays, FailsForAReason
<1>2. CASE UNCHANGED <<dest, seen, at, opt>> /\ (hurt => hurt')
  <2>1. /\ Obstacle => Obstacle'
        /\ RdmaRequired => RdmaRequired'
        /\ \A p \in Paths : Blocked(p) => Blocked(p)'
    BY <1>2 DEF Obstacle, NeedsWrite, RdmaRequired, Blocked, InPlace, Writable, Holder
  <2>2. \A p \in Paths : at'[p] = "failed" => hurt' \/ Blocked(p)' \/ RdmaRequired'
    BY <1>2, <2>1 DEF ReasonStays
  <2>3. outcome' # "failed" \/ outcome' = outcome \/ hurt' => ReasonStays'
    BY <1>2, <2>1, <2>2 DEF ReasonStays, FailsForAReason, RdmaRequired
  <2>4. CASE SourceChange \/ Kill \/ Interrupt \/ RunBreaks
    BY <2>3, <2>4 DEF SourceChange, Kill, Interrupt, RunBreaks, Fault
  <2>5. CASE ClearFlag \/ Planned \/ Cleanup \/ UNCHANGED vars
    BY <2>3, <2>5 DEF ClearFlag, Planned, Cleanup, End, vars, run
  <2>6. CASE PlanRefused
    <3>1. hurt' \/ Obstacle'
      BY <1>2, <1>o, <2>1, <2>6, RefusedByObstacle DEF PlanRefused
    <3>. QED BY <2>2, <3>1 DEF ReasonStays, FailsForAReason
  <2>7. CASE WorkDone
    <3>1. CASE \E p \in Paths : at[p] = "failed"
      <4>1. PICK p \in Paths : at[p] = "failed"
        BY <3>1
      <4>2. hurt \/ Obstacle \/ RdmaRequired
        BY <1>o, <4>1, BlockedByObstacle DEF ReasonStays
      <4>. QED BY <1>2, <2>1, <2>2, <4>2 DEF ReasonStays, FailsForAReason, RdmaRequired
    <3>2. CASE ~\E p \in Paths : at[p] = "failed"
      BY <2>3, <2>7, <3>2 DEF WorkDone
    <3>. QED BY <3>1, <3>2
  <2>8. ASSUME NEW p \in Paths,
               \/ PlanDir(p) \/ SkipLink(p) \/ PlanUnlink(p) \/ PlanLink(p) \/ PlanFile(p)
               \/ phase = "working" /\ ( \/ Begin(p) \/ RdmaUnavailable(p) \/ RdmaDeclined(p)
                                         \/ Copy(p) \/ CopyGivesUp(p) \/ Place(p)
                                         \/ Stamp(p) \/ Finish(p) )
               \/ JobFails(p)
        PROVE  ReasonStays'
    BY <1>t, <2>3, <2>8, PlanMoves, WorkMoves
  <2>. QED BY <1>1, <2>4, <2>5, <2>6, <2>7, <2>8, StepCases
<1>3. CASE \/ ClearFlag \/ PlanRefused \/ Planned \/ WorkDone \/ Cleanup \/ SourceChange
           \/ Kill \/ Interrupt \/ RunBreaks \/ UNCHANGED vars
  BY <1>2, <1>3 DEF ClearFlag, PlanRefused, Planned, WorkDone, Cleanup, SourceChange, Kill,
     Interrupt, RunBreaks, Fault, vars, run
<1>4. ASSUME NEW p \in Paths,
             PlanDir(p) \/ SkipLink(p) \/ PlanUnlink(p) \/ PlanLink(p) \/ PlanFile(p)
      PROVE  ReasonStays'
  <2>1. phase = "planning" /\ phase' = "planning" /\ outcome' = "none"
    BY <1>t, <1>o, <1>4, PlanMoves
  <2>2. \A q \in Paths : at'[q] # "failed"
    BY <1>t, <2>1 DEF StagesFit
  <2>. QED BY <2>1, <2>2 DEF ReasonStays, FailsForAReason
<1>5. ASSUME NEW p \in Paths, phase # "idle",
             \/ Begin(p) \/ RdmaUnavailable(p) \/ RdmaDeclined(p) \/ Copy(p)
             \/ CopyGivesUp(p) \/ Place(p) \/ Stamp(p) \/ Finish(p) \/ JobFails(p)
      PROVE  ReasonStays'
  <2>1. /\ UNCHANGED <<seen, opt, outcome>> /\ (hurt => hurt')
        /\ at[p] = "queued" \/ p \in Active
        /\ \A q \in Paths \ {p} : at'[q] = at[q]
    BY <1>t, <1>5, WorkMoves
  <2>2. seen[p].kind = "file" /\ Touches(p)
    BY <1>t, <1>5, <2>1, StepTouches DEF StagesFit
  <2>3. ASSUME NEW q \in Paths, at'[q] = "failed"
        PROVE  hurt' \/ Blocked(q)' \/ RdmaRequired'
    <3>1. CASE q = p
      BY <1>5, <2>3, <3>1, WorkFails
    <3>2. CASE q # p
      <4>1. at[q] = "failed" /\ (Blocked(q) => Blocked(q)')
        BY <2>1, <2>2, <2>3, <3>2, BlockedKept
      <4>. QED BY <2>1, <4>1 DEF ReasonStays, RdmaRequired
    <3>. QED BY <3>1, <3>2
  <2>. QED BY <1>o, <1>5, <2>1, <2>3 DEF ReasonStays, FailsForAReason
<1>6. ASSUME NEW p \in Paths, JobFails(p)
      PROVE  ReasonStays'
  BY <1>5, <1>6 DEF JobFails, Fault
<1>. QED BY <1>1, <1>3, <1>4, <1>5, <1>6, StepCases

\* Why a run fails, in the initial state ...
LEMMA FailInit == ASSUME Init PROVE FailInv
<1>1. Listed /\ ReasonStays
  BY DEF Init, Listed, ReasonStays, FailsForAReason, Absent
<1>2. StagesFit
  BY DEF Init, StagesFit, Active
<1>. QED BY <1>1, <1>2, TreeInit DEF FailInv

\* ... and in every step.
LEMMA FailStep == ASSUME FailInv, [Next]_vars PROVE FailInv'
<1>1. TreeInv' /\ Listed' /\ StagesFit'
  BY TreeStep, ListedKeeps, StagesKeep DEF FailInv, TreeInv
<1>. QED BY <1>1, ReasonKeeps DEF FailInv

\* A run fails only because of an error, a signal, a change of the source or an
\* obstacle: no worker makes another fail, and what was planned can be carried out.
THEOREM FailsForAReasonHolds == Spec => []FailsForAReason
<1>1. FailInv => FailsForAReason
  BY DEF FailInv, ReasonStays
<1>. QED BY <1>1, FailInit, FailStep, PTL DEF Spec

-----------------------------------------------------------------------------
(* What success means.                                                     *)

SyncInv == FailInv /\ TimesTellVersions /\ AllAchieved

\* The source is a tree of nodes, whose times are their versions.
LEMMA SourceNodes ==
    ASSUME NEW i \in DOMAIN Trees, NEW p \in Paths
    PROVE  /\ Trees[i][p] \in Node /\ Trees[i][p].ver \in Nat
           /\ Trees[i][p].mtime = Trees[i][p].ver /\ Trees[i][p].mtime < Now
<1>1. Trees[i] \in [Paths -> Node]
  BY TreeAssumption
<1>. QED BY <1>1, TreeAssumption DEF Node

\* The time of a listed entry is its version.
LEMMA ListedNodes ==
    ASSUME TypeOK, Listed, NEW p \in Paths, seen[p].kind # "none"
    PROVE  /\ seen[p].ver \in Nat /\ seen[p].mtime = seen[p].ver
           /\ \E i \in DOMAIN Trees : i <= src /\ seen[p] = Trees[i][p]
<1>1. PICK i \in 1 .. src : seen[p] = Trees[i][p]
  BY DEF Listed
<1>2. i \in DOMAIN Trees /\ i <= src
  BY TreeAssumption DEF TypeOK
<1>. QED BY <1>1, <1>2, SourceNodes

\* What the workers have read is what they were to read, or later.
LEMMA WhatIsRead ==
    ASSUME TimesTell, TypeOK, Listed, NEW p \in Paths,
           seen[p].kind = "file", Trees[src][p].kind = "file"
    PROVE  Read(p, Trees[src][p].ver)
<1>1. PICK i \in DOMAIN Trees : i <= src /\ seen[p] = Trees[i][p]
  BY ListedNodes
<1>2. src \in DOMAIN Trees /\ i \in 1 .. src /\ DOMAIN Trees = 1 .. Len(Trees)
      /\ src .. Len(Trees) \subseteq DOMAIN Trees
  BY <1>1, TreeAssumption DEF TypeOK
<1>3. Trees[src][p].ver >= seen[p].ver
  BY <1>1, <1>2, SourceNodes DEF TimesTell
<1>4. ~hurt => Trees[src][p].ver = seen[p].ver
  BY DEF Listed
<1>5. ASSUME NEW j \in src .. Len(Trees), Trees[j][p].kind = "file"
      PROVE  Trees[src][p].ver <= Trees[j][p].ver
  <2>1. src \in 1 .. j /\ j \in DOMAIN Trees
    BY <1>2, TreeAssumption
  <2>. QED BY <1>5, <2>1 DEF TimesTell
<1>. QED BY <1>3, <1>4, <1>5 DEF Read

\* What was read stays read, when the source goes on as well.
LEMMA ReadStays ==
    ASSUME TypeOK, NEW p \in Paths, NEW v, Read(p, v), seen' = seen,
           src' = src \/ src' = src + 1, hurt => hurt'
    PROVE  Read(p, v)'
<1>1. src' .. Len(Trees) \subseteq src .. Len(Trees)
  BY TreeAssumption DEF TypeOK
<1>. QED BY <1>1 DEF Read

\* A file that is given the time of its listing is what was listed, if a later
\* listing has that time.
LEMMA StampTells ==
    ASSUME TypeOK, Listed, NEW p \in Paths, seen[p].kind = "file", dest[p].kind = "file",
           Read(p, dest[p].ver), NEW j \in src .. Len(Trees), Trees[j][p].kind = "file",
           seen[p].mtime = Trees[j][p].mtime
    PROVE  dest[p].ver = Trees[j][p].ver
<1>1. j \in DOMAIN Trees
  BY TreeAssumption DEF TypeOK
<1>2. dest[p].ver \in Nat
  BY DEF TypeOK, Node
<1>3. dest[p].ver >= seen[p].ver /\ dest[p].ver <= Trees[j][p].ver
  BY DEF Read
<1>. QED BY <1>1, <1>2, <1>3, SourceNodes, ListedNodes

\* What a step for p leaves at p tells its version by its time.
LEMMA TellsHere ==
    ASSUME SyncInv, NEW p \in Paths,
           \/ PlanDir(p) \/ SkipLink(p) \/ PlanUnlink(p) \/ PlanLink(p) \/ PlanFile(p)
           \/ Begin(p) \/ RdmaUnavailable(p) \/ RdmaDeclined(p) \/ Copy(p)
           \/ CopyGivesUp(p) \/ Place(p) \/ Stamp(p) \/ Finish(p) \/ JobFails(p),
           dest'[p].kind = "file", NEW j \in src .. Len(Trees), Trees[j][p].kind = "file",
           dest'[p].mtime = Trees[j][p].mtime
    PROVE  dest'[p].ver = Trees[j][p].ver
<1>t. /\ TypeOK /\ Listed /\ dest[p] \in Node /\ p \in DOMAIN dest /\ j \in DOMAIN Trees
      /\ dest[p].kind = "file" /\ dest[p].mtime = Trees[j][p].mtime
           => dest[p].ver = Trees[j][p].ver
  BY TreeAssumption DEF SyncInv, FailInv, TreeInv, TypeOK, TimesTellVersions
<1>n. Trees[j][p].mtime < Now /\ Trees[j][p].ver \in Nat /\ Trees[j][p].mtime = Trees[j][p].ver
  BY <1>t, SourceNodes
<1>1. CASE dest'[p] = dest[p]
  BY <1>t, <1>1
<1>2. CASE PlanDir(p)
  <2>1. CASE opt.dry
    BY <1>1, <1>2, <2>1 DEF PlanDir
  <2>2. CASE ~opt.dry /\ dest[p].kind = "none"
    <3>1. dest'[p].kind = "dir"
      BY <1>2, <2>2 DEF PlanDir, Put
    <3>. QED BY <3>1
  <2>3. CASE ~opt.dry /\ dest[p].kind # "none"
    <3>1. dest[p].kind = "dir"
      BY <1>2, <2>3 DEF PlanDir, Planning, Clear
    <3>2. dest' = [dest EXCEPT ![p].mtime = seen[p].mtime, ![p].mode = Mode(p)]
      BY <1>2, <2>3 DEF PlanDir
    <3>3. dest'[p].kind = "dir"
      BY <1>t, <3>1, <3>2 DEF Node
    <3>. QED BY <3>3
  <2>. QED BY <2>1, <2>2, <2>3
<1>3. CASE PlanUnlink(p) \/ PlanLink(p)
  BY <1>t, <1>3 DEF PlanUnlink, PlanLink, Put, Absent
<1>4. CASE PlanFile(p) \/ Finish(p)
  BY <1>t, <1>4 DEF PlanFile, Finish, Node
<1>5. CASE Place(p)
  <2>1. CASE dest' = dest
    BY <1>1, <2>1
  <2>2. CASE dest' # dest
    <3>1. dest'[p].mtime = Now
      BY <1>5, <2>2 DEF Place, Put
    <3>. QED BY <1>n, <3>1, TreeAssumption
  <2>. QED BY <2>1, <2>2
<1>6. CASE Stamp(p)
  <2>1. at[p] = "stamp" /\ dest' = [dest EXCEPT ![p].mtime = seen[p].mtime]
    BY <1>6 DEF Stamp
  <2>2. dest[p].kind = "file" /\ Read(p, dest[p].ver) /\ seen[p].kind = "file"
    BY <2>1 DEF SyncInv, FailInv, AllAchieved, Achieved, StagesFit, Active
  <2>3. dest'[p].mtime = seen[p].mtime /\ dest'[p].ver = dest[p].ver
    BY <1>t, <2>1 DEF Node
  <2>. QED BY <1>t, <2>2, <2>3, StampTells
<1>7. CASE \/ SkipLink(p) \/ Begin(p) \/ RdmaUnavailable(p) \/ RdmaDeclined(p) \/ Copy(p)
           \/ CopyGivesUp(p) \/ JobFails(p)
  BY <1>1, <1>7 DEF SkipLink, Begin, RdmaUnavailable, RdmaDeclined, Copy, CopyGivesUp, JobFails
<1>. QED BY <1>2, <1>3, <1>4, <1>5, <1>6, <1>7

\* Whatever is done to another path, what was achieved stays.
LEMMA AchievedStays ==
    ASSUME SyncInv, NEW p \in Paths, NEW q \in Paths \ {p}, seen[p].kind # "none", Touches(p),
           UNCHANGED <<src, opt, seen>>, hurt => hurt', at'[q] = at[q], part'[q] = part[q]
    PROVE  Achieved(q)'
<1>. USE DEF SyncInv, FailInv
<1>1. TypeOK /\ Achieved(q)
  BY DEF AllAchieved, TreeInv
<1>2. \A v : Read(q, v) => Read(q, v)'
  BY <1>1, ReadStays
<1>3. /\ seen[q].kind # "dir" => dest'[q] = dest[q]
      /\ dest'[q].kind = dest[q].kind /\ dest'[q].mode = dest[q].mode
      /\ dest'[q].ver = dest[q].ver
  BY OthersKept
<1>4. at[q] \in {"place", "stamp", "meta"} => seen[q].kind = "file"
  BY DEF StagesFit, Active
<1>5. Synced(q) => Synced(q)'
  BY <1>3 DEF Synced
<1>. QED BY <1>1, <1>2, <1>3, <1>4, <1>5 DEF Achieved, InPlace

\* A step of the planner achieves what it is for.
LEMMA PlanAchieves ==
    ASSUME SyncInv, NEW p \in Paths,
           PlanDir(p) \/ SkipLink(p) \/ PlanUnlink(p) \/ PlanLink(p) \/ PlanFile(p)
    PROVE  Achieved(p)'
<1>. USE DEF SyncInv, FailInv
<1>t. /\ TypeOK /\ p \in DOMAIN dest /\ dest[p] \in Node /\ p \in DOMAIN at /\ Achieved(p)
      /\ seen[p] \in Node
      /\ UNCHANGED <<opt, seen, hurt>>
  BY PlanMoves DEF TreeInv, TypeOK, AllAchieved
<1>d. at'[p] = "done" /\ (~opt.dry => Synced(p)') => Achieved(p)'
  BY <1>t DEF Achieved
<1>1. CASE PlanDir(p)
  <2>1. at'[p] = "done" /\ seen[p].kind = "dir"
    BY <1>1, <1>t DEF PlanDir, Reach
  <2>2. CASE ~opt.dry /\ dest[p].kind = "none"
    <3>1. dest'[p].kind = "dir" /\ (opt.perms => dest'[p].mode = seen[p].mode)
      BY <1>1, <2>2 DEF PlanDir, Put
    <3>. QED BY <1>d, <1>t, <2>1, <3>1 DEF Synced
  <2>3. CASE ~opt.dry /\ dest[p].kind # "none"
    <3>1. dest[p].kind = "dir"
      BY <1>1, <2>3 DEF PlanDir, Planning, Clear
    <3>2. dest'[p].kind = "dir" /\ (opt.perms => dest'[p].mode = seen[p].mode)
      BY <1>1, <1>t, <2>3, <3>1 DEF PlanDir, Node, Mode
    <3>. QED BY <1>d, <1>t, <2>1, <3>2 DEF Synced
  <2>. QED BY <1>d, <2>1, <2>2, <2>3
<1>2. CASE SkipLink(p)
  <2>1. at'[p] = "done" /\ seen[p].kind = "link" /\ (~opt.links \/ opt.dry)
    BY <1>2, <1>t DEF SkipLink, Reach
  <2>. QED BY <1>d, <1>t, <2>1 DEF Synced
<1>3. CASE PlanUnlink(p)
  BY <1>3, <1>t DEF PlanUnlink, Reach, Achieved
<1>4. CASE PlanLink(p)
  <2>1. at'[p] = "done" /\ seen[p].kind = "link"
    BY <1>4, <1>t DEF PlanLink, Reach, TreeInv, ListedAt
  <2>2. dest'[p].kind = "link" /\ dest'[p].ver = seen[p].ver
    BY <1>4 DEF PlanLink, Put
  <2>. QED BY <1>d, <1>t, <2>1, <2>2 DEF Synced
<1>5. CASE PlanFile(p)
  <2>1. seen[p].kind = "file" /\ at[p] = "listed"
    BY <1>5 DEF PlanFile, Planning
  <2>2. CASE ~InPlace(p)
    BY <1>5, <1>t, <2>2 DEF PlanFile, Reach, Achieved
  <2>3. CASE InPlace(p)
    <3>1. at'[p] = "done" /\ dest[p].ver = seen[p].ver
      BY <1>5, <1>t, <2>1, <2>3 DEF PlanFile, Reach, Achieved
    <3>2. ~opt.dry =>
            /\ dest'[p].kind = "file" /\ dest'[p].mtime = seen[p].mtime
            /\ dest'[p].ver = seen[p].ver /\ (opt.perms => dest'[p].mode = seen[p].mode)
      BY <1>5, <1>t, <2>3, <3>1 DEF PlanFile, InPlace, Node, Mode
    <3>3. seen[p].ver \in Nat
      BY <1>t DEF Node
    <3>. QED BY <1>d, <1>t, <2>1, <3>1, <3>2, <3>3 DEF Synced
  <2>. QED BY <2>2, <2>3
<1>. QED BY <1>1, <1>2, <1>3, <1>4, <1>5

\* So does a step of a worker.
LEMMA WorkAchieves ==
    ASSUME TimesTell, SyncInv, NEW p \in Paths,
           \/ Begin(p) \/ RdmaUnavailable(p) \/ RdmaDeclined(p) \/ Copy(p)
           \/ CopyGivesUp(p) \/ Place(p) \/ Stamp(p) \/ Finish(p) \/ JobFails(p)
    PROVE  Achieved(p)'
<1>. USE DEF SyncInv, FailInv
<1>t. /\ TypeOK /\ Listed /\ p \in DOMAIN dest /\ dest[p] \in Node /\ p \in DOMAIN at /\ Achieved(p)
      /\ p \in DOMAIN part
      /\ UNCHANGED <<src, opt, seen>> /\ (hurt => hurt')
  BY WorkMoves DEF TreeInv, TypeOK, AllAchieved
<1>f. seen[p].kind = "file"
  BY WorkMoves, <1>t DEF StagesFit
<1>n. at'[p] \in {"failed", "rdma", "copy"} \/ (at'[p] = "done" /\ opt.dry) => Achieved(p)'
  BY <1>t DEF Achieved
<1>1. CASE Begin(p) \/ RdmaUnavailable(p) \/ RdmaDeclined(p) \/ CopyGivesUp(p) \/ JobFails(p)
  BY <1>1, <1>n, <1>t DEF Begin, RdmaUnavailable, RdmaDeclined, CopyGivesUp, JobFails, Reach
<1>2. CASE Copy(p)
  <2>1. at'[p] = "place" /\ Trees[src][p].kind = "file" /\ part'[p] = Trees[src][p].ver
    BY <1>2, <1>t DEF Copy, Reach
  <2>2. Read(p, Trees[src][p].ver)'
    BY <1>2, <1>f, <1>t, <2>1, WhatIsRead, ReadStays DEF Copy, Reach
  <2>. QED BY <1>t, <2>1, <2>2 DEF Achieved
<1>3. CASE Place(p)
  <2>1. CASE Clear(p) /\ dest[p].kind # "dir" /\ Writable(p)
    <3>1. at'[p] = "stamp" /\ dest'[p].kind = "file" /\ dest'[p].ver = part[p] /\ Read(p, part[p])
      BY <1>3, <1>t, <2>1 DEF Place, Reach, Put, Achieved
    <3>2. hurt' = hurt /\ Read(p, dest'[p].ver)
      BY <1>3, <3>1 DEF Place
    <3>3. Read(p, dest[p].ver)'
      BY <1>t, <3>1, <3>2 DEF Read
    <3>. QED BY <3>1, <3>3 DEF Achieved
  <2>2. CASE ~(Clear(p) /\ dest[p].kind # "dir" /\ Writable(p))
    BY <1>3, <1>n, <1>t, <2>2 DEF Place, Reach
  <2>. QED BY <2>1, <2>2
<1>4. CASE Stamp(p)
  <2>1. /\ at'[p] = "meta" /\ dest'[p].mtime = seen[p].mtime /\ dest'[p].ver = dest[p].ver
        /\ dest'[p].kind = dest[p].kind /\ hurt' = hurt
    BY <1>4, <1>t DEF Stamp, Reach, Node
  <2>2. dest[p].kind = "file" /\ Read(p, dest[p].ver)
    BY <1>4, <1>t DEF Stamp, Achieved
  <2>3. Read(p, dest[p].ver)'
    BY <1>t, <2>1, <2>2 DEF Read
  <2>. QED BY <1>t, <2>1, <2>2, <2>3 DEF Achieved
<1>5. CASE Finish(p)
  <2>1. /\ at'[p] = "done" /\ dest'[p].mtime = dest[p].mtime /\ dest'[p].ver = dest[p].ver
        /\ dest'[p].kind = dest[p].kind /\ hurt' = hurt /\ dest'[p].mode = Mode(p)
    BY <1>5, <1>t DEF Finish, Reach, Node
  <2>2. dest[p].kind = "file" /\ Read(p, dest[p].ver) /\ dest[p].mtime = seen[p].mtime
    BY <1>5, <1>t DEF Finish, Achieved
  <2>3. Synced(p)'
    BY <1>f, <1>t, <2>1, <2>2 DEF Synced, Read, Mode
  <2>. QED BY <2>1, <2>3 DEF Achieved
<1>. QED BY <1>1, <1>2, <1>3, <1>4, <1>5

\* What is known of a run that succeeds, in the initial state.
LEMMA SyncInit == ASSUME TimesTell, Init PROVE SyncInv
<1>1. FailInv /\ TypeOK
  BY FailInit, TypeInit
<1>2. AllAchieved
  BY DEF Init, AllAchieved, Achieved
<1>3. TimesTellVersions
  <2>1. src .. Len(Trees) \subseteq DOMAIN Trees
    BY TreeAssumption DEF Init
  <2>. QED BY <2>1 DEF Init, TimesTell, TimesTellVersions
<1>. QED BY <1>1, <1>2, <1>3 DEF SyncInv

\* Success stays what it means.
LEMMA SyncStep == ASSUME TimesTell, SyncInv, [Next]_vars PROVE SyncInv'
<1>t. FailInv' /\ FailInv /\ TreeInv /\ TypeOK /\ TimesTellVersions /\ AllAchieved /\ StagesFit
  BY FailStep DEF SyncInv, FailInv, TreeInv
<1>1. CASE Start
  <2>1. AllAchieved'
    BY <1>1 DEF Start, AllAchieved, Achieved
  <2>2. TimesTellVersions'
    BY <1>1, <1>t DEF Start, TimesTellVersions
  <2>. QED BY <1>t, <2>1, <2>2 DEF SyncInv
<1>2. CASE ListEntries
  <2>1. PICK walk \in BOOLEAN :
          /\ seen' = [p \in Paths |-> IF p \in Found(walk) THEN Trees[src][p] ELSE Absent]
          /\ at' = [p \in Paths |-> IF p \in Found(walk) THEN "listed" ELSE "none"]
    BY <1>2 DEF ListEntries
  <2>2. src \in src .. Len(Trees) /\ dest' = dest
    BY <1>2, <1>t, TreeAssumption DEF ListEntries, TypeOK
  <2>3. ASSUME NEW p \in Paths
        PROVE  Achieved(p)'
    <3>1. CASE p \in Found(walk)
      <4>1. at'[p] = "listed" /\ seen'[p] = Trees[src][p]
        BY <2>1, <3>1
      <4>2. seen'[p].kind = "file" /\ InPlace(p)' => dest'[p].ver = seen'[p].ver
        BY <1>t, <2>2, <4>1 DEF TimesTellVersions, InPlace
      <4>. QED BY <4>1, <4>2 DEF Achieved
    <3>2. CASE p \notin Found(walk)
      BY <2>1, <3>2 DEF Achieved
    <3>. QED BY <3>1, <3>2
  <2>4. TimesTellVersions'
    BY <1>2, <1>t DEF ListEntries, TimesTellVersions
  <2>. QED BY <1>t, <2>3, <2>4 DEF SyncInv, AllAchieved
<1>3. CASE \/ ClearFlag \/ PlanRefused \/ Planned \/ WorkDone \/ Cleanup \/ SourceChange
           \/ Kill \/ Interrupt \/ RunBreaks \/ UNCHANGED vars
  <2>1. UNCHANGED <<dest, seen, at, opt>> /\ (hurt => hurt')
    BY <1>3 DEF ClearFlag, PlanRefused, Planned, WorkDone, Cleanup, SourceChange, Kill,
       Interrupt, RunBreaks, Fault, vars, run
  <2>2. src' = src \/ src' = src + 1
    BY <1>3 DEF ClearFlag, PlanRefused, Planned, WorkDone, Cleanup, SourceChange, Kill,
       Interrupt, RunBreaks, Fault, vars, run
  <2>3. part' = part \/ \A p \in Paths : at[p] # "place"
    <3>1. CASE Cleanup
      BY <1>t, <3>1 DEF Cleanup, StagesFit
    <3>2. CASE ~Cleanup
      BY <1>3, <3>2 DEF ClearFlag, PlanRefused, Planned, WorkDone, SourceChange, Kill,
         Interrupt, RunBreaks, vars, run
    <3>. QED BY <3>1, <3>2
  <2>4. TimesTellVersions'
    <3>1. src' .. Len(Trees) \subseteq src .. Len(Trees)
      BY <1>t, <2>2, TreeAssumption DEF TypeOK
    <3>. QED BY <1>t, <2>1, <3>1 DEF TimesTellVersions
  <2>5. ASSUME NEW p \in Paths
        PROVE  Achieved(p)'
    <3>1. Achieved(p) /\ (Synced(p) => Synced(p)')
      BY <1>t, <2>1 DEF AllAchieved, Synced
    <3>2. \A v : Read(p, v) => Read(p, v)'
      BY <1>t, <2>1, <2>2, ReadStays
    <3>. QED BY <2>1, <2>3, <3>1, <3>2 DEF Achieved, InPlace
  <2>. QED BY <1>t, <2>4, <2>5 DEF SyncInv, AllAchieved
<1>4. ASSUME NEW p \in Paths,
             \/ PlanDir(p) \/ SkipLink(p) \/ PlanUnlink(p) \/ PlanLink(p) \/ PlanFile(p)
             \/ Begin(p) \/ RdmaUnavailable(p) \/ RdmaDeclined(p) \/ Copy(p)
             \/ CopyGivesUp(p) \/ Place(p) \/ Stamp(p) \/ Finish(p) \/ JobFails(p)
      PROVE  SyncInv'
  <2>1. Touches(p)
    BY <1>t, <1>4, StepTouches
  <2>2. /\ UNCHANGED <<src, opt, seen>> /\ (hurt => hurt') /\ at[p] # "none"
        /\ \A q \in Paths \ {p} : at'[q] = at[q]
    BY <1>t, <1>4, PlanMoves, WorkMoves DEF Active
  <2>3. seen[p].kind # "none"
    BY <1>t, <2>2 DEF TreeInv, ListedAt
  <2>4. \A q \in Paths \ {p} : part'[q] = part[q]
    BY <1>t, <1>4 DEF TypeOK, PlanDir, SkipLink, PlanUnlink, PlanLink, PlanFile, Begin,
       RdmaUnavailable, RdmaDeclined, Copy, CopyGivesUp, Place, Stamp, Finish, JobFails
  <2>5. AllAchieved'
    BY <1>4, <2>1, <2>2, <2>3, <2>4, AchievedStays, PlanAchieves, WorkAchieves DEF AllAchieved
  <2>6. ASSUME NEW q \in Paths, NEW j \in src' .. Len(Trees),
               dest'[q].kind = "file", Trees[j][q].kind = "file",
               dest'[q].mtime = Trees[j][q].mtime
        PROVE  dest'[q].ver = Trees[j][q].ver
    <3>1. j \in src .. Len(Trees) /\ j \in DOMAIN Trees
      BY <1>t, <2>2, TreeAssumption DEF TypeOK
    <3>2. CASE q = p
      BY <1>4, <2>6, <3>1, <3>2, TellsHere
    <3>3. CASE q # p
      <4>1. dest'[q] # dest[q] => dest'[q].mtime = Now
        BY <1>t, <2>1, <3>3 DEF Touches, TypeOK, Node
      <4>2. dest'[q] = dest[q]
        BY <2>6, <3>1, <4>1, SourceNodes, TreeAssumption
      <4>. QED BY <1>t, <2>6, <3>1, <4>2 DEF TimesTellVersions
    <3>. QED BY <3>2, <3>3
  <2>. QED BY <1>t, <2>5, <2>6 DEF SyncInv, TimesTellVersions
<1>. QED BY <1>1, <1>2, <1>3, <1>4, StepCases

\* When modification times tell the versions of the files apart, a run that reports
\* success has left every listed file with the listed contents or later ones, its
\* time and mode, every directory and every link.
THEOREM SuccessMeansSyncedHolds == TimesTell => (Spec => []SuccessMeansSynced)
<1>. SUFFICES ASSUME TimesTell PROVE Spec => []SuccessMeansSynced
  OBVIOUS
<1>1. SyncInv => SuccessMeansSynced
  <2>. SUFFICES ASSUME SyncInv, outcome = "ok", ~opt.dry, NEW p \in Paths
                PROVE  Synced(p)
    BY DEF SuccessMeansSynced
  <2>1. CASE at[p] = "done"
    BY <2>1 DEF SyncInv, AllAchieved, Achieved
  <2>2. CASE at[p] = "none"
    BY <2>2 DEF SyncInv, FailInv, TreeInv, ListedAt, Synced
  <2>. QED BY <2>1, <2>2 DEF SyncInv, FailInv, StagesFit
<1>2. Init => SyncInv
  BY SyncInit
<1>3. SyncInv /\ [Next]_vars => SyncInv'
  BY SyncStep
<1>. QED BY <1>1, <1>2, <1>3, PTL DEF Spec

-----------------------------------------------------------------------------
(* Each file of the tree goes through what Mirror promises.                *)

MirrorInv == FailInv /\ AllSteady

\* The versions of a steady file go forward.
LEMMA VersionsGoOn ==
    ASSUME NEW p \in SteadyFiles, NEW i \in DOMAIN Trees, NEW j \in DOMAIN Trees, i <= j
    PROVE  Trees[i][p].ver <= Trees[j][p].ver
<1>1. DOMAIN Trees = 1 .. Len(Trees) /\ Len(Trees) \in Nat
  BY TreeAssumption
<1>. DEFINE T == {n \in Nat : i + n \in DOMAIN Trees => Trees[i][p].ver <= Trees[i + n][p].ver}
<1>2. 0 \in T
  BY <1>1, SourceNodes DEF SteadyFiles
<1>3. ASSUME NEW n \in Nat, n \in T
      PROVE  n + 1 \in T
  <2>. SUFFICES ASSUME i + (n + 1) \in DOMAIN Trees
                PROVE  Trees[i][p].ver <= Trees[i + (n + 1)][p].ver
    OBVIOUS
  <2>1. /\ i + n \in DOMAIN Trees /\ i + (n + 1) \in 2 .. Len(Trees)
        /\ (i + (n + 1)) - 1 = i + n
    BY <1>1
  <2>2. Trees[i][p].ver <= Trees[i + n][p].ver
    BY <1>3, <2>1
  <2>3. Trees[i + (n + 1)][p].ver - Trees[i + n][p].ver \in {0, 1}
    <3>1. Trees[i + (n + 1)][p].ver - Trees[(i + (n + 1)) - 1][p].ver \in {0, 1}
      BY <2>1 DEF SteadyFiles
    <3>. QED BY <2>1, <3>1
  <2>4. /\ Trees[i][p].ver \in Nat /\ Trees[i + n][p].ver \in Nat
        /\ Trees[i + (n + 1)][p].ver \in Nat
    BY <2>1, SourceNodes DEF SteadyFiles
  <2>. QED BY <2>2, <2>3, <2>4
<1>4. j - i \in Nat /\ i + (j - i) = j
  BY <1>1
<1>. HIDE DEF T
<1>5. j - i \in T
  BY <1>2, <1>3, <1>4, SetInduction
<1>. QED BY <1>4, <1>5 DEF T

\* A steady file is listed as one of its versions, none later than the source's.
LEMMA SteadyListed ==
    ASSUME TypeOK, Listed, NEW p \in SteadyFiles
    PROVE  /\ p \in Paths /\ src \in DOMAIN Trees
           /\ Trees[src][p].kind = "file" /\ Trees[src][p].ver \in 1 .. Now - 1
           /\ seen[p].kind \in {"none", "file"}
           /\ seen[p].kind = "file" =>
                /\ seen[p].ver \in 1 .. Trees[src][p].ver
                /\ seen[p].mtime = seen[p].ver
<1>1. p \in Paths /\ src \in DOMAIN Trees /\ 1 \in DOMAIN Trees /\ Now \in Nat
      /\ \A i \in DOMAIN Trees : i \in Nat /\ 1 <= i
  BY TreeAssumption DEF SteadyFiles, TypeOK
<1>2. \A i \in DOMAIN Trees :
        /\ Trees[i][p].kind = "file" /\ Trees[i][p].ver \in Nat /\ Trees[i][p].ver < Now
        /\ 1 <= Trees[i][p].ver
  <2>1. Trees[1][p].ver = 1 /\ \A i \in DOMAIN Trees : Trees[i][p].kind = "file"
    BY DEF SteadyFiles
  <2>. QED BY <1>1, <2>1, SourceNodes, VersionsGoOn
<1>3. ASSUME seen[p].kind # "none"
      PROVE  /\ seen[p].kind = "file" /\ seen[p].mtime = seen[p].ver
             /\ seen[p].ver \in 1 .. Trees[src][p].ver
  <2>1. PICK i \in DOMAIN Trees : i <= src /\ seen[p] = Trees[i][p]
    BY <1>1, <1>3, ListedNodes
  <2>2. Trees[i][p].ver <= Trees[src][p].ver
    BY <1>1, <2>1, VersionsGoOn
  <2>. QED BY <1>1, <1>2, <2>1, <2>2, SourceNodes
<1>. QED BY <1>1, <1>2, <1>3

\* A step for another path leaves a steady file alone; a directory above a path that
\* is listed is no steady file.
LEMMA SteadyAlone ==
    ASSUME FailInv, NEW p \in SteadyFiles, NEW q \in Paths \ {p}, seen[q].kind # "none",
           Touches(q)
    PROVE  dest'[p] = dest[p]
<1>1. p \in Paths /\ seen[p].kind # "dir"
  BY SteadyListed DEF FailInv, TreeInv
<1>. QED BY <1>1, OthersKept DEF FailInv

\* What Mirror sees of a file.
LEMMA SameFile ==
    ASSUME NEW p, src' = src, dest'[p].kind = dest[p].kind, dest'[p].ver = dest[p].ver,
           dest'[p].mtime = dest[p].mtime
    PROVE  UNCHANGED FileMirror(p)!vars
BY DEF FileMirror!vars

\* Steps that are not for the path at all, save those of the source.
LEMMA SteadyRests ==
    ASSUME TypeOK, Listed, NEW p \in SteadyFiles, Steady(p), dest'[p] = dest[p], src' = src,
           \/ at'[p] \in {"none", "unlinked", "meta", "done", "failed"}
           \/ /\ seen'[p] = seen[p]
              /\ at'[p] \in {"queued", "rdma", "copy"} /\ at[p] \in {"listed", "queued", "rdma", "copy"}
           \/ seen'[p] = seen[p] /\ at'[p] = at[p] /\ (at[p] # "place" \/ part'[p] = part[p])
           \/ at'[p] = "listed" /\ seen'[p] = Trees[src][p]
    PROVE  Steady(p)' /\ UNCHANGED FileMirror(p)!vars
<1>1. UNCHANGED FileMirror(p)!vars
  BY SameFile
<1>2. dest[p].kind = "file" => dest[p].ver <= Trees[src][p].ver
  BY DEF Steady
<1>. QED BY <1>1, <1>2 DEF Steady

\* A step of the planner for a steady file changes its mode at most.
LEMMA SteadyPlanned ==
    ASSUME MirrorInv, NEW p \in SteadyFiles,
           PlanDir(p) \/ SkipLink(p) \/ PlanUnlink(p) \/ PlanLink(p) \/ PlanFile(p)
    PROVE  Steady(p)' /\ UNCHANGED FileMirror(p)!vars
<1>. USE DEF MirrorInv, FailInv
<1>1. /\ p \in Paths /\ seen[p].kind \in {"none", "file"} /\ TypeOK /\ Listed /\ Steady(p)
  BY SteadyListed DEF TreeInv, AllSteady
<1>2. PlanFile(p)
  BY <1>1 DEF PlanDir, SkipLink, PlanUnlink, PlanLink, TreeInv, ListedAt
<1>3. /\ at[p] = "listed" /\ at'[p] \in {"done", "queued"} /\ UNCHANGED <<src, seen>>
      /\ at'[p] = "queued" => dest' = dest
  BY <1>1, <1>2 DEF PlanFile, Planning, Reach, TypeOK
<1>4. dest'[p].kind = dest[p].kind /\ dest'[p].ver = dest[p].ver /\ dest'[p].mtime = dest[p].mtime
  BY <1>1, <1>2 DEF PlanFile, TypeOK, Node
<1>. QED BY <1>1, <1>3, <1>4, SameFile DEF Steady

\* A worker does to a steady file what Mirror allows.
LEMMA SteadyWorked ==
    ASSUME MirrorInv, NEW p \in SteadyFiles,
           \/ Begin(p) \/ RdmaUnavailable(p) \/ RdmaDeclined(p) \/ Copy(p)
           \/ CopyGivesUp(p) \/ Place(p) \/ Stamp(p) \/ Finish(p) \/ JobFails(p)
    PROVE  Steady(p)' /\ [FileMirror(p)!Next]_(FileMirror(p)!vars)
<1>. USE DEF MirrorInv, FailInv
<1>1. /\ p \in Paths /\ TypeOK /\ Listed /\ Steady(p) /\ Now \in Nat
      /\ Trees[src][p].kind = "file" /\ Trees[src][p].ver \in 1 .. Now - 1
  BY SteadyListed, TreeAssumption DEF TreeInv, AllSteady
<1>2. seen[p].kind = "file" /\ UNCHANGED <<src, seen>>
  BY <1>1, WorkMoves DEF StagesFit
<1>3. seen[p].ver \in 1 .. Trees[src][p].ver /\ seen[p].mtime = seen[p].ver
  BY <1>1, <1>2, SteadyListed
<1>n. UNCHANGED FileMirror(p)!vars => [FileMirror(p)!Next]_(FileMirror(p)!vars)
  OBVIOUS
<1>4. CASE Begin(p) \/ RdmaUnavailable(p) \/ RdmaDeclined(p) \/ CopyGivesUp(p) \/ JobFails(p)
  <2>1. dest' = dest
    BY <1>4 DEF Begin, RdmaUnavailable, RdmaDeclined, CopyGivesUp, JobFails
  <2>2. \/ at'[p] \in {"done", "failed"}
        \/ at'[p] \in {"rdma", "copy"} /\ at[p] \in {"queued", "rdma"}
    BY <1>1, <1>4 DEF Begin, RdmaUnavailable, RdmaDeclined, CopyGivesUp, JobFails, Reach, TypeOK
  <2>. QED BY <1>1, <1>2, <1>n, <2>1, <2>2, SteadyRests
<1>5. CASE Copy(p)
  <2>1. dest' = dest /\ at'[p] = "place" /\ part'[p] = Trees[src][p].ver /\ at[p] \in {"rdma", "copy"}
    BY <1>1, <1>5 DEF Copy, Reach, TypeOK
  <2>2. UNCHANGED FileMirror(p)!vars
    BY <1>2, <2>1, SameFile
  <2>. QED BY <1>1, <1>2, <1>3, <1>n, <2>1, <2>2 DEF Steady
<1>6. CASE Place(p)
  <2>1. CASE Clear(p) /\ dest[p].kind # "dir" /\ Writable(p)
    <3>1. /\ at[p] = "place" /\ at'[p] = "stamp"
          /\ dest'[p] = [kind |-> "file", ver |-> part[p], mtime |-> Now, mode |-> "rw"]
      BY <1>1, <1>6, <2>1 DEF Place, Reach, Put, TypeOK
    <3>2. part[p] \in seen[p].ver .. Trees[src][p].ver
      BY <1>1, <3>1 DEF Steady
    <3>3. Steady(p)'
      BY <1>1, <1>2, <1>3, <3>1, <3>2 DEF Steady
    <3>4. dest[p].kind = "file" => dest[p].ver <= seen[p].ver
      BY <1>1, <3>1 DEF Steady
    <3>5. FileMirror(p)!Replace
      <4>1. /\ seen[p].ver \in 1 .. Trees[src][p].ver
            /\ part[p] \in seen[p].ver .. Trees[src][p].ver /\ part[p] \in 1 .. Now
        BY <1>1, <1>3, <3>2
      <4>. DEFINE old == IF dest[p].kind = "file" THEN <<dest[p].ver>> ELSE <<>>
                  new == IF dest'[p].kind = "file" THEN <<dest'[p].ver>> ELSE <<>>
      <4>2. \A u \in DOMAIN old : old[u] <= seen[p].ver
        BY <3>4
      <4>3. new = <<part[p]>>
        BY <3>1
      <4>4. /\ \A u \in DOMAIN new : new[u] \in seen[p].ver .. Trees[src][p].ver
            /\ Len(new) = [v \in 1 .. Now |-> 1][part[p]]
        BY <4>1, <4>3
      <4>5. dest'[p].kind = "file" /\ dest'[p].mtime = Now
        BY <3>1
      <4>6. Trees[src']= Trees[src]
        BY <1>2
      <4>. HIDE DEF old, new
      <4>7. \E v \in 1 .. Trees[src][p].ver :
               /\ \A u \in DOMAIN old : old[u] <= v
               /\ \A u \in DOMAIN new : new[u] \in v .. Trees[src][p].ver
               /\ \E w \in v .. Trees[src][p].ver : Len(new) = [x \in 1 .. Now |-> 1][w]
        BY <4>1, <4>2, <4>4
      <4>. QED BY <4>5, <4>6, <4>7 DEF FileMirror!Replace, old, new
    <3>. QED BY <3>3, <3>5 DEF FileMirror!Next
  <2>2. CASE ~(Clear(p) /\ dest[p].kind # "dir" /\ Writable(p))
    <3>1. dest' = dest /\ at'[p] = "failed"
      BY <1>1, <1>6, <2>2 DEF Place, Reach, TypeOK
    <3>. QED BY <1>1, <1>2, <1>n, <3>1, SteadyRests
  <2>. QED BY <2>1, <2>2
<1>7. CASE Stamp(p)
  <2>1. /\ at[p] = "stamp" /\ at'[p] = "meta"
        /\ dest'[p].kind = dest[p].kind /\ dest'[p].ver = dest[p].ver
        /\ dest'[p].mtime = seen[p].mtime
    BY <1>1, <1>7 DEF Stamp, Reach, TypeOK, Node
  <2>2. dest[p].kind = "file" /\ dest[p].ver >= seen[p].ver
    BY <1>1, <2>1 DEF Steady
  <2>3. Steady(p)'
    BY <1>1, <1>2, <2>1, <2>2 DEF Steady
  <2>4. FileMirror(p)!Stamp
    <3>1. seen[p].ver \in 1 .. Trees[src][p].ver /\ [v \in 1 .. Now |-> v][seen[p].ver] = seen[p].mtime
      BY <1>1, <1>3
    <3>2. \A u \in DOMAIN <<dest[p].ver>> : <<dest[p].ver>>[u] >= seen[p].ver
      BY <2>2
    <3>3. Trees[src']= Trees[src]
      BY <1>2
    <3>. DEFINE old == IF dest[p].kind = "file" THEN <<dest[p].ver>> ELSE <<>>
                new == IF dest'[p].kind = "file" THEN <<dest'[p].ver>> ELSE <<>>
    <3>4. [there |-> dest'[p].kind = "file", data |-> new, mtime |-> dest'[p].mtime]
            = [[there |-> dest[p].kind = "file", data |-> old, mtime |-> dest[p].mtime]
                 EXCEPT !.mtime = [v \in 1 .. Now |-> v][seen[p].ver]]
      <4>1. dest'[p].kind = dest[p].kind /\ new = old
        BY <2>1
      <4>. HIDE DEF old, new
      <4>. QED BY <2>1, <3>1, <4>1
    <3>5. \A u \in DOMAIN old : old[u] >= seen[p].ver
      BY <2>2, <3>2
    <3>. HIDE DEF old, new
    <3>6. \E v \in 1 .. Trees[src][p].ver :
             /\ \A u \in DOMAIN old : old[u] >= v
             /\ [there |-> dest'[p].kind = "file", data |-> new, mtime |-> dest'[p].mtime]
                  = [[there |-> dest[p].kind = "file", data |-> old, mtime |-> dest[p].mtime]
                       EXCEPT !.mtime = [x \in 1 .. Now |-> x][v]]
      BY <3>1, <3>4, <3>5
    <3>. QED BY <2>2, <3>3, <3>6 DEF FileMirror!Stamp, old, new
  <2>. QED BY <2>3, <2>4 DEF FileMirror!Next
<1>8. CASE Finish(p)
  <2>1. /\ at'[p] = "done" /\ dest'[p].kind = dest[p].kind /\ dest'[p].ver = dest[p].ver
        /\ dest'[p].mtime = dest[p].mtime
    BY <1>1, <1>8 DEF Finish, Reach, TypeOK, Node
  <2>. QED BY <1>1, <1>2, <1>n, <2>1, SameFile DEF Steady
<1>. QED BY <1>4, <1>5, <1>6, <1>7, <1>8

\* The mirrors of the files begin as they should.
LEMMA MirrorInit == ASSUME Init PROVE MirrorInv /\ \A p \in SteadyFiles : FileMirror(p)!Init
<1>1. ASSUME NEW p \in SteadyFiles
      PROVE  Steady(p) /\ FileMirror(p)!Init
  <2>1. Trees[1][p].ver = 1 /\ p \in Paths /\ \A tree \in Before : tree[p] = Absent
    BY DEF SteadyFiles
  <2>2. dest[p] = Absent /\ src = 1 /\ at[p] = "none"
    BY <2>1 DEF Init
  <2>3. (dest[p].kind = "file") = FALSE /\ dest[p].kind = "none" /\ dest[p].mtime = 0
    BY <2>2 DEF Absent
  <2>4. [there |-> dest[p].kind = "file",
         data  |-> IF dest[p].kind = "file" THEN <<dest[p].ver>> ELSE <<>>,
         mtime |-> dest[p].mtime] = [there |-> FALSE, data |-> <<>>, mtime |-> 0]
    BY <2>3
  <2>. QED BY <2>1, <2>2, <2>3, <2>4 DEF FileMirror!Init, Steady
<1>. QED BY <1>1, FailInit DEF MirrorInv, AllSteady

\* Every step is one of Mirror, or none, for every steady file.
LEMMA MirrorStep ==
    ASSUME MirrorInv, [Next]_vars
    PROVE  MirrorInv' /\ \A p \in SteadyFiles : [FileMirror(p)!Next]_(FileMirror(p)!vars)
<1>. SUFFICES ASSUME NEW p \in SteadyFiles
              PROVE  Steady(p)' /\ [FileMirror(p)!Next]_(FileMirror(p)!vars)
  BY FailStep DEF MirrorInv, AllSteady
<1>t. /\ TreeInv /\ FailInv /\ TypeOK /\ Listed /\ Steady(p) /\ StagesFit
      /\ p \in Paths /\ seen[p].kind \in {"none", "file"} /\ src \in DOMAIN Trees
  BY SteadyListed DEF MirrorInv, FailInv, TreeInv, AllSteady
<1>n. UNCHANGED FileMirror(p)!vars => [FileMirror(p)!Next]_(FileMirror(p)!vars)
  OBVIOUS
<1>1. CASE Start
  <2>1. dest' = dest /\ src' = src /\ at'[p] = "none"
    BY <1>1, <1>t DEF Start
  <2>. QED BY <1>t, <1>n, <2>1, SteadyRests
<1>2. CASE ListEntries
  <2>1. /\ dest' = dest /\ src' = src
        /\ at'[p] = "none" \/ (at'[p] = "listed" /\ seen'[p] = Trees[src][p])
    BY <1>2, <1>t DEF ListEntries
  <2>. QED BY <1>t, <1>n, <2>1, SteadyRests
<1>3. CASE SourceChange
  <2>1. UNCHANGED <<dest, part, at, seen>> /\ src' = src + 1 /\ src < Len(Trees)
    BY <1>3 DEF SourceChange
  <2>2. src' \in DOMAIN Trees /\ src' \in 2 .. Len(Trees) /\ src' - 1 = src
        /\ Len(Trees) \in DOMAIN Trees
    BY <1>t, <2>1, TreeAssumption
  <2>3. Trees[src'][p].ver - Trees[src][p].ver \in {0, 1}
    BY <2>2 DEF SteadyFiles
  <2>4. /\ Trees[src][p].ver \in Nat /\ Trees[src'][p].ver \in Nat
        /\ Trees[Len(Trees)][p].ver \in Nat /\ Trees[src'][p].ver <= Trees[Len(Trees)][p].ver
    BY <1>t, <2>2, SourceNodes, VersionsGoOn
  <2>5. Steady(p)'
    BY <1>t, <2>1, <2>3, <2>4 DEF Steady
  <2>6. CASE Trees[src'][p].ver = Trees[src][p].ver
    BY <2>1, <2>5, <2>6 DEF FileMirror!vars
  <2>7. CASE Trees[src'][p].ver = Trees[src][p].ver + 1
    <3>1. Trees[src][p].ver < Trees[Len(Trees)][p].ver
      BY <2>4, <2>7
    <3>2. FileMirror(p)!SourceMoves
      BY <2>1, <2>7, <3>1 DEF FileMirror!SourceMoves
    <3>. QED BY <2>5, <3>2 DEF FileMirror!Next
  <2>8. Trees[src'][p].ver = Trees[src][p].ver \/ Trees[src'][p].ver = Trees[src][p].ver + 1
    BY <2>3, <2>4
  <2>. QED BY <2>6, <2>7, <2>8
<1>4. CASE \/ ClearFlag \/ PlanRefused \/ Planned \/ WorkDone \/ Cleanup
           \/ Kill \/ Interrupt \/ RunBreaks \/ UNCHANGED vars
  <2>1. UNCHANGED <<dest, src, at, seen>>
    BY <1>4 DEF ClearFlag, PlanRefused, Planned, WorkDone, Cleanup, Kill, Interrupt, RunBreaks,
       vars, run
  <2>2. at[p] # "place" \/ part'[p] = part[p]
    <3>1. CASE Cleanup
      BY <1>t, <3>1 DEF Cleanup, StagesFit
    <3>2. CASE ~Cleanup
      BY <1>4, <3>2 DEF ClearFlag, PlanRefused, Planned, WorkDone, Kill, Interrupt, RunBreaks,
         vars, run
    <3>. QED BY <3>1, <3>2
  <2>. QED BY <1>t, <1>n, <2>1, <2>2, SteadyRests
<1>5. ASSUME NEW q \in Paths,
             \/ PlanDir(q) \/ SkipLink(q) \/ PlanUnlink(q) \/ PlanLink(q) \/ PlanFile(q)
             \/ Begin(q) \/ RdmaUnavailable(q) \/ RdmaDeclined(q) \/ Copy(q)
             \/ CopyGivesUp(q) \/ Place(q) \/ Stamp(q) \/ Finish(q) \/ JobFails(q)
      PROVE  Steady(p)' /\ [FileMirror(p)!Next]_(FileMirror(p)!vars)
  <2>1. CASE q = p
    BY <1>n, <1>5, <2>1, SteadyPlanned, SteadyWorked
  <2>2. CASE q # p
    <3>1. Touches(q)
      BY <1>t, <1>5, StepTouches
    <3>2. /\ UNCHANGED <<src, seen>> /\ at[q] # "none" /\ at'[p] = at[p]
      BY <1>t, <1>5, <2>2, PlanMoves, WorkMoves DEF Active
    <3>3. seen[q].kind # "none"
      BY <1>t, <3>2 DEF TreeInv, ListedAt
    <3>4. dest'[p] = dest[p]
      BY <1>t, <2>2, <3>1, <3>3, SteadyAlone
    <3>5. part'[p] = part[p]
      BY <1>t, <1>5, <2>2 DEF TypeOK, PlanDir, SkipLink, PlanUnlink, PlanLink, PlanFile, Begin,
         RdmaUnavailable, RdmaDeclined, Copy, CopyGivesUp, Place, Stamp, Finish, JobFails
    <3>. QED BY <1>t, <1>n, <3>2, <3>4, <3>5, SteadyRests
  <2>. QED BY <2>1, <2>2
<1>. QED BY <1>1, <1>2, <1>3, <1>4, <1>5, StepCases

\* Each file of the tree goes through what Mirror promises, and what FileSync shows of
\* a single file: runs over the tree, with their other files, links and directories,
\* and any number of workers, do not get in its way.
THEOREM FilesKeepPromiseHolds == Spec => FilesKeepPromise
<1>1. Init => MirrorInv /\ \A p \in SteadyFiles : FileMirror(p)!Init
  BY MirrorInit
<1>2. MirrorInv /\ [Next]_vars =>
        MirrorInv' /\ [\A p \in SteadyFiles : [FileMirror(p)!Next]_(FileMirror(p)!vars)]_vars
  BY MirrorStep
<1>. QED BY <1>1, <1>2, PTL DEF Spec, FilesKeepPromise

=============================================================================
