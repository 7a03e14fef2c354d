--------------------------- MODULE ConnectionPool ---------------------------
(***************************************************************************)
(* The pool of SSH connections that the transfer workers share             *)
(* (ConnectionPool, PooledConnection and the retry loop of                 *)
(* SshRemote::read_range in remote.rs).  The pool's mutex is held over     *)
(* short critical sections, each of them an action; connecting and using a *)
(* connection happen outside of it.  Waiting for a connection is a wait on *)
(* the pool's condition variable, with its spurious wake-ups.              *)
(***************************************************************************)
EXTENDS Integers, Sequences, FiniteSets

CONSTANTS
    Threads,    \* the workers
    MaxSize,    \* max_size of the pool
    Ops,        \* what workers do: "read" is read_range, "stat" any other call
    MaxFaults   \* how often a connection breaks or the server goes down

ASSUME PoolAssumption ==
    /\ IsFiniteSet(Threads)
    /\ MaxSize \in Nat \ {0}
    /\ Ops \subseteq {"read", "stat"}
    /\ MaxFaults \in Nat

VARIABLES
    idle,     \* PoolState.idle, a stack; an element says if it still works
    created,  \* PoolState.created
    up,       \* the server accepts connections
    pc,       \* where each worker is
    conn,     \* whether the connection it holds works
    op,       \* the call it makes
    tries,    \* failed attempts of read_range
    result,   \* how its last call went
    more,     \* whether it will make another
    faults    \* faults so far

worker == <<op, tries, result, more>>
vars   == <<idle, created, up, pc, conn, worker, faults>>

At(points) == {t \in Threads : pc[t] \in points}

Holding    == {"use", "replace", "return"}
Connecting == {"connect", "undo"}

\* Condvar::notify_one, together with the caller's own move to point p.
NotifyAndGo(t, p) ==
    \/ /\ At({"asleep"}) = {}
       /\ pc' = [pc EXCEPT ![t] = p]
    \/ \E s \in At({"asleep"}) : pc' = [pc EXCEPT ![t] = p, ![s] = "woken"]

-----------------------------------------------------------------------------
(* checkout.                                                               *)

Start(t) ==
    /\ pc[t] = "out"
    /\ more[t]
    /\ \E o \in Ops : op' = [op EXCEPT ![t] = o]
    /\ \E m \in BOOLEAN : more' = [more EXCEPT ![t] = m]
    /\ tries' = [tries EXCEPT ![t] = 0]
    /\ result' = [result EXCEPT ![t] = "none"]
    /\ pc' = [pc EXCEPT ![t] = "want"]
    /\ UNCHANGED <<idle, created, up, conn, faults>>

AtTheLoop(t) == pc[t] \in {"want", "woken"}

TakeIdle(t) ==
    /\ AtTheLoop(t)
    /\ idle # <<>>
    /\ conn' = [conn EXCEPT ![t] = idle[Len(idle)]]
    /\ idle' = SubSeq(idle, 1, Len(idle) - 1)
    /\ pc' = [pc EXCEPT ![t] = "use"]
    /\ UNCHANGED <<created, up, worker, faults>>

\* Mutant: one connection more than max_size.
GrowTooFar(t) ==
    /\ AtTheLoop(t)
    /\ idle = <<>>
    /\ created <= MaxSize
    /\ created' = created + 1
    /\ pc' = [pc EXCEPT ![t] = "connect"]
    /\ UNCHANGED <<idle, up, conn, worker, faults>>

\* The place is taken under the lock, the connection made without it.
Grow(t) ==
    /\ AtTheLoop(t)
    /\ idle = <<>>
    /\ created < MaxSize
    /\ created' = created + 1
    /\ pc' = [pc EXCEPT ![t] = "connect"]
    /\ UNCHANGED <<idle, up, conn, worker, faults>>

Wait(t) ==
    /\ AtTheLoop(t)
    /\ idle = <<>>
    /\ created >= MaxSize
    /\ pc' = [pc EXCEPT ![t] = "asleep"]
    /\ UNCHANGED <<idle, created, up, conn, worker, faults>>

SpuriousWakeup(t) ==
    /\ pc[t] = "asleep"
    /\ pc' = [pc EXCEPT ![t] = "woken"]
    /\ UNCHANGED <<idle, created, up, conn, worker, faults>>

Connected(t) ==
    /\ pc[t] = "connect"
    /\ up
    /\ conn' = [conn EXCEPT ![t] = TRUE]
    /\ pc' = [pc EXCEPT ![t] = "use"]
    /\ UNCHANGED <<idle, created, up, worker, faults>>

ConnectFailed(t) ==
    /\ pc[t] = "connect"
    /\ ~up
    /\ pc' = [pc EXCEPT ![t] = "undo"]
    /\ UNCHANGED <<idle, created, up, conn, worker, faults>>

\* Mutant: the place of the connection that failed is not given back.
GiveUpLeaking(t) ==
    /\ pc[t] = "undo"
    /\ NotifyAndGo(t, "out")
    /\ result' = [result EXCEPT ![t] = "error"]
    /\ UNCHANGED <<idle, created, up, conn, op, tries, more, faults>>

\* Mutant: nobody is told of the place given back.
GiveUpSilently(t) ==
    /\ pc[t] = "undo"
    /\ created' = IF created = 0 THEN 0 ELSE created - 1
    /\ pc' = [pc EXCEPT ![t] = "out"]
    /\ result' = [result EXCEPT ![t] = "error"]
    /\ UNCHANGED <<idle, up, conn, op, tries, more, faults>>

\* The place is given back (saturating_sub) and the call fails.
GiveUp(t) ==
    /\ pc[t] = "undo"
    /\ created' = IF created = 0 THEN 0 ELSE created - 1
    /\ NotifyAndGo(t, "out")
    /\ result' = [result EXCEPT ![t] = "error"]
    /\ UNCHANGED <<idle, up, conn, op, tries, more, faults>>

-----------------------------------------------------------------------------
(* Using the connection, and giving it back.                               *)

Succeed(t) ==
    /\ pc[t] = "use"
    /\ conn[t]
    /\ result' = [result EXCEPT ![t] = "ok"]
    /\ pc' = [pc EXCEPT ![t] = "return"]
    /\ UNCHANGED <<idle, created, up, conn, op, tries, more, faults>>

\* read_range tries to replace the connection, the other calls do not.
Fail(t) ==
    /\ pc[t] = "use"
    /\ ~conn[t]
    /\ result' = [result EXCEPT ![t] = "error"]
    /\ tries' = [tries EXCEPT ![t] = @ + 1]
    /\ pc' = [pc EXCEPT ![t] = IF op[t] = "read" THEN "replace" ELSE "return"]
    /\ UNCHANGED <<idle, created, up, conn, op, more, faults>>

\* Mutant: the broken connection is kept.
KeepBroken(t) ==
    /\ pc[t] = "replace"
    /\ pc' = [pc EXCEPT ![t] = "return"]
    /\ UNCHANGED <<idle, created, up, conn, worker, faults>>

\* Without a server the broken connection stays in place.
Replace(t) ==
    /\ pc[t] = "replace"
    /\ conn' = [conn EXCEPT ![t] = up]
    /\ pc' = [pc EXCEPT ![t] = "return"]
    /\ UNCHANGED <<idle, created, up, worker, faults>>

Retries(t) == op[t] = "read" /\ result[t] = "error" /\ tries[t] < 2

\* Mutant: nobody is told of the connection given back.
CheckinSilently(t) ==
    /\ pc[t] = "return"
    /\ idle' = Append(idle, conn[t])
    /\ conn' = [conn EXCEPT ![t] = FALSE]
    /\ pc' = [pc EXCEPT ![t] = IF Retries(t) THEN "want" ELSE "out"]
    /\ UNCHANGED <<created, up, worker, faults>>

\* The guard is dropped at the end of each attempt, working or not.
Checkin(t) ==
    /\ pc[t] = "return"
    /\ idle' = Append(idle, conn[t])
    /\ conn' = [conn EXCEPT ![t] = FALSE]
    /\ NotifyAndGo(t, IF Retries(t) THEN "want" ELSE "out")
    /\ UNCHANGED <<created, up, worker, faults>>

-----------------------------------------------------------------------------
(* The network and the server.                                             *)

Break ==
    /\ faults < MaxFaults
    /\ faults' = faults + 1
    /\ \/ /\ \E i \in DOMAIN idle : idle' = [idle EXCEPT ![i] = FALSE]
          /\ UNCHANGED conn
       \/ /\ \E t \in At({"use"}) : conn' = [conn EXCEPT ![t] = FALSE]
          /\ UNCHANGED idle
    /\ UNCHANGED <<created, up, pc, worker>>

\* The server goes away, with its connections or refusing new ones only.
ServerDown ==
    /\ faults < MaxFaults
    /\ up
    /\ faults' = faults + 1
    /\ up' = FALSE
    /\ \/ UNCHANGED <<idle, conn>>
       \/ /\ idle' = [i \in DOMAIN idle |-> FALSE]
          /\ conn' = [t \in Threads |-> FALSE]
    /\ UNCHANGED <<created, pc, worker>>

ServerUp ==
    /\ ~up
    /\ up' = TRUE
    /\ UNCHANGED <<idle, created, pc, conn, worker, faults>>

-----------------------------------------------------------------------------
\* ConnectionPool::new has opened one connection.
Init ==
    /\ idle = <<TRUE>>
    /\ created = 1
    /\ up = TRUE
    /\ pc = [t \in Threads |-> "out"]
    /\ conn = [t \in Threads |-> FALSE]
    /\ op \in [Threads -> Ops]
    /\ tries = [t \in Threads |-> 0]
    /\ result = [t \in Threads |-> "none"]
    /\ more = [t \in Threads |-> TRUE]
    /\ faults = 0

Step(t) ==
    \/ Start(t) \/ TakeIdle(t) \/ Grow(t) \/ Wait(t)
    \/ Connected(t) \/ ConnectFailed(t) \/ GiveUp(t)
    \/ Succeed(t) \/ Fail(t) \/ Replace(t) \/ Checkin(t)

Next ==
    \/ \E t \in Threads : Step(t) \/ SpuriousWakeup(t)
    \/ Break \/ ServerDown \/ ServerUp

Spec == Init /\ [][Next]_vars

\* A worker that can go on does; no wake-up comes that nobody sent.
FairSpec == Spec /\ \A t \in Threads : WF_vars(Step(t))

-----------------------------------------------------------------------------
\* The type of every variable.
TypeOK ==
    /\ idle \in Seq(BOOLEAN)
    /\ created \in 0 .. MaxSize
    /\ up \in BOOLEAN
    /\ pc \in [Threads -> {"out", "want", "asleep", "woken"}
                            \cup Holding \cup Connecting]
    /\ conn \in [Threads -> BOOLEAN]
    /\ op \in [Threads -> Ops]
    /\ tries \in [Threads -> 0 .. 2]
    /\ result \in [Threads -> {"none", "ok", "error"}]
    /\ more \in [Threads -> BOOLEAN]
    /\ faults \in 0 .. MaxFaults

\* created counts the connections there are and those being made: none is
\* leaked, none is counted twice, whatever fails (checkout, checkin, replace).
Accounted ==
    created = Len(idle) + Cardinality(At(Holding \cup Connecting))

\* A worker sleeps only while everyone it may wait for is yet to come back:
\* for each connection or free place there is, a worker has been woken that
\* has not looked yet (notify_one in checkin and in the failed connect).
NoLostWakeup ==
    At({"asleep"}) # {} =>
      Len(idle) + (MaxSize - created) <= Cardinality(At({"woken"}))

\* A pool as large as the number of workers, as run_sync makes it, never
\* keeps a worker waiting.
NobodyWaits == Cardinality(Threads) <= MaxSize => At({"asleep"}) = {}

\* Every worker gets through its calls once no further ones come in: a wait on
\* the pool ends, however many connections are broken by then.
AllServed ==
    (\A t \in Threads : <>[](~more[t])) => <>[](\A t \in Threads : pc[t] = "out")

\* Once the server stays up, reads stop failing: each broken connection costs
\* at most one attempt and is replaced, also one that another call failed on
\* and put back on top (read_range).
ReadsHeal ==
    <>[]up => <>[](\A t \in Threads :
                      pc[t] = "out" /\ more[t] => ~(op[t] = "read" /\ result[t] = "error"))

=============================================================================
