---------------------------- MODULE RunnerProofs ----------------------------
(***************************************************************************)
(* Theorems about Runner, for every set of idempotency keys, timer ticks   *)
(* and bridge threads, and every number of faults.                         *)
(***************************************************************************)
EXTENDS Runner, FiniteSetTheorems, TLAPS

Pcs == {"idle", "ask", "probe", "mark", "unit", "free", "reserve", "start"}
Row == [pc : Pcs, key : Key \cup {Nobody}, seen : SUBSET (Run \X Active)]
Open(r) == receipt[r] \in {"none", "queued"}

(* A thread that is past its reconciliation serves a request.              *)
Requests ==
    \A t \in Thread : thread[t].pc \in {"unit", "free", "reserve", "start"} => thread[t].key \in Key

(* The lock has one holder, and its holder has no earlier command alive.   *)
Exclusive ==
    /\ \A r, s \in Run : Holding(r) /\ Holding(s) => r = s
    /\ \A r \in Run : wrapper[r] \in {"claim", "spawn"} => r \notin alive

(* A command is begun after its request was claimed, and never again.      *)
Counted ==
    \A k \in Key :
      /\ begun[k] <= 1
      /\ Open(k) => begun[k] = 0
      /\ wrapper[k] = "spawn" => begun[k] = 0 /\ ~Open(k)

(* A tick that has not claimed has left no trace.                          *)
TicksFresh ==
    \A r \in Timer : wrapper[r] \in {"off", "lock", "claim"} =>
      receipt[r] = "none" /\ r \notin claimed /\ r \notin alive

(* A claimed run with a command, or about to begin it.                     *)
Protected(r) == r \in claimed /\ (r \in alive \/ wrapper[r] = "spawn")

Shown == \A r \in Run : Protected(r) => receipt[r] = "running"

(* What a thread has read as running is past its claim; once the thread    *)
(* has found the lock free, nothing it has read is a live claimed run.     *)
Readings ==
    \A t \in Thread, r \in Run : <<r, "running">> \in thread[t].seen =>
      /\ ~Open(r)
      /\ thread[t].pc = "mark" => ~Protected(r)

JournalInv == TypeOK /\ Requests /\ Exclusive /\ Counted /\ TicksFresh /\ Shown /\ Readings

USE RunnerAssumption

LEMMA Updates ==
  ASSUME NEW w \in Row
  PROVE  /\ \A v \in Pcs : [w EXCEPT !.pc = v] \in Row
         /\ \A v \in Pcs, u \in SUBSET (Run \X Active) : [w EXCEPT !.pc = v, !.seen = u] \in Row
         /\ \A u \in SUBSET (Run \X Active) : [w EXCEPT !.seen = u] \in Row
BY DEF Row

LEMMA Threads == TypeOK <=>
    /\ receipt \in [Run -> {"none", "ended"} \cup Active]
    /\ aged \subseteq Key /\ claimed \subseteq Run /\ alive \subseteq Run
    /\ wrapper \in [Run -> {"off", "lock", "claim", "spawn", "wait", "gone"}]
    /\ begun \in [Key -> Nat]
    /\ thread \in [Thread -> Row]
    /\ faults \in 0..MaxFaults /\ again \in 0..MaxAgain
BY DEF TypeOK, Row, Pcs

LEMMA IdleTyped == Idle \in Row
BY DEF Idle, Row, Pcs

LEMMA ReconciledTyped ==
  ASSUME TypeOK, NEW t \in Thread
  PROVE  Reconciled(t) \in Row
<1>1. thread[t] \in Row
  BY Threads
<1>2. "unit" \in Pcs /\ {} \in SUBSET (Run \X Active)
  BY DEF Pcs
<1>3. [thread[t] EXCEPT !.pc = "unit", !.seen = {}] \in Row
  BY <1>1, <1>2, Updates
<1> QED
  BY <1>3, IdleTyped DEF Reconciled

LEMMA RowsTyped == TypeOK => Rows \in SUBSET (Run \X Active)
<1> SUFFICES ASSUME TypeOK PROVE Rows \in SUBSET (Run \X Active)
  OBVIOUS
<1>1. ASSUME NEW r \in Waiting \cup {s \in Run : receipt[s] = "running"}
      PROVE  <<r, receipt[r]>> \in Run \X Active
  BY <1>1 DEF Waiting, Active, Run, TypeOK
<1> QED
  BY <1>1 DEF Rows

(* Every way a thread moves leaves it a thread.                            *)
LEMMA ThreadTyped ==
  ASSUME TypeOK, NEW t \in Thread
  PROVE  /\ Leave(t) => thread' \in [Thread -> Row]
         /\ \A v \in Pcs : Goto(t, v) => thread' \in [Thread -> Row]
         /\ \A k \in Key \cup {Nobody} : Reading(t, k) => thread' \in [Thread -> Row]
<1>0. thread \in [Thread -> Row] /\ thread[t] \in Row
  BY Threads
<1>1. Leave(t) => thread' \in [Thread -> Row]
  BY <1>0, IdleTyped DEF Leave
<1>2. ASSUME NEW v \in Pcs, Goto(t, v) PROVE thread' \in [Thread -> Row]
  <2>1. [thread[t] EXCEPT !.pc = v] \in Row
    BY <1>0, Updates
  <2> QED
    BY <1>0, <1>2, <2>1 DEF Goto
<1>3. ASSUME NEW k \in Key \cup {Nobody}, Reading(t, k) PROVE thread' \in [Thread -> Row]
  <2>1. [pc |-> "ask", key |-> k, seen |-> Rows] \in Row
    BY RowsTyped DEF Row, Pcs
  <2> QED
    BY <1>0, <1>3, <2>1 DEF Reading
<1> QED
  BY <1>1, <1>2, <1>3

-----------------------------------------------------------------------------
(* Which variables the wrappers and the threads leave alone.               *)
jobVars == <<receipt, aged, wrapper, alive, claimed, begun>>

LEMMA WrapperTypes ==
  ASSUME TypeOK, NEW r \in Run,
         \/ Wrapping(r) \/ CommandEnds(r) \/ Killed(r)
         \/ r \in Timer /\ Fires(r)
         \/ r \in Key /\ (Ages(r) \/ Again(r))
  PROVE  TypeOK'
<1> USE DEF Fault
<1>1. CASE Lock(r) BY <1>1 DEF Lock, TypeOK
<1>2. CASE LockBusy(r) BY <1>2 DEF LockBusy, TypeOK, Active
<1>3. CASE Claim(r)
  <2>1. Interrupted \in [Run -> {"none", "ended"} \cup Active]
    BY DEF Interrupted, TypeOK, Active
  <2> QED
    BY <1>3, <2>1 DEF Claim, TypeOK, Active
<1>4. CASE ClaimFails(r) BY <1>4 DEF ClaimFails, TypeOK
<1>5. CASE Spawn(r) BY <1>5 DEF Spawn, TypeOK
<1>6. CASE Finish(r) BY <1>6 DEF Finish, TypeOK, Active
<1>7. CASE CommandEnds(r) BY <1>7 DEF CommandEnds, TypeOK
<1>8. CASE Killed(r) BY <1>8 DEF Killed, TypeOK
<1>9. CASE Fires(r) BY <1>9 DEF Fires, TypeOK
<1>10. CASE r \in Key /\ Ages(r) BY <1>10 DEF Ages, execVars, TypeOK
<1>11. CASE Again(r) BY <1>11 DEF Again, TypeOK
<1> QED
  BY <1>1, <1>2, <1>3, <1>4, <1>5, <1>6, <1>7, <1>8, <1>9, <1>10, <1>11 DEF Wrapping

LEMMA AskTypes ==
  ASSUME TypeOK, NEW t \in Thread, AskUnits(t) \/ Probe(t) \/ Mark(t)
  PROVE  TypeOK'
<1>0. thread \in [Thread -> Row] /\ thread[t] \in Row /\ Reconciled(t) \in Row
  BY Threads, ReconciledTyped
<1>1. CASE AskUnits(t)
  <2> DEFINE stale == Stale(thread[t].seen)
  <2>1. stale \in SUBSET (Run \X Active) /\ "probe" \in Pcs
    BY <1>0 DEF Stale, Row, Pcs
  <2>2. [thread[t] EXCEPT !.pc = "probe", !.seen = stale] \in Row
    BY <1>0, <2>1, Updates
  <2>3. thread' = [thread EXCEPT ![t] = IF stale = {} THEN Reconciled(t)
                      ELSE [thread[t] EXCEPT !.pc = "probe", !.seen = stale]]
    BY <1>1 DEF AskUnits
  <2> HIDE DEF stale
  <2>4. thread' \in [Thread -> Row]
    BY <1>0, <2>2, <2>3
  <2> QED
    BY <1>1, <2>4, Threads DEF AskUnits, execVars, TypeOK, Row, Pcs
<1>2. CASE Probe(t)
  <2>1. [thread[t] EXCEPT !.pc = "mark"] \in Row
    BY <1>0, Updates DEF Pcs
  <2>2. thread' \in [Thread -> Row]
    BY <1>0, <1>2, <2>1 DEF Probe
  <2> QED
    BY <1>2, <2>2, Threads DEF Probe, execVars, TypeOK, Row, Pcs
<1>3. CASE Mark(t)
  <2>1. PICK c \in thread[t].seen :
          /\ receipt' = IF Markable(c) THEN [receipt EXCEPT ![c[1]] = "ended"] ELSE receipt
          /\ thread' = [thread EXCEPT ![t] =
               IF thread[t].seen = {c} THEN Reconciled(t)
               ELSE [thread[t] EXCEPT !.seen = thread[t].seen \ {c}]]
    BY <1>3 DEF Mark
  <2>2. thread[t].seen \ {c} \in SUBSET (Run \X Active) /\ c \in Run \X Active
    BY <1>0 DEF Row
  <2>3. [thread[t] EXCEPT !.seen = thread[t].seen \ {c}] \in Row
    BY <1>0, <2>2, Updates
  <2>4. thread' \in [Thread -> Row]
    BY <1>0, <2>1, <2>3
  <2>5. receipt' \in [Run -> {"none", "ended"} \cup Active]
    BY <2>1, <2>2 DEF TypeOK
  <2> QED
    BY <1>3, <2>4, <2>5 DEF Mark, execVars, TypeOK, Row, Pcs
<1> QED
  BY <1>1, <1>2, <1>3

LEMMA ServeTypes ==
  ASSUME TypeOK, NEW t \in Thread,
         \/ CheckUnit(t) \/ CheckLock(t) \/ Reserve(t) \/ StartUnit(t) \/ ThreadFails(t)
         \/ \E k \in Key : Post(t, k)
         \/ Sweep(t)
  PROVE  TypeOK'
<1> USE DEF Fault, execVars
<1>0. thread \in [Thread -> Row] /\ thread[t] \in Row /\ Reconciled(t) \in Row
  BY Threads, ReconciledTyped
<1>1. thread' \in [Thread -> Row]
  <2>1. "free" \in Pcs /\ "reserve" \in Pcs /\ "start" \in Pcs
    BY DEF Pcs
  <2> QED
    BY <2>1, ThreadTyped DEF CheckUnit, CheckLock, Reserve, StartUnit, ThreadFails, Post, Sweep
<1>2. CASE UNCHANGED jobVars
  <2>1. faults' \in 0..MaxFaults /\ UNCHANGED again
    BY <1>2 DEF CheckUnit, CheckLock, Reserve, StartUnit, ThreadFails, Post, Sweep, TypeOK
  <2> QED
    BY <1>1, <1>2, <2>1 DEF jobVars, TypeOK, Row, Pcs
<1>3. CASE Reserve(t)
  BY <1>1, <1>3 DEF Reserve, TypeOK, Row, Pcs, Active
<1>4. CASE StartUnit(t)
  BY <1>1, <1>4 DEF StartUnit, TypeOK, Row, Pcs
<1> QED
  BY <1>2, <1>3, <1>4 DEF CheckUnit, CheckLock, ThreadFails, Post, Sweep, jobVars

LEMMA NextTypes == TypeOK /\ [Next]_vars => TypeOK'
<1> SUFFICES ASSUME TypeOK, [Next]_vars PROVE TypeOK'
  OBVIOUS
<1>1. CASE BridgeDies
  <2>1. thread' \in [Thread -> Row]
    BY <1>1, IdleTyped DEF BridgeDies
  <2> QED
    BY <1>1, <2>1 DEF BridgeDies, Fault, execVars, TypeOK, Row, Pcs
<1>2. CASE UNCHANGED vars
  BY <1>2 DEF vars, execVars, TypeOK
<1> QED
  BY <1>1, <1>2, WrapperTypes, AskTypes, ServeTypes DEF Next, Run, Thread, Serving, Wrapping

(* Every variable keeps its type.                                          *)
THEOREM RunnerTypes == Spec => []TypeOK
<1>1. Init => TypeOK
  BY IdleTyped, Threads DEF Init, TypeOK, Row, Pcs
<1> QED
  BY <1>1, NextTypes, PTL DEF Spec

-----------------------------------------------------------------------------
(* What a step may do, by the part of the system that takes it.            *)
WrapperStep(r) ==
    \/ Wrapping(r) \/ CommandEnds(r) \/ Killed(r)
    \/ r \in Timer /\ Fires(r)
    \/ r \in Key /\ (Ages(r) \/ Again(r))
ThreadStep(t) ==
    \/ Serving(t) \/ ThreadFails(t)
    \/ \E k \in Key : Post(t, k)
    \/ Sweep(t)

LEMMA Steps ==
  ASSUME [Next]_vars
  PROVE  \/ \E r \in Run : WrapperStep(r)
         \/ \E t \in Thread : ThreadStep(t)
         \/ BridgeDies
         \/ UNCHANGED vars
BY DEF Next, WrapperStep, ThreadStep, Run, Thread

(* A thread touches no run but by a row it ends, a request it reserves and *)
(* a unit it starts.                                                       *)
LEMMA ThreadMoves ==
  ASSUME TypeOK, NEW t \in Thread, ThreadStep(t)
  PROVE  /\ UNCHANGED <<alive, claimed, begun>>
         /\ \A u \in Thread \ {t} : thread'[u] = thread[u]
         /\ \/ Mark(t) /\ UNCHANGED wrapper
            \/ Reserve(t) /\ UNCHANGED wrapper
            \/ StartUnit(t) /\ UNCHANGED receipt
            \/ ~Mark(t) /\ UNCHANGED <<receipt, wrapper>>
<1> USE DEF execVars
<1>1. CASE Mark(t) BY <1>1 DEF Mark, TypeOK
<1>2. CASE Reserve(t) BY <1>2 DEF Reserve, TypeOK, Goto, Leave
<1>3. CASE StartUnit(t) BY <1>3 DEF StartUnit, TypeOK, Leave
<1>4. CASE AskUnits(t) \/ Probe(t) BY <1>1, <1>4 DEF AskUnits, Probe, TypeOK
<1>5. CASE CheckUnit(t) \/ CheckLock(t) BY <1>1, <1>5 DEF CheckUnit, CheckLock, Goto, Leave, TypeOK
<1>6. CASE ThreadFails(t) BY <1>1, <1>6 DEF ThreadFails, Leave, TypeOK
<1>7. CASE Sweep(t) \/ \E k \in Key : Post(t, k) BY <1>1, <1>7 DEF Sweep, Post, Reading, TypeOK
<1> QED
  BY <1>1, <1>2, <1>3, <1>4, <1>5, <1>6, <1>7 DEF ThreadStep, Serving

LEMMA ClaimMoves ==
  ASSUME TypeOK, NEW r \in Run, Claim(r)
  PROVE  /\ wrapper[r] = "claim" /\ UNCHANGED <<alive, begun>>
         /\ \A s \in Run \ {r} :
              /\ receipt'[s] = IF receipt[s] = "running" THEN "ended" ELSE receipt[s]
              /\ wrapper'[s] = wrapper[s]
         /\ \/ /\ Claimable(r) /\ claimed' = claimed \cup {r}
               /\ receipt'[r] = "running" /\ wrapper'[r] = "spawn"
            \/ /\ ~Claimable(r) /\ claimed' = claimed
               /\ receipt'[r] = IF receipt[r] = "running" THEN "ended" ELSE receipt[r]
               /\ wrapper'[r] = "off"
<1>1. \A s \in Run : Interrupted[s] = IF receipt[s] = "running" THEN "ended" ELSE receipt[s]
  BY DEF Interrupted
<1>2. DOMAIN Interrupted = Run /\ DOMAIN wrapper = Run
  BY DEF Interrupted, TypeOK
<1>3. CASE Claimable(r)
  <2>1. receipt' = [Interrupted EXCEPT ![r] = "running"]
    BY <1>3 DEF Claim
  <2>2. receipt'[r] = "running" /\ \A s \in Run \ {r} : receipt'[s] = Interrupted[s]
    BY <1>2, <2>1
  <2> QED
    BY <1>1, <1>2, <1>3, <2>2 DEF Claim
<1>4. CASE ~Claimable(r)
  BY <1>1, <1>2, <1>4 DEF Claim
<1> QED
  BY <1>3, <1>4

LEMMA ExclusiveStays == TypeOK /\ Exclusive /\ [Next]_vars => Exclusive'
<1> SUFFICES ASSUME TypeOK, Exclusive, [Next]_vars PROVE Exclusive'
  OBVIOUS
<1>1. ASSUME NEW r \in Run, WrapperStep(r) PROVE Exclusive'
  <2> USE DEF Exclusive, Holding, TypeOK
  <2>1. CASE Lock(r) BY <2>1 DEF Lock, LockHeld
  <2>2. CASE LockBusy(r) BY <2>2 DEF LockBusy
  <2>3. CASE Claim(r) BY <2>3 DEF Claim
  <2>4. CASE ClaimFails(r) BY <2>4 DEF ClaimFails
  <2>5. CASE Spawn(r) BY <2>5 DEF Spawn
  <2>6. CASE Finish(r) BY <2>6 DEF Finish
  <2>7. CASE CommandEnds(r) BY <2>7 DEF CommandEnds
  <2>8. CASE Killed(r) BY <2>8 DEF Killed
  <2>9. CASE Fires(r) BY <2>9 DEF Fires
  <2>10. CASE Ages(r) BY <2>10 DEF Ages, execVars
  <2>11. CASE Again(r) BY <2>11 DEF Again
  <2> QED
    BY <1>1, <2>1, <2>2, <2>3, <2>4, <2>5, <2>6, <2>7, <2>8, <2>9, <2>10, <2>11 DEF WrapperStep, Wrapping
<1>2. ASSUME NEW t \in Thread, ThreadStep(t) PROVE Exclusive'
  <2>1. CASE StartUnit(t)
    BY <2>1 DEF StartUnit, Exclusive, Holding, TypeOK
  <2>2. CASE UNCHANGED <<wrapper, alive>>
    BY <2>2 DEF Exclusive, Holding
  <2> QED
    BY <1>2, <2>1, <2>2, ThreadMoves
<1>3. CASE BridgeDies \/ UNCHANGED vars
  BY <1>3 DEF BridgeDies, vars, execVars, Exclusive, Holding
<1> QED
  BY <1>1, <1>2, <1>3, Steps

LEMMA RequestsStay == TypeOK /\ Requests /\ [Next]_vars => Requests'
<1> SUFFICES ASSUME TypeOK, Requests, [Next]_vars PROVE Requests'
  OBVIOUS
<1>0. thread \in [Thread -> Row]
  BY Threads
<1>1. ASSUME NEW r \in Run, WrapperStep(r) PROVE Requests'
  <2>1. thread' = thread
    BY <1>1 DEF WrapperStep, Wrapping, Lock, LockBusy, Claim, ClaimFails, Spawn, Finish, CommandEnds, Killed,
                Fires, Ages, Again
  <2> QED
    BY <2>1 DEF Requests
<1>2. ASSUME NEW t \in Thread, ThreadStep(t) PROVE Requests'
  <2> DEFINE Asks(w) == w.pc \in {"unit", "free", "reserve", "start"} => w.key \in Key
  <2>1. Asks(Idle) /\ Asks(Reconciled(t)) /\ Asks(thread[t])
    BY <1>0 DEF Idle, Reconciled, Requests, Row
  <2>2. Asks(thread'[t])
    <3>1. CASE Leave(t)
      BY <1>0, <2>1, <3>1 DEF Leave
    <3>2. CASE thread[t].key \in Key /\ \E v \in {"free", "reserve", "start"} : Goto(t, v)
      BY <1>0, <3>2 DEF Goto, Row
    <3>3. CASE AskUnits(t)
      BY <1>0, <2>1, <3>3 DEF AskUnits, Row
    <3>4. CASE Probe(t)
      BY <1>0, <2>1, <3>4 DEF Probe, Row
    <3>5. CASE Mark(t)
      BY <1>0, <2>1, <3>5 DEF Mark, AtT, Row
    <3>6. CASE Sweep(t) \/ \E k \in Key : Post(t, k)
      BY <1>0, <3>6 DEF Sweep, Post, Reading
    <3> QED
      BY <1>2, <2>1, <3>1, <3>2, <3>3, <3>4, <3>5, <3>6
         DEF ThreadStep, Serving, CheckUnit, CheckLock, Reserve, StartUnit, ThreadFails, AtT
  <2> HIDE DEF Asks
  <2>3. \A u \in Thread : Asks(thread'[u])
    BY <1>2, <2>2, ThreadMoves DEF Requests, Asks
  <2> QED
    BY <2>3 DEF Requests, Asks
<1>3. CASE BridgeDies \/ UNCHANGED vars
  BY <1>3 DEF BridgeDies, Idle, vars, Requests
<1> QED
  BY <1>1, <1>2, <1>3, Steps

LEMMA CountedStays == TypeOK /\ Requests /\ Counted /\ [Next]_vars => Counted'
<1> SUFFICES ASSUME TypeOK, Requests, Counted, [Next]_vars PROVE Counted'
  OBVIOUS
<1> USE DEF Counted, Open, TypeOK, Active
<1>1. ASSUME NEW r \in Run, WrapperStep(r) PROVE Counted'
  <2>1. CASE Lock(r) BY <2>1 DEF Lock, Run
  <2>2. CASE LockBusy(r) BY <2>2 DEF LockBusy, Run
  <2>3. CASE Claim(r) BY <2>3, ClaimMoves DEF Claimable, Run
  <2>4. CASE ClaimFails(r) BY <2>4 DEF ClaimFails, Run
  <2>5. CASE Spawn(r) BY <2>5 DEF Spawn, Run
  <2>6. CASE Finish(r) BY <2>6 DEF Finish, Run
  <2>7. CASE CommandEnds(r) BY <2>7 DEF CommandEnds
  <2>8. CASE Killed(r) BY <2>8 DEF Killed, Run
  <2>9. CASE Fires(r) BY <2>9 DEF Fires, Run
  <2>10. CASE Ages(r) BY <2>10 DEF Ages, execVars
  <2>11. CASE Again(r) BY <2>11 DEF Again, Run
  <2> QED
    BY <1>1, <2>1, <2>2, <2>3, <2>4, <2>5, <2>6, <2>7, <2>8, <2>9, <2>10, <2>11 DEF WrapperStep, Wrapping
<1>2. ASSUME NEW t \in Thread, ThreadStep(t) PROVE Counted'
  <2>1. begun' = begun
    BY <1>2, ThreadMoves
  <2>2. CASE Mark(t)
    <3>1. PICK c \in thread[t].seen :
            receipt' = IF Markable(c) THEN [receipt EXCEPT ![c[1]] = "ended"] ELSE receipt
      BY <2>2 DEF Mark
    <3>2. wrapper' = wrapper
      BY <2>2 DEF Mark, execVars
    <3>3. \A k \in Key : receipt'[k] \in {receipt[k], "ended"}
      BY <3>1 DEF Run
    <3> QED
      BY <2>1, <3>2, <3>3
  <2>3. CASE Reserve(t)
    BY <2>1, <2>3 DEF Reserve, Run, execVars
  <2>4. CASE StartUnit(t)
    BY <2>1, <2>4 DEF StartUnit, Run
  <2>5. CASE UNCHANGED <<receipt, wrapper>>
    BY <2>1, <2>5
  <2> QED
    BY <1>2, <2>2, <2>3, <2>4, <2>5, ThreadMoves
<1>3. CASE BridgeDies \/ UNCHANGED vars
  BY <1>3 DEF BridgeDies, vars, execVars
<1> QED
  BY <1>1, <1>2, <1>3, Steps

LEMMA TicksFreshStay == TypeOK /\ Requests /\ TicksFresh /\ [Next]_vars => TicksFresh'
<1> SUFFICES ASSUME TypeOK, Requests, TicksFresh, [Next]_vars PROVE TicksFresh'
  OBVIOUS
<1> USE DEF TicksFresh, TypeOK, Active
<1>1. ASSUME NEW r \in Run, WrapperStep(r) PROVE TicksFresh'
  <2>1. CASE Lock(r) BY <2>1 DEF Lock, Run
  <2>2. CASE LockBusy(r) BY <2>2 DEF LockBusy, Run
  <2>3. CASE Claim(r) BY <2>3, ClaimMoves DEF Claimable, Run
  <2>4. CASE ClaimFails(r) BY <2>4 DEF ClaimFails, Run
  <2>5. CASE Spawn(r) BY <2>5 DEF Spawn, Run
  <2>6. CASE Finish(r) BY <2>6 DEF Finish, Run
  <2>7. CASE CommandEnds(r) BY <2>7 DEF CommandEnds
  <2>8. CASE Killed(r) BY <2>8 DEF Killed, Run
  <2>9. CASE Fires(r) BY <2>9 DEF Fires, Run
  <2>10. CASE Ages(r) BY <2>10 DEF Ages, execVars
  <2>11. CASE r \in Key /\ Again(r) BY <2>11 DEF Again, Run
  <2> QED
    BY <1>1, <2>1, <2>2, <2>3, <2>4, <2>5, <2>6, <2>7, <2>8, <2>9, <2>10, <2>11 DEF WrapperStep, Wrapping
<1>2. ASSUME NEW t \in Thread, ThreadStep(t) PROVE TicksFresh'
  <2>1. UNCHANGED <<alive, claimed>>
    BY <1>2, ThreadMoves
  <2>2. CASE Mark(t)
    <3>1. PICK c \in thread[t].seen :
            receipt' = IF Markable(c) THEN [receipt EXCEPT ![c[1]] = "ended"] ELSE receipt
      BY <2>2 DEF Mark
    <3>2. wrapper' = wrapper
      BY <2>2 DEF Mark, execVars
    <3>3. c \in Run \X Active
      BY <3>1
    <3>4. \A k \in Run : receipt[k] = "none" => receipt'[k] = "none"
      BY <3>1, <3>3 DEF Markable
    <3> QED
      BY <2>1, <3>2, <3>4 DEF Run
  <2>3. CASE Reserve(t)
    <3>1. thread[t].key \in Key
      BY <2>3 DEF Reserve, AtT, Requests
    <3> QED
      BY <2>1, <2>3, <3>1 DEF Reserve, Run, execVars
  <2>4. CASE StartUnit(t)
    <3>1. thread[t].key \in Key
      BY <2>4 DEF StartUnit, AtT, Requests
    <3> QED
      BY <2>1, <2>4, <3>1 DEF StartUnit, Run
  <2>5. CASE UNCHANGED <<receipt, wrapper>>
    BY <2>1, <2>5
  <2> QED
    BY <1>2, <2>2, <2>3, <2>4, <2>5, ThreadMoves
<1>3. CASE BridgeDies \/ UNCHANGED vars
  BY <1>3 DEF BridgeDies, vars, execVars
<1> QED
  BY <1>1, <1>2, <1>3, Steps

LEMMA ShownStays == JournalInv /\ [Next]_vars => Shown'
<1> SUFFICES ASSUME JournalInv, [Next]_vars PROVE Shown'
  OBVIOUS
<1>0. TypeOK /\ Shown /\ Exclusive /\ TicksFresh /\ Requests /\ Counted /\ Readings
  BY DEF JournalInv
<1>1. ASSUME NEW r \in Run, WrapperStep(r) PROVE Shown'
  <2> USE <1>0 DEF Shown, Protected, TypeOK, Active
  <2>1. CASE Lock(r) BY <2>1 DEF Lock
  <2>2. CASE LockBusy(r) BY <2>2 DEF LockBusy, TicksFresh, Run
  <2>3. CASE Claim(r)
    <3>1. \A s \in Run \ {r} : ~Holding(s)
      BY <2>3 DEF Claim, Exclusive, Holding
    <3>2. r \notin alive /\ alive' = alive
      BY <2>3 DEF Claim, Exclusive
    <3>3. \A s \in Run \ {r} : s \notin alive /\ wrapper'[s] # "spawn"
      BY <2>3, <3>1, ClaimMoves DEF Holding
    <3> QED
      BY <2>3, <3>2, <3>3, ClaimMoves
  <2>4. CASE ClaimFails(r) BY <2>4 DEF ClaimFails, TicksFresh
  <2>5. CASE Spawn(r) BY <2>5 DEF Spawn
  <2>6. CASE Finish(r) BY <2>6 DEF Finish
  <2>7. CASE CommandEnds(r) BY <2>7 DEF CommandEnds
  <2>8. CASE Killed(r) BY <2>8 DEF Killed
  <2>9. CASE Fires(r) BY <2>9 DEF Fires
  <2>10. CASE Ages(r) BY <2>10 DEF Ages, execVars
  <2>11. CASE Again(r) BY <2>11 DEF Again
  <2> QED
    BY <1>1, <2>1, <2>2, <2>3, <2>4, <2>5, <2>6, <2>7, <2>8, <2>9, <2>10, <2>11 DEF WrapperStep, Wrapping
<1>2. ASSUME NEW t \in Thread, ThreadStep(t) PROVE Shown'
  <2>1. UNCHANGED <<alive, claimed>>
    BY <1>0, <1>2, ThreadMoves
  <2>2. \A r \in Run : Protected(r)' => Protected(r)
    <3>1. \A r \in Run : wrapper'[r] = "spawn" => wrapper[r] = "spawn"
      <4>1. CASE StartUnit(t) BY <1>0, <4>1 DEF StartUnit, TypeOK
      <4> QED BY <1>2, <4>1, ThreadMoves, <1>0
    <3> QED
      BY <2>1, <3>1 DEF Protected
  <2>3. ASSUME NEW r \in Run, Protected(r) PROVE receipt'[r] = "running"
    <3>0. receipt[r] = "running"
      BY <1>0, <2>3 DEF Shown
    <3>1. CASE Mark(t)
      <4>1. PICK c \in thread[t].seen :
              receipt' = IF Markable(c) THEN [receipt EXCEPT ![c[1]] = "ended"] ELSE receipt
        BY <3>1 DEF Mark
      <4>2. thread[t].pc = "mark" /\ c \in Run \X Active
        BY <1>0, <3>1 DEF Mark, AtT, TypeOK
      <4>3. <<r, "running">> \notin thread[t].seen
        BY <1>0, <2>3, <4>2 DEF Readings
      <4>4. ~(c[1] = r /\ Markable(c))
        BY <3>0, <4>1, <4>2, <4>3 DEF Markable
      <4> QED
        BY <1>0, <3>0, <4>1, <4>4 DEF TypeOK
    <3>2. CASE Reserve(t)
      BY <1>0, <3>0, <3>2 DEF Reserve, TypeOK
    <3> QED
      BY <1>2, <3>0, <3>1, <3>2, <1>0, ThreadMoves
  <2> QED
    BY <2>2, <2>3 DEF Shown
<1>3. CASE BridgeDies \/ UNCHANGED vars
  BY <1>0, <1>3 DEF BridgeDies, vars, execVars, Shown, Protected
<1> QED
  BY <1>1, <1>2, <1>3, <1>0, Steps

(* Nothing a wrapper does opens a row again, and it protects no run whose  *)
(* row was not open, but one it protects already.                          *)
LEMMA ReadingsKept ==
  ASSUME JournalInv, NEW r \in Run, WrapperStep(r), NEW s \in Run, ~Open(s)
  PROVE  ~Open(s)' /\ (Protected(s)' => Protected(s))
<1> USE DEF JournalInv, Open, Protected, TypeOK, Active
<1>1. CASE Lock(r) BY <1>1 DEF Lock
<1>2. CASE LockBusy(r) BY <1>2 DEF LockBusy
<1>3. CASE Claim(r) BY <1>3, ClaimMoves DEF Claimable, TicksFresh
<1>4. CASE ClaimFails(r) BY <1>4 DEF ClaimFails, TicksFresh
<1>5. CASE Spawn(r) BY <1>5 DEF Spawn
<1>6. CASE Finish(r) BY <1>6 DEF Finish
<1>7. CASE CommandEnds(r) BY <1>7 DEF CommandEnds
<1>8. CASE Killed(r) BY <1>8 DEF Killed
<1>9. CASE Fires(r) BY <1>9 DEF Fires
<1>10. CASE Ages(r) BY <1>10 DEF Ages, execVars
<1>11. CASE Again(r) BY <1>11 DEF Again
<1> QED
  BY <1>1, <1>2, <1>3, <1>4, <1>5, <1>6, <1>7, <1>8, <1>9, <1>10, <1>11 DEF WrapperStep, Wrapping

LEMMA ReadingsStay == JournalInv /\ [Next]_vars => Readings'
<1> SUFFICES ASSUME JournalInv, [Next]_vars PROVE Readings'
  OBVIOUS
<1>0. TypeOK /\ Readings /\ thread \in [Thread -> Row]
  BY Threads DEF JournalInv
<1>1. ASSUME NEW r \in Run, WrapperStep(r) PROVE Readings'
  <2>1. thread' = thread
    BY <1>1 DEF WrapperStep, Wrapping, Lock, LockBusy, Claim, ClaimFails, Spawn, Finish, CommandEnds, Killed,
                Fires, Ages, Again
  <2> QED
    BY <1>0, <1>1, <2>1, ReadingsKept DEF Readings
<1>2. ASSUME NEW t \in Thread, ThreadStep(t) PROVE Readings'
  <2>1. ASSUME NEW s \in Run PROVE (~Open(s) => ~Open(s)') /\ (Protected(s)' => Protected(s))
    <3>1. CASE StartUnit(t)
      BY <1>0, <3>1 DEF StartUnit, TypeOK, Open, Protected
    <3>2. CASE Reserve(t)
      BY <1>0, <3>2 DEF Reserve, TypeOK, Open, Protected, execVars
    <3>3. CASE Mark(t)
      <4>1. PICK c \in thread[t].seen :
              receipt' = IF Markable(c) THEN [receipt EXCEPT ![c[1]] = "ended"] ELSE receipt
        BY <3>3 DEF Mark
      <4>2. receipt'[s] \in {receipt[s], "ended"}
        BY <1>0, <4>1 DEF TypeOK
      <4>3. UNCHANGED <<wrapper, alive, claimed>>
        BY <3>3 DEF Mark, execVars
      <4> QED
        BY <4>2, <4>3 DEF Open, Protected
    <3>4. CASE UNCHANGED <<receipt, wrapper>>
      BY <1>0, <1>2, <3>4, ThreadMoves DEF Open, Protected
    <3> QED
      BY <1>0, <1>2, <3>1, <3>2, <3>3, <3>4, ThreadMoves
  <2>2. ASSUME NEW s \in Run, <<s, "running">> \in thread'[t].seen PROVE ~Open(s)
    <3>1. CASE Leave(t)
      BY <1>0, <2>2, <3>1 DEF Leave, Idle
    <3>2. CASE \E k \in Key \cup {Nobody} : Reading(t, k)
      <4>1. <<s, "running">> \in Rows
        BY <1>0, <2>2, <3>2 DEF Reading
      <4> QED
        BY <4>1 DEF Rows, Open
    <3>3. CASE thread'[t].seen \subseteq thread[t].seen
      BY <1>0, <2>2, <3>3 DEF Readings
    <3>4. Reconciled(t).seen = {}
      BY <1>0 DEF Reconciled, Idle, Row
    <3>5. CASE AskUnits(t)
      BY <1>0, <3>3, <3>4, <3>5 DEF AskUnits, Stale, Row
    <3>6. CASE Probe(t)
      BY <1>0, <3>3, <3>4, <3>6 DEF Probe, Row
    <3>7. CASE Mark(t)
      BY <1>0, <3>3, <3>4, <3>7 DEF Mark, Row
    <3>8. CASE \E v \in {"free", "reserve", "start"} : Goto(t, v)
      BY <1>0, <3>3, <3>8 DEF Goto, Row
    <3> QED
      BY <1>2, <3>1, <3>2, <3>5, <3>6, <3>7, <3>8
         DEF ThreadStep, Serving, CheckUnit, CheckLock, Reserve, StartUnit, ThreadFails, Post, Sweep
  <2>3. ASSUME NEW s \in Run, <<s, "running">> \in thread'[t].seen, thread'[t].pc = "mark"
        PROVE  ~Protected(s)
    <3>1. Reconciled(t).pc # "mark" /\ Idle.pc # "mark"
      BY <1>0 DEF Reconciled, Idle, Row
    <3>2. CASE Probe(t) /\ ~LockHeld
      BY <1>0, <3>2 DEF LockHeld, Holding, Protected
    <3>3. CASE Probe(t) /\ LockHeld
      BY <1>0, <2>3, <3>1, <3>3 DEF Probe
    <3>4. CASE Mark(t)
      <4>1. thread[t].pc = "mark" /\ thread'[t].seen \subseteq thread[t].seen
        BY <1>0, <2>3, <3>1, <3>4 DEF Mark, AtT, Row
      <4> QED
        BY <1>0, <2>3, <4>1 DEF Readings
    <3>5. CASE AskUnits(t)
      BY <1>0, <2>3, <3>1, <3>5 DEF AskUnits, Row
    <3>6. CASE Leave(t)
      BY <1>0, <2>3, <3>1, <3>6 DEF Leave
    <3>7. CASE \E v \in {"free", "reserve", "start"} : Goto(t, v)
      BY <1>0, <2>3, <3>7 DEF Goto, Row
    <3>8. CASE \E k \in Key \cup {Nobody} : Reading(t, k)
      BY <1>0, <2>3, <3>8 DEF Reading
    <3> QED
      BY <1>2, <3>2, <3>3, <3>4, <3>5, <3>6, <3>7, <3>8
         DEF ThreadStep, Serving, CheckUnit, CheckLock, Reserve, StartUnit, ThreadFails, Post, Sweep
  <2>4. ASSUME NEW u \in Thread, NEW s \in Run, <<s, "running">> \in thread'[u].seen
        PROVE  ~Open(s)' /\ (thread'[u].pc = "mark" => ~Protected(s)')
    <3>1. CASE u = t
      BY <2>1, <2>2, <2>3, <2>4, <3>1
    <3>2. CASE u # t
      <4>1. thread'[u] = thread[u]
        BY <1>0, <1>2, <3>2, ThreadMoves
      <4> QED
        BY <1>0, <2>1, <2>4, <4>1 DEF Readings
    <3> QED
      BY <3>1, <3>2
  <2> QED
    BY <2>4 DEF Readings
<1>3. CASE BridgeDies
  BY <1>0, <1>3 DEF BridgeDies, Idle, Readings
<1>4. CASE UNCHANGED vars
  BY <1>0, <1>4 DEF vars, execVars, Readings, Open, Protected
<1> QED
  BY <1>1, <1>2, <1>3, <1>4, Steps

LEMMA JournalStays == Spec => []JournalInv
<1>1. Init => JournalInv
  <2> SUFFICES ASSUME Init PROVE JournalInv
    OBVIOUS
  <2>1. TypeOK
    BY IdleTyped, Threads DEF Init, TypeOK, Row, Pcs
  <2> QED
    BY <2>1 DEF Init, JournalInv, Requests, Exclusive, Counted, TicksFresh, Shown, Readings, Open, Protected,
            Holding, Idle, Run
<1>2. JournalInv /\ [Next]_vars => JournalInv'
  BY NextTypes, RequestsStay, ExclusiveStays, CountedStays, TicksFreshStay, ShownStays, ReadingsStay
     DEF JournalInv
<1> QED
  BY <1>1, <1>2, PTL DEF Spec

-----------------------------------------------------------------------------
(* Whoever is killed, whoever starts a unit again and however often a      *)
(* request is repeated: two commands are never alive together, and no      *)
(* request begins two.                                                     *)
THEOREM CommandsRunOnce == Spec => []RunsOnce
<1>1. JournalInv => RunsOnce
  <2> SUFFICES ASSUME JournalInv PROVE RunsOnce
    OBVIOUS
  <2>1. Cardinality(alive) <= 1
    <3>1. CASE alive = {}
      BY <3>1, FS_EmptySet
    <3>2. CASE alive # {}
      <4>1. PICK r \in alive : TRUE
        BY <3>2
      <4>2. alive = {r}
        BY <4>1 DEF JournalInv, Exclusive, Holding, TypeOK
      <4>3. Cardinality(alive) = 1
        BY <4>2, FS_Singleton, Zenon
      <4> QED
        BY <4>3
    <3> QED
      BY <3>1, <3>2
  <2> QED
    BY <2>1 DEF JournalInv, Counted, RunsOnce
<1> QED
  BY <1>1, JournalStays, PTL

(* The row of a claimed run says running for as long as its command lives, *)
(* however late the bridge's threads act on what they have read.           *)
THEOREM ReconciliationSparesTheLiving == Spec => []LiveRunShown
<1>1. JournalInv => LiveRunShown
  BY DEF JournalInv, Shown, Protected, LiveRunShown, TypeOK
<1> QED
  BY <1>1, JournalStays, PTL
=============================================================================
