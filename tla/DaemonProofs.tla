----------------------------- MODULE DaemonProofs -----------------------------
(***************************************************************************)
(* Theorems about Daemon, for every set of daemons, holder names and       *)
(* sources, every lease time and clock, and any number of faults.          *)
(***************************************************************************)
EXTENDS Daemon, TLAPS

(* A run in hand, and the name of a process that is up.                    *)
Fresh(p) == ~Running(p) => proc[p].age = 0

Named ==
    /\ \A p \in Process : Live(p) => proc[p].holder # None
    /\ \A p, q \in Process :
         p # q /\ Live(p) /\ Live(q) => proc[p].holder # proc[q].holder

(* Until a run outlasts it, the lease of its source is its own, and runs   *)
(* out as the run grows old.                                               *)
Leased(p) ==
    Running(p) /\ ~Overran(p) =>
        /\ lease[Current(p)] # None
        /\ lease[Current(p)].holder = proc[p].holder
        /\ lease[Current(p)].left = Ttl - proc[p].age

LeaseInv ==
    /\ TypeOK /\ Named
    /\ \A p \in Process : Fresh(p) /\ Leased(p)
    /\ \A p \in Process : Running(p) /\ Overran(p) => overran

(* Who delivers has the plan of its own source in the pending row.         *)
Holds(p) == Delivering(p) => proc[p].plan = "current" /\ pending = Current(p)

PlanInv == ~overran => \A p \in Process : Holds(p)

USE DaemonAssumption

LEMMA OrderTyped == \A n \in 1..Len(Order) : Order[n] \in Source
<1>1. Order \in Seq(Source)
  OBVIOUS
<1>2. QED
  BY <1>1

(* A run that has not outlasted its lease has a second of it left.         *)
LEMMA SafeTimeTyped ==
  SafeTime \in Nat \ {0} /\ 0 \in 0..SafeTime /\ Ttl - SafeTime = TicksPerSecond - 1
BY DEF SafeTime

(* A record of a process stays one when a field takes a value of its own.  *)
LEMMA Updates ==
  ASSUME NEW r \in ProcType
  PROVE  /\ \A v \in Labels : [r EXCEPT !.pc = v] \in ProcType
         /\ \A v \in Holder : [r EXCEPT !.holder = v] \in ProcType
         /\ \A v \in 1..Len(Order) : [r EXCEPT !.next = v] \in ProcType
         /\ \A v \in 0..SafeTime : [r EXCEPT !.age = v] \in ProcType
         /\ \A v \in {"none", "current", "old"} : [r EXCEPT !.plan = v] \in ProcType
         /\ \A v \in BOOLEAN : [r EXCEPT !.resumed = v] \in ProcType
         /\ \A v \in BOOLEAN : [r EXCEPT !.stopping = v] \in ProcType
BY DEF ProcType

LEMMA DownTyped == Down \in ProcType /\ \A h \in Holder : [Down EXCEPT !.pc = "lease", !.holder = h] \in ProcType
<1>1. Down \in ProcType
  BY SafeTimeTyped DEF Down, ProcType, Labels
<1>2. "lease" \in Labels
  BY DEF Labels
<1> QED
  BY <1>1, <1>2, Updates, Zenon

(* The end of a turn: the next source, or the timer.                       *)
LEMMA AdvancedTyped ==
  ASSUME TypeOK, NEW p \in Process
  PROVE  /\ Advanced(p) \in ProcType
         /\ Advanced(p).pc \in {"lease", "wait"} /\ Advanced(p).age = 0
         /\ Advanced(p).holder = proc[p].holder
<1> DEFINE fresh == [proc[p] EXCEPT !.plan = "none", !.age = 0, !.resumed = FALSE]
<1>1. proc[p] \in ProcType
  BY DEF TypeOK
<1>2. fresh \in ProcType
  BY <1>1, SafeTimeTyped, Updates, Zenon
<1>3. fresh.age = 0 /\ fresh.holder = proc[p].holder /\ fresh.next = proc[p].next
  BY <1>1 DEF ProcType
<1>4. fresh.next \in 1..Len(Order) /\ Len(Order) \in Nat \ {0} /\ {"lease", "wait"} \subseteq Labels
  BY <1>1, <1>3 DEF ProcType, Labels
<1>5. Advanced(p) = IF proc[p].next < Len(Order)
                      THEN [fresh EXCEPT !.pc = "lease", !.next = fresh.next + 1]
                      ELSE [fresh EXCEPT !.pc = "wait", !.next = 1]
  BY DEF Advanced
<1> HIDE DEF fresh
<1>6. CASE proc[p].next < Len(Order)
  <2>1. fresh.next + 1 \in 1..Len(Order)
    BY <1>3, <1>4, <1>6
  <2>2. [fresh EXCEPT !.pc = "lease", !.next = fresh.next + 1] \in ProcType
    BY <1>2, <1>4, <2>1, Updates, Zenon
  <2> QED
    BY <1>2, <1>3, <1>5, <1>6, <2>2 DEF ProcType
<1>7. CASE ~(proc[p].next < Len(Order))
  <2>1. 1 \in 1..Len(Order)
    BY <1>4
  <2>2. [fresh EXCEPT !.pc = "wait", !.next = 1] \in ProcType
    BY <1>2, <1>4, <2>1, Updates, Zenon
  <2> QED
    BY <1>2, <1>3, <1>5, <1>7, <2>2 DEF ProcType
<1> QED
  BY <1>6, <1>7

LEMMA SetTyped ==
  ASSUME TypeOK, NEW p \in Process, NEW r \in ProcType, Set(p, r)
  PROVE  /\ proc' \in [Process -> ProcType] /\ proc'[p] = r
         /\ \A q \in Process : q # p => proc'[q] = proc[q]
BY DEF TypeOK, Set

LEMMA GotoTyped ==
  ASSUME TypeOK, NEW p \in Process, NEW label \in Labels, Goto(p, label)
  PROVE  /\ proc' \in [Process -> ProcType] /\ proc'[p] = [proc[p] EXCEPT !.pc = label]
         /\ \A q \in Process : q # p => proc'[q] = proc[q]
<1>1. [proc[p] EXCEPT !.pc = label] \in ProcType
  BY Updates DEF TypeOK
<1> QED
  BY <1>1, SetTyped DEF Goto

LEMMA InitTypes == Init => TypeOK /\ Named
<1> SUFFICES ASSUME Init PROVE TypeOK /\ Named
  OBVIOUS
<1>1. proc \in [Process -> ProcType]
  BY DownTyped DEF Init
<1>2. Named
  BY DEF Init, Named, Live, Down
<1>3. lease \in [Source -> {None} \cup [holder : Holder, left : -TicksPerSecond..Ttl]]
  BY DEF Init
<1>4. phase \in 0..TicksPerSecond - 1 /\ faults \in 0..MaxFaults
  BY DEF Init
<1>5. pending \in Source \cup {None} /\ overran \in BOOLEAN
  BY DEF Init
<1> QED
  BY <1>1, <1>2, <1>3, <1>4, <1>5 DEF TypeOK

LEMMA TickTypes == TypeOK /\ Tick => TypeOK'
<1> SUFFICES ASSUME TypeOK, Tick PROVE TypeOK'
  OBVIOUS
<1> USE DEF TypeOK, Tick
<1>1. phase' \in 0..TicksPerSecond - 1
  OBVIOUS
<1>2. ASSUME NEW s \in Source
      PROVE  lease'[s] \in {None} \cup [holder : Holder, left : -TicksPerSecond..Ttl]
  <2>1. CASE lease[s] # None
    <3>1. lease[s] \in [holder : Holder, left : -TicksPerSecond..Ttl]
      BY <2>1
    <3>2. Floor(lease[s].left - 1) \in -TicksPerSecond..Ttl
      BY <3>1 DEF Floor
    <3> QED
      BY <2>1, <3>1, <3>2
  <2> QED
    BY <2>1
<1>3. lease' \in [Source -> {None} \cup [holder : Holder, left : -TicksPerSecond..Ttl]]
  BY <1>2
<1>4. ASSUME NEW p \in Process PROVE proc'[p] \in ProcType
  <2>1. proc[p] \in ProcType /\ proc[p].age \in 0..SafeTime
    BY DEF ProcType
  <2>2. Older(p) \in 0..SafeTime
    BY <2>1, SafeTimeTyped DEF Older
  <2> QED
    BY <2>1, <2>2, Updates
<1>5. proc' \in [Process -> ProcType]
  BY <1>4
<1> QED
  BY <1>1, <1>3, <1>5

LEMMA StepTypes ==
  ASSUME TypeOK, Named, NEW p \in Process, Step(p) \/ Signal(p) \/ Crash(p)
  PROVE  TypeOK'
<1> USE DEF TypeOK
<1>1. proc[p] \in ProcType /\ Current(p) \in Source
  BY OrderTyped DEF ProcType, Current
<1>2. CASE Start(p)
  <2>1. PICK h \in Holder : Set(p, [Down EXCEPT !.pc = "lease", !.holder = h])
    BY <1>2 DEF Start
  <2> QED
    BY <1>2, <2>1, DownTyped, SetTyped DEF Start
<1>3. CASE Acquire(p)
  <2>1. [holder |-> proc[p].holder, left |-> Ttl] \in [holder : Holder, left : -TicksPerSecond..Ttl]
    BY <1>1, <1>3 DEF Acquire, ProcType, Named, Live, At
  <2> QED
    BY <1>1, <1>3, <2>1, GotoTyped DEF Acquire, Labels
<1>4. CASE Skip(p) \/ LeaseFails(p)
  <2>1. faults' \in 0..MaxFaults
    BY <1>4 DEF Skip, LeaseFails, Trouble
  <2> QED
    BY <1>4, <2>1, AdvancedTyped, SetTyped DEF Skip, LeaseFails
<1>5. CASE Sync(p) \/ Plan(p) \/ Unchanged(p) \/ Deliver(p)
  BY <1>5, GotoTyped DEF Sync, Plan, Unchanged, Deliver, Labels
<1>6. CASE RunFails(p)
  <2>1. [proc[p] EXCEPT !.pc = "release", !.plan = "none"] \in ProcType
    <3>1. "release" \in Labels
      BY DEF Labels
    <3> QED
      BY <1>1, <3>1, Updates, Zenon
  <2>2. faults' \in 0..MaxFaults
    BY <1>6 DEF RunFails, Trouble
  <2> QED
    BY <1>6, <2>1, <2>2, SetTyped DEF RunFails
<1>7. CASE Resume(p)
  <2>1. [proc[p] EXCEPT !.pc = "deliver", !.plan = "current", !.resumed = TRUE] \in ProcType
    <3>1. "deliver" \in Labels
      BY DEF Labels
    <3> QED
      BY <1>1, <3>1, Updates, Zenon
  <2> QED
    BY <1>7, <2>1, SetTyped DEF Resume
<1>8. CASE RefuseScope(p)
  BY <1>1, <1>8, Updates, SetTyped DEF RefuseScope, Labels
<1>9. CASE Save(p)
  <2>1. /\ [proc[p] EXCEPT !.pc = "deliver", !.plan = "current", !.resumed = FALSE] \in ProcType
        /\ [proc[p] EXCEPT !.pc = "release"] \in ProcType
    <3>1. "deliver" \in Labels /\ "release" \in Labels
      BY DEF Labels
    <3> QED
      BY <1>1, <3>1, Updates, Zenon
  <2> QED
    BY <1>1, <1>9, <2>1, SetTyped DEF Save
<1>10. CASE Complete(p)
  <2> DEFINE mine == proc[p].plan = "current"
  <2>1. PICK label \in {"release", "publish"} :
          /\ pending' = IF mine THEN None ELSE pending
          /\ proc' = [q \in Process |->
               IF q = p THEN [proc[p] EXCEPT !.pc = label, !.plan = "none"]
               ELSE IF mine /\ proc[q].plan = "current" THEN [proc[q] EXCEPT !.plan = "old"]
               ELSE proc[q]]
    BY <1>10 DEF Complete
  <2>2. [proc[p] EXCEPT !.pc = label, !.plan = "none"] \in ProcType
    <3>1. label \in Labels
      BY DEF Labels
    <3> QED
      BY <1>1, <3>1, Updates, Zenon
  <2>3. \A q \in Process : [proc[q] EXCEPT !.plan = "old"] \in ProcType
    BY Updates
  <2> QED
    BY <1>10, <2>1, <2>2, <2>3 DEF Complete
<1>11. CASE Release(p)
  <2>1. Freed(Current(p), proc[p].holder) \in
          [Source -> {None} \cup [holder : Holder, left : -TicksPerSecond..Ttl]]
    BY <1>1 DEF Freed
  <2>2. faults' \in 0..MaxFaults
    BY <1>11 DEF Release
  <2> QED
    BY <1>11, <2>1, <2>2, AdvancedTyped, SetTyped DEF Release
<1>12. CASE Wake(p)
  BY <1>12, DownTyped, SetTyped, GotoTyped DEF Wake, Labels
<1>13. CASE Signal(p)
  <2>1. [proc[p] EXCEPT !.stopping = TRUE] \in ProcType
    BY <1>1, Updates
  <2> QED
    BY <1>13, <2>1, SetTyped DEF Signal
<1>14. CASE Crash(p)
  <2>1. Down \in ProcType
    BY DownTyped
  <2> QED
    BY <1>14, <2>1, SetTyped DEF Crash
<1> QED
  BY <1>2, <1>3, <1>4, <1>5, <1>6, <1>7, <1>8, <1>9, <1>10, <1>11, <1>12, <1>13, <1>14 DEF Step

(* The names of processes that are up stay apart when none comes up under  *)
(* a name in use.                                                          *)
LEMMA NamesKept ==
  ASSUME TypeOK, Named, NEW p \in Process, Step(p) \/ Signal(p) \/ Crash(p)
  PROVE  Named'
<1> USE DEF TypeOK, Live
<1>1. ASSUME \A q \in Process : Live(q)' => Live(q) /\ proc'[q].holder = proc[q].holder
      PROVE  Named'
  BY <1>1 DEF Named
<1>2. CASE Start(p)
  <2>1. PICK h \in Holder :
          /\ \A q \in Process : Live(q) => proc[q].holder # h
          /\ Set(p, [Down EXCEPT !.pc = "lease", !.holder = h])
    BY <1>2 DEF Start
  <2>2. /\ proc'[p].holder = h
        /\ \A q \in Process : q # p => proc'[q] = proc[q]
    <3>1. [Down EXCEPT !.pc = "lease", !.holder = h].holder = h
      BY DEF Down
    <3> QED
      BY <2>1, <3>1 DEF Set
  <2>3. h # None
    OBVIOUS
  <2>4. ASSUME NEW q \in Process, Live(q)' PROVE proc'[q].holder # None
    BY <2>2, <2>3, <2>4 DEF Named
  <2>5. ASSUME NEW q \in Process, NEW r \in Process, q # r, Live(q)', Live(r)'
        PROVE  proc'[q].holder # proc'[r].holder
    BY <2>1, <2>2, <2>5 DEF Named
  <2> QED
    BY <2>4, <2>5 DEF Named
<1>3. CASE Acquire(p) \/ Sync(p) \/ Plan(p) \/ Unchanged(p) \/ Deliver(p)
  <2>1. proc[p] \in ProcType
    OBVIOUS
  <2>2. Live(p) /\ \E label \in Labels : Goto(p, label)
    BY <1>3 DEF Acquire, Sync, Plan, Unchanged, Deliver, At, Labels
  <2>3. \A q \in Process : proc'[q].holder = proc[q].holder
    BY <2>1, <2>2 DEF Goto, Set, ProcType
  <2>4. \A q \in Process : q # p => proc'[q] = proc[q]
    BY <2>2 DEF Goto, Set
  <2> QED
    BY <1>1, <2>2, <2>3, <2>4
<1>4. CASE Skip(p) \/ LeaseFails(p) \/ Release(p)
  <2>1. Live(p) /\ Set(p, Advanced(p))
    BY <1>4 DEF Skip, LeaseFails, Release, At
  <2> QED
    BY <1>1, <2>1, AdvancedTyped, SetTyped
<1>5. CASE RunFails(p) \/ Resume(p) \/ RefuseScope(p) \/ Save(p) \/ Signal(p)
  <2>1. Live(p)
    BY <1>5 DEF RunFails, Resume, RefuseScope, Save, Signal, At, Running
  <2>2. \A q \in Process : q # p => proc'[q] = proc[q]
    BY <1>5 DEF RunFails, Resume, RefuseScope, Save, Signal, Set
  <2>3. proc'[p].holder = proc[p].holder
    <3>1. proc[p] \in ProcType
      OBVIOUS
    <3>2. /\ [proc[p] EXCEPT !.pc = "release"].holder = proc[p].holder
          /\ [proc[p] EXCEPT !.pc = "release", !.plan = "none"].holder = proc[p].holder
          /\ [proc[p] EXCEPT !.stopping = TRUE].holder = proc[p].holder
          /\ [proc[p] EXCEPT !.pc = "deliver", !.plan = "current", !.resumed = TRUE].holder
               = proc[p].holder
          /\ [proc[p] EXCEPT !.pc = "deliver", !.plan = "current", !.resumed = FALSE].holder
               = proc[p].holder
      BY <3>1 DEF ProcType
    <3>3. \A r : Set(p, r) => proc'[p] = r
      BY DEF Set
    <3> QED
      BY <1>5, <3>2, <3>3, Zenon DEF RunFails, Resume, RefuseScope, Save, Signal
  <2> QED
    BY <1>1, <2>1, <2>2, <2>3
<1>6. CASE Complete(p)
  <2>1. \A q \in Process : proc'[q].holder = proc[q].holder /\ (Live(q)' => Live(q))
    BY <1>6 DEF Complete, At, ProcType
  <2> QED
    BY <1>1, <2>1
<1>7. CASE Wake(p) \/ Crash(p)
  <2>1. Live(p) /\ (Set(p, Down) \/ Goto(p, "lease"))
    BY <1>7 DEF Wake, Crash, At
  <2>2. \A q \in Process : q # p => proc'[q] = proc[q]
    BY <2>1 DEF Set, Goto
  <2>3. Live(p)' => proc'[p].holder = proc[p].holder
    BY <2>1 DEF Set, Goto, Down, ProcType
  <2> QED
    BY <1>1, <2>1, <2>2, <2>3
<1> QED
  BY <1>2, <1>3, <1>4, <1>5, <1>6, <1>7 DEF Step

LEMMA NextTypes == TypeOK /\ Named /\ [Next]_vars => (TypeOK /\ Named)'
<1> SUFFICES ASSUME TypeOK, Named, [Next]_vars PROVE (TypeOK /\ Named)'
  OBVIOUS
<1>1. CASE Tick
  <2>1. \A p \in Process : proc'[p].pc = proc[p].pc /\ proc'[p].holder = proc[p].holder
    BY <1>1 DEF Tick, TypeOK, ProcType
  <2> QED
    BY <1>1, <2>1, TickTypes DEF Named, Live
<1>2. CASE \E p \in Process : Step(p) \/ Signal(p) \/ Crash(p)
  BY <1>2, StepTypes, NamesKept
<1>3. CASE UNCHANGED vars
  BY <1>3 DEF vars, TypeOK, Named, Live
<1> QED
  BY <1>1, <1>2, <1>3 DEF Next

(* The variables keep their ranges: the clock, the expiry of every lease   *)
(* and the age of every run stay within bounds, whatever fails.            *)
THEOREM DaemonTypes == Spec => []TypeOK
BY InitTypes, NextTypes, PTL DEF Spec

-----------------------------------------------------------------------------
LEMMA InitLeases == Init => LeaseInv
<1> SUFFICES ASSUME Init PROVE LeaseInv
  OBVIOUS
<1>1. \A p \in Process : proc[p] = Down /\ ~Running(p)
  BY DEF Init, Running, Down
<1>2. \A p \in Process : Fresh(p) /\ Leased(p)
  BY <1>1 DEF Fresh, Leased, Down
<1> QED
  BY <1>1, <1>2, InitTypes DEF LeaseInv

(* A step keeps the leases with the runs when whoever goes on running is   *)
(* as old as before, for the same source and under the same lease.         *)
LEMMA LeasesKept ==
  ASSUME LeaseInv, (TypeOK /\ Named)', overran => overran',
         \A p \in Process :
           /\ Running(p)' =>
                /\ Running(p) /\ proc'[p].holder = proc[p].holder
                /\ proc'[p].next = proc[p].next /\ proc'[p].age = proc[p].age
                /\ Overran(p) \/ lease'[Current(p)] = lease[Current(p)]
           /\ ~Running(p)' => proc'[p].age = 0 \/ (~Running(p) /\ proc'[p].age = proc[p].age)
  PROVE  LeaseInv'
<1>1. ASSUME NEW p \in Process PROVE Fresh(p)'
  BY DEF LeaseInv, Fresh
<1>2. ASSUME NEW p \in Process PROVE Leased(p)'
  <2> SUFFICES ASSUME Running(p)', ~Overran(p)'
               PROVE  /\ lease'[Current(p)'] # None
                      /\ lease'[Current(p)'].holder = proc'[p].holder
                      /\ lease'[Current(p)'].left = Ttl - proc'[p].age
    BY DEF Leased
  <2>1. Running(p) /\ ~Overran(p) /\ Current(p)' = Current(p)
    BY DEF Overran, Current
  <2> QED
    BY <2>1 DEF LeaseInv, Leased
<1>3. ASSUME NEW p \in Process, Running(p)', Overran(p)' PROVE overran'
  <2>1. Running(p) /\ Overran(p)
    BY <1>3 DEF Overran
  <2> QED
    BY <2>1 DEF LeaseInv
<1> QED
  BY <1>1, <1>2, <1>3 DEF LeaseInv

(* Time passes for the lease and for the run alike.                        *)
LEMMA LeasesAge == LeaseInv /\ Tick => LeaseInv'
<1> SUFFICES ASSUME LeaseInv, Tick PROVE LeaseInv'
  OBVIOUS
<1>1. (TypeOK /\ Named)' /\ TypeOK
  BY NextTypes DEF LeaseInv, Next
<1>2. ASSUME NEW p \in Process
      PROVE  /\ Running(p)' = Running(p) /\ Current(p)' = Current(p)
             /\ proc'[p].holder = proc[p].holder /\ proc'[p].age = Older(p)
             /\ proc[p].age \in 0..SafeTime
  <2>1. proc'[p] = [proc[p] EXCEPT !.age = Older(p)]
    BY DEF Tick
  <2>2. proc[p] \in ProcType
    BY <1>1 DEF TypeOK
  <2>3. /\ proc'[p].pc = proc[p].pc /\ proc'[p].next = proc[p].next
        /\ proc'[p].holder = proc[p].holder /\ proc'[p].age = Older(p)
        /\ proc[p].age \in 0..SafeTime
    BY <2>1, <2>2 DEF ProcType
  <2> QED
    BY <2>3 DEF Running, Current
<1>3. ASSUME NEW p \in Process PROVE Fresh(p)'
  BY <1>2 DEF Fresh, Older, LeaseInv
<1>4. ASSUME NEW p \in Process PROVE Leased(p)'
  <2> SUFFICES ASSUME Running(p)', ~Overran(p)'
               PROVE  /\ lease'[Current(p)] # None
                      /\ lease'[Current(p)].holder = proc'[p].holder
                      /\ lease'[Current(p)].left = Ttl - proc'[p].age
    BY <1>2 DEF Leased
  <2>1. Running(p) /\ ~Overran(p) /\ Older(p) = proc[p].age + 1 /\ proc[p].age + 1 < SafeTime
    <3>1. Running(p) /\ Older(p) # SafeTime
      BY <1>2 DEF Overran
    <3>2. SafeTime \in Nat /\ proc[p].age \in 0..SafeTime
      BY <1>2, SafeTimeTyped
    <3>3. Older(p) = IF proc[p].age < SafeTime THEN proc[p].age + 1 ELSE proc[p].age
      BY <3>1 DEF Older
    <3>4. Older(p) = proc[p].age + 1 /\ proc[p].age + 1 < SafeTime
      BY <3>1, <3>2, <3>3
    <3> QED
      BY <3>1, <3>2, <3>4 DEF Overran
  <2>2. Current(p) \in Source
    BY <1>1, OrderTyped DEF Current, TypeOK, ProcType
  <2>3. /\ lease[Current(p)] # None /\ lease[Current(p)].holder = proc[p].holder
        /\ lease[Current(p)].left = Ttl - proc[p].age
    BY <2>1 DEF LeaseInv, Leased
  <2>4. lease[Current(p)] \in [holder : Holder, left : -TicksPerSecond..Ttl]
    BY <1>1, <2>2, <2>3 DEF TypeOK
  <2>5. lease'[Current(p)] = [lease[Current(p)] EXCEPT !.left = Floor(@ - 1)]
    BY <2>2, <2>3 DEF Tick
  <2>6. Floor(lease[Current(p)].left - 1) = Ttl - (proc[p].age + 1)
    BY <1>2, <2>1, <2>3, SafeTimeTyped DEF Floor
  <2>7. lease'[Current(p)] \in [holder : Holder, left : -TicksPerSecond..Ttl]
    <3>1. Floor(lease[Current(p)].left - 1) \in -TicksPerSecond..Ttl
      BY <1>2, <2>1, <2>6, SafeTimeTyped
    <3> QED
      BY <2>4, <2>5, <3>1
  <2> QED
    BY <1>2, <2>1, <2>3, <2>4, <2>5, <2>6, <2>7
<1>5. ASSUME NEW p \in Process, Running(p)', Overran(p)' PROVE overran'
  BY <1>2, <1>5 DEF Tick, Overran
<1> QED
  BY <1>1, <1>3, <1>4, <1>5 DEF LeaseInv

(* A lease that still covers a run of another is not granted: more than a  *)
(* second of it is left, and a text comparison is early by less.           *)
LEMMA LeaseRefused ==
  ASSUME LeaseInv, NEW p \in Process, NEW q \in Process, q # p,
         Running(q), ~Overran(q), Live(p), Grantable(Current(q), proc[p].holder)
  PROVE  FALSE
<1>1. /\ lease[Current(q)] # None /\ lease[Current(q)].holder = proc[q].holder
      /\ lease[Current(q)].left = Ttl - proc[q].age
  BY DEF LeaseInv, Leased
<1>2. Live(q)
  BY DEF Live, Running
<1>3. Expired(lease[Current(q)])
  BY <1>1, <1>2 DEF LeaseInv, Named, Grantable
<1>4. proc[q].age \in 0..SafeTime /\ proc[q].age # SafeTime /\ phase \in 0..TicksPerSecond - 1
  BY DEF LeaseInv, TypeOK, ProcType, Overran
<1>5. phase + lease[Current(q)].left >= TicksPerSecond
  BY <1>1, <1>4, SafeTimeTyped
<1> QED
  BY <1>1, <1>3, <1>4, <1>5 DEF Expired

LEMMA LeaseTaken == \A p \in Process : LeaseInv /\ Acquire(p) => LeaseInv'
<1> SUFFICES ASSUME NEW p \in Process, LeaseInv, Acquire(p) PROVE LeaseInv'
  OBVIOUS
<1>1. TypeOK /\ (TypeOK /\ Named)'
  BY StepTypes, NamesKept DEF LeaseInv, Step
<1>2. /\ proc[p] \in ProcType /\ proc'[p] = [proc[p] EXCEPT !.pc = "sync"]
      /\ \A q \in Process : q # p => proc'[q] = proc[q]
  BY <1>1, GotoTyped DEF Acquire, Labels, TypeOK
<1>3. /\ ~Running(p) /\ Live(p) /\ proc[p].age = 0
      /\ proc'[p].holder = proc[p].holder /\ proc'[p].age = 0
      /\ Current(p)' = Current(p) /\ Running(p)'
  BY <1>2 DEF Acquire, At, Running, Live, LeaseInv, Fresh, Current, ProcType
<1>4. Current(p) \in Source
  BY <1>2, OrderTyped DEF Current, ProcType
<1>5. /\ lease'[Current(p)] = [holder |-> proc[p].holder, left |-> Ttl]
      /\ \A s \in Source : s # Current(p) => lease'[s] = lease[s]
  BY <1>1, <1>4 DEF Acquire, TypeOK
<1>6. Leased(p)'
  <2>1. proc[p].holder \in Holder
    BY <1>2, <1>3 DEF ProcType, LeaseInv, Named
  <2>2. [holder |-> proc[p].holder, left |-> Ttl] \in [holder : Holder, left : -TicksPerSecond..Ttl]
    BY <2>1
  <2> QED
    BY <1>3, <1>5, <2>2 DEF Leased
<1>7. ASSUME NEW q \in Process, q # p PROVE Leased(q)'
  <2>1. Current(q)' = Current(q) /\ Running(q)' = Running(q) /\ Overran(q)' = Overran(q)
    BY <1>2, <1>7 DEF Current, Running, Overran
  <2> SUFFICES ASSUME Running(q), ~Overran(q) PROVE lease'[Current(q)] = lease[Current(q)]
    BY <1>2, <1>7, <2>1 DEF LeaseInv, Leased
  <2>2. Current(q) # Current(p)
    BY <1>3, <1>7, LeaseRefused DEF Acquire
  <2>3. Current(q) \in Source
    BY <1>1, OrderTyped DEF Current, TypeOK, ProcType
  <2> QED
    BY <1>5, <2>2, <2>3
<1>8. ASSUME NEW q \in Process PROVE Fresh(q)' /\ (Running(q)' /\ Overran(q)' => overran')
  <2>1. CASE q = p
    BY <1>3, <2>1, SafeTimeTyped DEF Fresh, Overran
  <2>2. CASE q # p
    <3>1. Running(q)' = Running(q) /\ Overran(q)' = Overran(q) /\ overran' = overran
      BY <1>2, <2>2 DEF Running, Overran, Acquire
    <3> QED
      BY <1>2, <2>2, <3>1 DEF LeaseInv, Fresh
  <2> QED
    BY <2>1, <2>2
<1> QED
  BY <1>1, <1>6, <1>7, <1>8 DEF LeaseInv

(* Freeing a lease leaves the lease of every other run alone.              *)
LEMMA OthersKeepLease ==
  ASSUME LeaseInv, NEW p \in Process, NEW q \in Process, q # p, Live(p), Running(q), ~Overran(q)
  PROVE  Freed(Current(p), proc[p].holder)[Current(q)] = lease[Current(q)]
<1>1. lease[Current(q)].holder = proc[q].holder /\ Live(q)
  BY DEF LeaseInv, Leased, Live, Running
<1>2. proc[q].holder # proc[p].holder
  BY <1>1 DEF LeaseInv, Named
<1>3. lease \in [Source -> {None} \cup [holder : Holder, left : -TicksPerSecond..Ttl]]
  BY DEF LeaseInv, TypeOK
<1> QED
  BY <1>1, <1>2, <1>3 DEF Freed

(* Inside a run nothing but the stage, the plan and the signal change.     *)
LEMMA RunGoesOn ==
  ASSUME TypeOK, NEW p \in Process,
         Sync(p) \/ RunFails(p) \/ Plan(p) \/ Resume(p) \/ RefuseScope(p) \/ Unchanged(p)
           \/ Save(p) \/ Deliver(p) \/ Complete(p) \/ Signal(p)
  PROVE  /\ lease' = lease /\ overran' = overran
         /\ \A q \in Process :
              /\ proc'[q].holder = proc[q].holder /\ proc'[q].next = proc[q].next
              /\ proc'[q].age = proc[q].age /\ Running(q)' = Running(q)
<1> DEFINE Alike(r, t) == r.holder = t.holder /\ r.next = t.next /\ r.age = t.age
<1>1. lease' = lease /\ overran' = overran
  BY DEF Sync, RunFails, Plan, Resume, RefuseScope, Unchanged, Save, Deliver, Complete, Signal
<1>2. \A q \in Process : proc[q] \in ProcType
  BY DEF TypeOK
<1>3. CASE Complete(p)
  <2>1. /\ Running(p) /\ Running(p)'
        /\ \A q \in Process : Alike(proc'[q], proc[q]) /\ (q # p => proc'[q].pc = proc[q].pc)
    <3> DEFINE mine == proc[p].plan = "current"
    <3>1. PICK label \in {"release", "publish"} :
            proc' = [q \in Process |->
              IF q = p THEN [proc[p] EXCEPT !.pc = label, !.plan = "none"]
              ELSE IF mine /\ proc[q].plan = "current" THEN [proc[q] EXCEPT !.plan = "old"]
              ELSE proc[q]]
      BY <1>3 DEF Complete
    <3>2. proc'[p] = [proc[p] EXCEPT !.pc = label, !.plan = "none"]
      BY <3>1
    <3>3. Alike(proc'[p], proc[p]) /\ Running(p)'
      BY <1>2, <3>2 DEF Running, ProcType
    <3>4. ASSUME NEW q \in Process, q # p
          PROVE  proc'[q] = [proc[q] EXCEPT !.plan = "old"] \/ proc'[q] = proc[q]
      BY <3>1, <3>4
    <3>5. ASSUME NEW q \in Process, q # p
          PROVE  Alike(proc'[q], proc[q]) /\ proc'[q].pc = proc[q].pc
      BY <1>2, <3>4, <3>5 DEF ProcType
    <3>6. Running(p)
      BY <1>3 DEF Complete, Running, At
    <3> QED
      BY <3>3, <3>5, <3>6
  <2> QED
    BY <1>1, <2>1 DEF Running
<1>4. CASE ~Complete(p)
  <2> DEFINE Next1 == {[proc[p] EXCEPT !.pc = l] : l \in {"publish", "plan", "release", "complete"}}
             Next2 == {[proc[p] EXCEPT !.pc = "release", !.plan = "none"],
                       [proc[p] EXCEPT !.pc = "deliver", !.plan = "current", !.resumed = TRUE],
                       [proc[p] EXCEPT !.pc = "deliver", !.plan = "current", !.resumed = FALSE]}
  <2>1. /\ \A r \in Next1 \cup Next2 : Alike(r, proc[p])
        /\ \A r \in Next1 \cup Next2 :
             r.pc \in {"publish", "plan", "release", "complete", "deliver"}
    BY <1>2 DEF ProcType
  <2>2. CASE Signal(p)
    BY <1>1, <1>2, <2>2 DEF Signal, Set, Running, ProcType
  <2>3. CASE ~Signal(p)
    <3>1. Running(p) /\ \E r \in Next1 \cup Next2 : Set(p, r)
      <4>1. CASE Sync(p) \/ Plan(p) \/ RefuseScope(p) \/ Unchanged(p) \/ Deliver(p)
        <5>1. Running(p)
          BY <4>1 DEF Sync, Plan, RefuseScope, Unchanged, Deliver, At, Running
        <5>2. \E l \in {"publish", "plan", "release", "complete"} :
                Set(p, [proc[p] EXCEPT !.pc = l])
          BY <4>1 DEF Sync, Plan, RefuseScope, Unchanged, Deliver, Goto
        <5> QED
          BY <5>1, <5>2
      <4>2. CASE RunFails(p) \/ Resume(p)
        BY <4>2 DEF RunFails, Resume, At, Running
      <4>3. CASE Save(p)
        BY <4>3 DEF Save, At, Running
      <4> QED
        BY <1>4, <2>3, <4>1, <4>2, <4>3
    <3>2. PICK r \in Next1 \cup Next2 : Set(p, r)
      BY <3>1
    <3>3. proc'[p] = r /\ \A q \in Process : q # p => proc'[q] = proc[q]
      <4> HIDE DEF Next1, Next2
      <4> QED
        BY <3>2 DEF Set, TypeOK
    <3>4. Running(p)'
      BY <2>1, <3>2, <3>3 DEF Running
    <3> QED
      BY <1>1, <2>1, <3>1, <3>2, <3>3, <3>4 DEF Running
  <2> QED
    BY <2>2, <2>3
<1> QED
  BY <1>3, <1>4

LEMMA StepLeases ==
  ASSUME LeaseInv, NEW p \in Process, Step(p) \/ Signal(p) \/ Crash(p)
  PROVE  LeaseInv'
<1>1. TypeOK /\ (TypeOK /\ Named)'
  BY StepTypes, NamesKept DEF LeaseInv
<1>2. CASE Acquire(p)
  BY <1>2, LeaseTaken
<1>3. CASE Sync(p) \/ RunFails(p) \/ Plan(p) \/ Resume(p) \/ RefuseScope(p) \/ Unchanged(p)
             \/ Save(p) \/ Deliver(p) \/ Complete(p) \/ Signal(p)
  <2>1. /\ lease' = lease /\ overran' = overran
        /\ \A q \in Process :
             /\ proc'[q].holder = proc[q].holder /\ proc'[q].next = proc[q].next
             /\ proc'[q].age = proc[q].age /\ Running(q)' = Running(q)
    BY <1>1, <1>3, RunGoesOn
  <2> QED
    BY <1>1, <2>1, LeasesKept
<1>4. CASE Start(p) \/ Skip(p) \/ LeaseFails(p) \/ Release(p) \/ Wake(p) \/ Crash(p)
  <2>1. PICK r \in ProcType : Set(p, r) /\ r.pc \in {"down", "wait", "lease"} /\ r.age = 0
    <3>1. CASE Start(p) \/ Crash(p)
      <4>1. Down \in ProcType /\ Down.pc = "down" /\ Down.age = 0
        BY DownTyped DEF Down
      <4>2. \A h \in Holder : LET r == [Down EXCEPT !.pc = "lease", !.holder = h]
                              IN r \in ProcType /\ r.pc = "lease" /\ r.age = 0
        BY DownTyped DEF Down
      <4> QED
        BY <3>1, <4>1, <4>2 DEF Start, Crash
    <3>2. CASE Skip(p) \/ LeaseFails(p) \/ Release(p)
      BY <1>1, <3>2, AdvancedTyped DEF Skip, LeaseFails, Release
    <3>3. CASE Wake(p)
      <4>1. Down \in ProcType /\ Down.pc = "down" /\ Down.age = 0
        BY DownTyped DEF Down
      <4>2. LET r == [proc[p] EXCEPT !.pc = "lease"]
            IN r \in ProcType /\ r.pc = "lease" /\ r.age = 0
        <5>1. proc[p] \in ProcType /\ proc[p].age = 0
          BY <1>1, <3>3 DEF Wake, At, TypeOK, LeaseInv, Fresh, Running
        <5>2. "lease" \in Labels
          BY DEF Labels
        <5> QED
          BY <5>1, <5>2, Updates DEF ProcType
      <4> QED
        BY <3>3, <4>1, <4>2 DEF Wake, Goto
    <3> QED
      BY <1>4, <3>1, <3>2, <3>3
  <2>2. /\ ~Running(p)' /\ proc'[p].age = 0
        /\ \A q \in Process : q # p => proc'[q] = proc[q]
    BY <1>1, <2>1, SetTyped DEF Running
  <2>3. ASSUME NEW q \in Process, q # p, Running(q), ~Overran(q)
        PROVE  lease'[Current(q)] = lease[Current(q)]
    <3>1. CASE Release(p)
      <4>1. Live(p)
        BY <3>1 DEF Release, At, Live
      <4> QED
        BY <2>3, <3>1, <4>1, OthersKeepLease DEF Release
    <3>2. CASE ~Release(p)
      BY <1>4, <3>2 DEF Start, Skip, LeaseFails, Wake, Crash
    <3> QED
      BY <3>1, <3>2
  <2>4. overran' = overran
    BY <1>4 DEF Start, Skip, LeaseFails, Release, Wake, Crash
  <2>5. \A q \in Process : q # p => Running(q)' = Running(q)
    BY <2>2 DEF Running
  <2> QED
    BY <1>1, <2>2, <2>3, <2>4, <2>5, LeasesKept
<1> QED
  BY <1>2, <1>3, <1>4 DEF Step

LEMMA LeasesStay == LeaseInv /\ [Next]_vars => LeaseInv'
<1> SUFFICES ASSUME LeaseInv, [Next]_vars PROVE LeaseInv'
  OBVIOUS
<1>1. CASE UNCHANGED vars
  BY <1>1 DEF vars, LeaseInv, TypeOK, Named, Fresh, Leased, Live, Running, Overran, Current
<1> QED
  BY <1>1, LeasesAge, StepLeases DEF Next

LEMMA LeasesExclude == LeaseInv => LeaseExclusive
<1> SUFFICES ASSUME LeaseInv, NEW p \in Process, NEW q \in Process,
                    p # q, Running(p), Running(q), Current(p) = Current(q),
                    ~Overran(p), ~Overran(q)
             PROVE  FALSE
  BY DEF LeaseExclusive
<1>1. proc[p].holder = proc[q].holder
  BY DEF LeaseInv, Leased
<1> QED
  BY <1>1 DEF LeaseInv, Named, Live, Running

(* Two daemons run one source at once only when one of them has outlasted  *)
(* its lease, whatever restarts, failed releases and other daemons did.    *)
THEOREM LeasesAreExclusive == Spec => []LeaseExclusive
<1>1. Spec => []LeaseInv
  BY InitLeases, LeasesStay, PTL DEF Spec
<1> QED
  BY <1>1, LeasesExclude, PTL

-----------------------------------------------------------------------------
(* Two runs of one source end the property's premise.                      *)
LEMMA OneRun ==
  ASSUME LeaseInv, ~overran, NEW p \in Process, NEW q \in Process,
         Running(p), Running(q), Current(p) = Current(q)
  PROVE  p = q
BY LeasesExclude DEF LeaseExclusive, LeaseInv

LEMMA PlansStay == LeaseInv /\ PlanInv /\ [Next]_vars => PlanInv'
<1> SUFFICES ASSUME LeaseInv, PlanInv, [Next]_vars, ~overran', NEW q \in Process, Delivering(q)'
             PROVE  proc'[q].plan = "current" /\ pending' = Current(q)'
  BY DEF PlanInv, Holds
<1>1. TypeOK /\ proc[q] \in ProcType
  BY DEF LeaseInv, TypeOK
<1>2. ~overran
  BY DEF Next, Step, Tick, Start, Acquire, Skip, LeaseFails, Sync, RunFails, Plan, Resume,
     RefuseScope, Unchanged, Save, Deliver, Complete, Release, Wake, Signal, Crash, vars
<1>3. \A r \in Process : Delivering(r) => proc[r].plan = "current" /\ pending = Current(r)
  BY <1>2 DEF PlanInv, Holds
<1>4. ASSUME proc'[q].pc = proc[q].pc, proc'[q].plan = proc[q].plan, proc'[q].next = proc[q].next,
             pending' = pending
      PROVE  proc'[q].plan = "current" /\ pending' = Current(q)'
  BY <1>3, <1>4 DEF Delivering, Current
<1>5. CASE Tick \/ UNCHANGED vars
  BY <1>1, <1>4, <1>5 DEF Tick, vars, TypeOK, ProcType
<1>6. ASSUME NEW p \in Process, Step(p) \/ Signal(p) \/ Crash(p)
      PROVE  proc'[q].plan = "current" /\ pending' = Current(q)'
  <2>1. CASE Complete(p)
    <3>1. PICK label \in {"release", "publish"} :
            proc' = [r \in Process |->
              IF r = p THEN [proc[p] EXCEPT !.pc = label, !.plan = "none"]
              ELSE IF proc[p].plan = "current" /\ proc[r].plan = "current"
                THEN [proc[r] EXCEPT !.plan = "old"]
              ELSE proc[r]]
      BY <2>1 DEF Complete
    <3>2. proc[p] \in ProcType
      BY <1>1 DEF TypeOK
    <3>3. proc'[p].pc = label
      BY <3>1, <3>2 DEF ProcType
    <3>4. q # p
      BY <3>3 DEF Delivering
    <3>5. proc'[q].pc = proc[q].pc
      BY <1>1, <3>1, <3>4 DEF ProcType
    <3>6. Delivering(q) /\ Delivering(p)
      BY <2>1, <3>5 DEF Delivering, Complete, At
    <3>7. Running(q) /\ Running(p) /\ Current(p) = Current(q)
      BY <1>3, <3>6 DEF Delivering, Running
    <3> QED
      BY <1>2, <3>4, <3>7, OneRun
  <2>2. CASE Save(p)
    <3>1. CASE pending = None
      <4>1. /\ pending' = Current(p)
            /\ proc'[p] = [proc[p] EXCEPT !.pc = "deliver", !.plan = "current", !.resumed = FALSE]
            /\ \A r \in Process : r # p => proc'[r] = proc[r]
        BY <1>1, <2>2, <3>1 DEF Save, Set, TypeOK
      <4>2. CASE q = p
        BY <1>1, <4>1, <4>2 DEF Current, ProcType
      <4>3. CASE q # p
        <5>1. pending = Current(q)
          BY <1>3, <4>1, <4>3 DEF Delivering
        <5>2. Current(q) \in Source
          BY <1>1, OrderTyped DEF Current, ProcType
        <5> QED
          BY <3>1, <5>1, <5>2
      <4> QED
        BY <4>2, <4>3
    <3>2. CASE pending # None
      <4>1. /\ pending' = pending /\ proc'[p] = [proc[p] EXCEPT !.pc = "release"]
            /\ \A r \in Process : r # p => proc'[r] = proc[r]
        BY <1>1, <2>2, <3>2 DEF Save, Set, TypeOK
      <4>2. q # p
        BY <1>1, <4>1 DEF Delivering, ProcType
      <4> QED
        BY <1>4, <4>1, <4>2
    <3> QED
      BY <3>1, <3>2
  <2>3. ASSUME ~Complete(p), ~Save(p)
        PROVE  pending' = pending /\ \E r : Set(p, r)
    BY <1>6, <2>3 DEF Step, Start, Acquire, Skip, LeaseFails, Sync, RunFails, Plan, Resume,
       RefuseScope, Unchanged, Deliver, Release, Wake, Signal, Crash, Goto
  <2>4. CASE ~Complete(p) /\ ~Save(p) /\ q # p
    <3>1. proc'[q] = proc[q]
      BY <1>1, <2>3, <2>4 DEF Set, TypeOK
    <3> QED
      BY <1>4, <2>3, <2>4, <3>1
  <2>5. CASE ~Complete(p) /\ ~Save(p) /\ q = p
    <3>1. CASE Resume(p)
      <4>1. proc'[p] = [proc[p] EXCEPT !.pc = "deliver", !.plan = "current", !.resumed = TRUE]
        BY <1>1, <3>1 DEF Resume, Set, TypeOK
      <4> QED
        BY <1>1, <2>5, <3>1, <4>1 DEF Resume, Current, ProcType
    <3>2. CASE Deliver(p)
      <4>1. proc'[p] = [proc[p] EXCEPT !.pc = "complete"] /\ pending' = pending
        BY <1>1, <3>2 DEF Deliver, Goto, Set, TypeOK
      <4>2. /\ proc'[p].plan = proc[p].plan /\ proc'[p].next = proc[p].next
            /\ proc[p].plan = "current" /\ pending = Current(p)
        BY <1>1, <1>3, <2>5, <3>2, <4>1 DEF Deliver, At, Delivering, ProcType
      <4> QED
        BY <2>5, <4>1, <4>2 DEF Current
    <3>3. CASE Signal(p)
      <4>1. proc'[p] = [proc[p] EXCEPT !.stopping = TRUE] /\ pending' = pending
        BY <1>1, <3>3 DEF Signal, Set, TypeOK
      <4> QED
        BY <1>1, <1>4, <2>5, <4>1 DEF ProcType
    <3>4. CASE ~Resume(p) /\ ~Deliver(p) /\ ~Signal(p)
      <4>1. proc'[p].pc \notin {"deliver", "complete"}
        <5>1. CASE Start(p) \/ Wake(p) \/ Crash(p)
          <6>1. Down.pc = "down" /\ \A h \in Holder : [Down EXCEPT !.pc = "lease", !.holder = h].pc = "lease"
            BY DEF Down
          <6>2. [proc[p] EXCEPT !.pc = "lease"].pc = "lease"
            BY <1>1, <2>5 DEF ProcType
          <6>3. \A r : Set(p, r) => proc'[p] = r
            BY <1>1 DEF Set, TypeOK
          <6> QED
            BY <5>1, <6>1, <6>2, <6>3 DEF Start, Wake, Crash, Goto
        <5>2. CASE Skip(p) \/ LeaseFails(p) \/ Release(p)
          <6>1. Set(p, Advanced(p)) /\ Advanced(p).pc \in {"lease", "wait"}
            BY <1>1, <5>2, AdvancedTyped DEF Skip, LeaseFails, Release
          <6> QED
            BY <1>1, <6>1 DEF Set, TypeOK
        <5>3. CASE Acquire(p) \/ Sync(p) \/ RunFails(p) \/ Plan(p) \/ RefuseScope(p) \/ Unchanged(p)
          <6>1. /\ \A l \in {"sync", "publish", "plan", "release"} : [proc[p] EXCEPT !.pc = l].pc = l
                /\ [proc[p] EXCEPT !.pc = "release", !.plan = "none"].pc = "release"
            BY <1>1, <2>5 DEF ProcType
          <6>2. \A r : Set(p, r) => proc'[p] = r
            BY <1>1 DEF Set, TypeOK
          <6> QED
            BY <5>3, <6>1, <6>2 DEF Acquire, Sync, RunFails, Plan, RefuseScope, Unchanged, Goto
        <5> QED
          BY <1>6, <2>5, <3>4, <5>1, <5>2, <5>3 DEF Step
      <4> QED
        BY <2>5, <4>1 DEF Delivering
    <3> QED
      BY <3>1, <3>2, <3>3, <3>4
  <2> QED
    BY <2>1, <2>2, <2>4, <2>5
<1> QED
  BY <1>5, <1>6 DEF Next

(* Before any run outlasts its lease one process delivers to the target:   *)
(* the saved plan of one source keeps the runs of the others out.          *)
THEOREM OneDelivers == Spec => []SoleDeliverer
<1>1. Init => LeaseInv /\ PlanInv
  BY InitLeases DEF Init, PlanInv, Holds, Delivering, Down
<1>2. LeaseInv /\ PlanInv /\ [Next]_vars => (LeaseInv /\ PlanInv)'
  BY LeasesStay, PlansStay
<1>3. LeaseInv /\ PlanInv => SoleDeliverer
  BY OneRun DEF PlanInv, Holds, SoleDeliverer, Delivering, Running
<1> QED
  BY <1>1, <1>2, <1>3, PTL DEF Spec
================================================================================
