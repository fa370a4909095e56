-------------------------------- MODULE Daemon --------------------------------
(***************************************************************************)
(* Daemons over one catalog.  Each goes through its sources in turn, each  *)
(* under a lease of the catalog that is taken for a fixed time and never   *)
(* renewed.  A run syncs the source, then publishes it to the one target   *)
(* through the target's pending plan.                                      *)
(*                                                                         *)
(* Time passes in ticks, TicksPerSecond to the second.  A lease's expiry   *)
(* is stored as text (RFC 3339, trailing zeros of the fraction dropped)    *)
(* and compared as text: a time on the whole second has no fraction, and   *)
(* its 'Z' sorts after every '.'.  Clocks of processes agree.              *)
(***************************************************************************)
EXTENDS Integers, Sequences, FiniteSets

CONSTANTS
    Process,          \* the daemons
    Holder,           \* lease holder names: host and process id
    Source,
    Order,            \* the enabled sources in configured order
    Ttl,              \* the lease time in ticks
    TicksPerSecond,
    MaxFaults,        \* bound: crashes, signals, errors
    None

ASSUME DaemonAssumption ==
    /\ Order \in Seq(Source)
    /\ Len(Order) > 0
    /\ TicksPerSecond \in Nat \ {0}
    /\ Ttl \in Nat
    /\ Ttl >= TicksPerSecond
    /\ MaxFaults \in Nat
    /\ None \notin Holder \cup Source
    /\ None \notin [holder : Holder, left : -TicksPerSecond..Ttl]

VARIABLES
    phase,     \* where in the second the clock is
    lease,     \* table leases: holder and ticks to the expiry, None without a row
    proc,      \* what each process is doing
    pending,   \* the target's pending plan: its source, None without a row
    faults,
    overran    \* history: a run outlasted its lease

vars == <<phase, lease, proc, pending, faults, overran>>

-----------------------------------------------------------------------------
Down == [pc |-> "down", holder |-> None, next |-> 1, age |-> 0, plan |-> "none",
         resumed |-> FALSE, stopping |-> FALSE]

Live(p) == proc[p].pc # "down"
Running(p) == proc[p].pc \in {"sync", "publish", "plan", "deliver", "complete", "release"}
Current(p) == Order[proc[p].next]

Set(p, r) == proc' = [proc EXCEPT ![p] = r]
Goto(p, label) == Set(p, [proc[p] EXCEPT !.pc = label])
At(p, label) == proc[p].pc = label

\* The next source of the round, or the timer.
Advanced(p) ==
    LET fresh == [proc[p] EXCEPT !.plan = "none", !.age = 0, !.resumed = FALSE]
    IN IF proc[p].next < Len(Order)
         THEN [fresh EXCEPT !.pc = "lease", !.next = @ + 1]
         ELSE [fresh EXCEPT !.pc = "wait", !.next = 1]

\* The place of a fraction in the order of its text.  Ticks are no shorter
\* than tenths of a second: no fraction but zero begins another.
Rank(fraction) == IF fraction = 0 THEN TicksPerSecond ELSE fraction

\* expires_at <= updated_at, as the text comparison has it: in an earlier
\* second, or in the same one and not after it in the order of the text.
Expired(l) ==
    LET at == phase + l.left
    IN at < 0 \/ (at < TicksPerSecond /\ Rank(at) <= Rank(phase))

\* Mutant: INSERT OR IGNORE.
GrantableNew(s, h) == lease[s] = None

Grantable(s, h) == lease[s] # None => lease[s].holder = h \/ Expired(lease[s])

\* An error or a signal is a fault while the bound lasts; once a signal has
\* cancelled the context, every catalog call of the run may fail on it.
Trouble(p) ==
    \/ proc[p].stopping /\ faults' = faults
    \/ faults < MaxFaults /\ faults' = faults + 1

-----------------------------------------------------------------------------
Init ==
    /\ phase = 0
    /\ lease = [s \in Source |-> None]
    /\ proc = [p \in Process |-> Down]
    /\ pending = None
    /\ faults = 0
    /\ overran = FALSE

Floor(n) == IF n < -TicksPerSecond THEN -TicksPerSecond ELSE n

\* No run shorter than this loses its lease: a text comparison is early by
\* less than a second.
SafeTime == Ttl - TicksPerSecond + 1

Older(p) ==
    IF Running(p) /\ proc[p].age < SafeTime THEN proc[p].age + 1 ELSE proc[p].age

Tick ==
    /\ phase' = (phase + 1) % TicksPerSecond
    /\ lease' = [s \in Source |-> IF lease[s] = None THEN None
                                  ELSE [lease[s] EXCEPT !.left = Floor(@ - 1)]]
    /\ proc' = [p \in Process |-> [proc[p] EXCEPT !.age = Older(p)]]
    /\ overran' = (overran \/ \E p \in Process : Running(p) /\ Older(p) = SafeTime)
    /\ UNCHANGED <<pending, faults>>

\* A daemon starts under a name no live daemon has: a restarted container
\* keeps its host name and process id, a new one does not.
Start(p) ==
    /\ ~Live(p)
    /\ \E h \in Holder :
         /\ \A q \in Process : Live(q) => proc[q].holder # h
         /\ Set(p, [Down EXCEPT !.pc = "lease", !.holder = h])
    /\ UNCHANGED <<phase, lease, pending, faults, overran>>

Acquire(p) ==
    /\ At(p, "lease") /\ ~proc[p].stopping
    /\ Grantable(Current(p), proc[p].holder)
    /\ lease' = [lease EXCEPT ![Current(p)] = [holder |-> proc[p].holder, left |-> Ttl]]
    /\ Goto(p, "sync")
    /\ UNCHANGED <<phase, pending, faults, overran>>

Skip(p) ==
    /\ At(p, "lease") /\ ~proc[p].stopping
    /\ ~Grantable(Current(p), proc[p].holder)
    /\ Set(p, Advanced(p))
    /\ UNCHANGED <<phase, lease, pending, faults, overran>>

LeaseFails(p) ==
    /\ At(p, "lease")
    /\ Trouble(p)
    /\ Set(p, Advanced(p))
    /\ UNCHANGED <<phase, lease, pending, overran>>

Sync(p) ==
    /\ At(p, "sync")
    /\ Goto(p, "publish")
    /\ UNCHANGED <<phase, lease, pending, faults, overran>>

\* The run is over with an error: a failed call of its sync, its publish or
\* a delivery.  The pending plan stays.
RunFails(p) ==
    /\ Running(p) /\ ~At(p, "release")
    /\ Trouble(p)
    /\ Set(p, [proc[p] EXCEPT !.pc = "release", !.plan = "none"])
    /\ UNCHANGED <<phase, lease, pending, overran>>

\* No plan is pending: make one.
Plan(p) ==
    /\ At(p, "publish") /\ pending = None
    /\ Goto(p, "plan")
    /\ UNCHANGED <<phase, lease, pending, faults, overran>>

\* A pending plan inside the scope is resumed.
Resume(p) ==
    /\ At(p, "publish") /\ pending = Current(p)
    /\ Set(p, [proc[p] EXCEPT !.pc = "deliver", !.plan = "current", !.resumed = TRUE])
    /\ UNCHANGED <<phase, lease, pending, faults, overran>>

RefuseScope(p) ==
    /\ At(p, "publish") /\ pending \notin {None, Current(p)}
    /\ Set(p, [proc[p] EXCEPT !.pc = "release"])
    /\ UNCHANGED <<phase, lease, pending, faults, overran>>

\* Nothing to write: no plan is saved.
Unchanged(p) ==
    /\ At(p, "plan")
    /\ Goto(p, "release")
    /\ UNCHANGED <<phase, lease, pending, faults, overran>>

\* Mutant: the row of another plan is replaced.
SaveOver(p) ==
    /\ At(p, "plan")
    /\ pending' = Current(p)
    /\ Set(p, [proc[p] EXCEPT !.pc = "deliver", !.plan = "current"])
    /\ UNCHANGED <<phase, lease, faults, overran>>

\* The target is the key of the pending table: a second row is an error.
Save(p) ==
    /\ At(p, "plan")
    /\ IF pending = None
         THEN /\ pending' = Current(p)
              /\ Set(p, [proc[p] EXCEPT !.pc = "deliver", !.plan = "current", !.resumed = FALSE])
         ELSE /\ Set(p, [proc[p] EXCEPT !.pc = "release"])
              /\ UNCHANGED pending
    /\ UNCHANGED <<phase, lease, faults, overran>>

Deliver(p) ==
    /\ At(p, "deliver")
    /\ Goto(p, "complete")
    /\ UNCHANGED <<phase, lease, pending, faults, overran>>

\* The row goes by its id.  A resumed plan may be followed by a fresh one.
Complete(p) ==
    /\ At(p, "complete")
    /\ LET mine == proc[p].plan = "current"
       IN \E label \in {"release"} \cup (IF proc[p].resumed THEN {"publish"} ELSE {}) :
            /\ pending' = IF mine THEN None ELSE pending
            /\ proc' = [q \in Process |->
                 IF q = p THEN [proc[p] EXCEPT !.pc = label, !.plan = "none"]
                 ELSE IF mine /\ proc[q].plan = "current" THEN [proc[q] EXCEPT !.plan = "old"]
                 ELSE proc[q]]
    /\ UNCHANGED <<phase, lease, faults, overran>>

\* Mutant: DELETE without the holder.
FreedAny(s, h) == [lease EXCEPT ![s] = None]

Freed(s, h) ==
    [lease EXCEPT ![s] = IF @ # None /\ @.holder = h THEN None ELSE @]

\* The release does not use the cancelled context; an error is only logged.
Release(p) ==
    /\ At(p, "release")
    /\ \/ lease' = Freed(Current(p), proc[p].holder) /\ UNCHANGED faults
       \/ faults < MaxFaults /\ faults' = faults + 1 /\ UNCHANGED lease
    /\ Set(p, Advanced(p))
    /\ UNCHANGED <<phase, pending, overran>>

Wake(p) ==
    /\ At(p, "wait")
    /\ IF proc[p].stopping THEN Set(p, Down) ELSE Goto(p, "lease")
    /\ UNCHANGED <<phase, lease, pending, faults, overran>>

Signal(p) ==
    /\ Live(p) /\ ~proc[p].stopping
    /\ faults < MaxFaults /\ faults' = faults + 1
    /\ Set(p, [proc[p] EXCEPT !.stopping = TRUE])
    /\ UNCHANGED <<phase, lease, pending, overran>>

Crash(p) ==
    /\ Live(p)
    /\ faults < MaxFaults /\ faults' = faults + 1
    /\ Set(p, Down)
    /\ UNCHANGED <<phase, lease, pending, overran>>

Step(p) ==
    \/ Start(p) \/ Acquire(p) \/ Skip(p) \/ LeaseFails(p)
    \/ Sync(p) \/ RunFails(p) \/ Plan(p) \/ Resume(p) \/ RefuseScope(p)
    \/ Unchanged(p) \/ Save(p) \/ Deliver(p) \/ Complete(p)
    \/ Release(p) \/ Wake(p)

Next ==
    \/ Tick
    \/ \E p \in Process : Step(p) \/ Signal(p) \/ Crash(p)

\* A process goes on, its runs end, and the service manager restarts it.
Fairness == WF_vars(Tick) /\ \A p \in Process : WF_vars(Step(p))

Spec == Init /\ [][Next]_vars
FairSpec == Spec /\ Fairness

-----------------------------------------------------------------------------
Labels == {"down", "wait", "lease", "sync", "publish", "plan", "deliver", "complete", "release"}

ProcType ==
    [pc : Labels, holder : Holder \cup {None}, next : 1..Len(Order), age : 0..SafeTime,
     plan : {"none", "current", "old"}, resumed : BOOLEAN,
     stopping : BOOLEAN]

TypeOK ==
    /\ phase \in 0..TicksPerSecond - 1
    /\ lease \in [Source -> {None} \cup [holder : Holder, left : -TicksPerSecond..Ttl]]
    /\ proc \in [Process -> ProcType]
    /\ pending \in Source \cup {None}
    /\ faults \in 0..MaxFaults
    /\ overran \in BOOLEAN

Overran(p) == proc[p].age = SafeTime

\* Two daemons run one source at once only when one of the runs has lasted
\* longer than the lease time less one second: neither the release of a run
\* that lost its lease, nor a restart, nor the text comparison of times
\* takes the lease of a run from under it sooner.
LeaseExclusive ==
    \A p, q \in Process :
        p # q /\ Running(p) /\ Running(q) /\ Current(p) = Current(q)
            => Overran(p) \/ Overran(q)

Delivering(p) == proc[p].pc \in {"deliver", "complete"}

\* Leases are per source and the pending plan is per target.  Still, two
\* processes never deliver to the target at once before a run outlasts its
\* lease: the plan of one source keeps the others out until its row goes.
SoleDeliverer ==
    ~overran => \A p, q \in Process : Delivering(p) /\ Delivering(q) => p = q

\* No fault leaves a source unattended for good: a lease left by a crash or
\* by a failed release runs out, every source is synced again and again, and
\* a pending plan that a crash or an error left behind is finished.
EverySourceServed ==
    /\ \A s \in Source : []<>(\E p \in Process : At(p, "publish") /\ Current(p) = s)
    /\ (pending # None) ~> (pending = None)
================================================================================
