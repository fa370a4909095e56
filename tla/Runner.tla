--------------------------------- MODULE Runner ---------------------------------
(***************************************************************************)
(* The BookOrbit runner: an HTTP bridge that reserves runs on request and  *)
(* reconciles the journal, and wrappers, started by systemd, that take the *)
(* shared lock, claim a receipt in the journal and run the sync command.   *)
(*                                                                         *)
(* A run is a request (its idempotency key) or a tick of the timer.  The   *)
(* lock belongs to a wrapper and to the command that inherits it.  The     *)
(* bridge's probe of the lock takes and frees it at once and is one step:  *)
(* wrappers try again for a second.                                        *)
(***************************************************************************)
EXTENDS Integers, FiniteSets

CONSTANTS
    Key,         \* idempotency keys of requests
    Timer,       \* ticks of the timer and executions started by hand
    Handler,     \* threads of the bridge that serve requests
    Loop,        \* the bridge's own thread, which reconciles now and then
    MaxFaults,   \* bound: failed calls, killed processes
    MaxAgain,    \* bound: times a request's unit is started again by hand
    Nobody

ASSUME RunnerAssumption ==
    /\ Key \cap Timer = {} /\ Loop \notin Handler /\ Nobody \notin Key
    /\ MaxFaults \in Nat /\ MaxAgain \in Nat

VARIABLES
    receipt,   \* the journal: the state of each run's row; succeeded, failed,
               \* busy and interrupted are all "ended", nobody tells them apart
    aged,      \* requests reserved more than two minutes ago
    wrapper,   \* what each run's wrapper is doing; "off" is an inactive unit
    alive,     \* runs whose sync command is running
    claimed,   \* runs whose wrapper has a row of the journal
    begun,     \* history: commands begun for each request
    thread,    \* what each thread of the bridge is doing
    faults, again

Run == Key \cup Timer
Thread == Handler \cup {Loop}
Active == {"queued", "running"}

execVars == <<wrapper, alive, claimed, begun>>
vars == <<receipt, aged, execVars, thread, faults, again>>

Fault == faults < MaxFaults /\ faults' = faults + 1
Holding(r) == wrapper[r] \in {"claim", "spawn", "wait"} \/ r \in alive
LockHeld == \E r \in Run : Holding(r)

-----------------------------------------------------------------------------
(* The wrapper: runner.py execute.                                         *)

\* The timer's unit is started.
Fires(r) ==
    /\ wrapper[r] = "off" /\ receipt[r] = "none"
    /\ wrapper' = [wrapper EXCEPT ![r] = "lock"]
    /\ UNCHANGED <<receipt, aged, alive, claimed, begun, thread, faults, again>>

Lock(r) ==
    /\ wrapper[r] = "lock" /\ ~LockHeld
    /\ wrapper' = [wrapper EXCEPT ![r] = "claim"]
    /\ UNCHANGED <<receipt, aged, alive, claimed, begun, thread, faults, again>>

\* After a second of contention: a queued request ends as busy, a tick gets
\* a row that says so; if the journal is unavailable nothing is written.
LockBusy(r) ==
    /\ wrapper[r] = "lock" /\ LockHeld
    /\ \/ /\ receipt' = IF r \in Timer \/ receipt[r] = "queued"
                          THEN [receipt EXCEPT ![r] = "ended"] ELSE receipt
          /\ UNCHANGED faults
       \/ Fault /\ UNCHANGED receipt
    /\ wrapper' = [wrapper EXCEPT ![r] = IF r \in Timer THEN "gone" ELSE "off"]
    /\ UNCHANGED <<aged, alive, claimed, begun, thread, again>>

\* Whoever is still running in the journal has lost the lock.
Interrupted == [r \in Run |-> IF receipt[r] = "running" THEN "ended" ELSE receipt[r]]

\* Mutant: a request is claimed whatever its state.
ClaimableAnyway(r) == TRUE

Claimable(r) == r \in Timer \/ receipt[r] = "queued"

Claim(r) ==
    /\ wrapper[r] = "claim"
    /\ IF Claimable(r)
         THEN /\ receipt' = [Interrupted EXCEPT ![r] = "running"]
              /\ wrapper' = [wrapper EXCEPT ![r] = "spawn"]
              /\ claimed' = claimed \cup {r}
         ELSE /\ receipt' = Interrupted
              /\ wrapper' = [wrapper EXCEPT ![r] = "off"]
              /\ UNCHANGED claimed
    /\ UNCHANGED <<aged, alive, begun, thread, faults, again>>

\* The journal is unavailable: a request is not run, a tick runs without a row.
ClaimFails(r) ==
    /\ wrapper[r] = "claim" /\ Fault
    /\ wrapper' = [wrapper EXCEPT ![r] = IF r \in Timer THEN "spawn" ELSE "off"]
    /\ UNCHANGED <<receipt, aged, alive, claimed, begun, thread, again>>

Spawn(r) ==
    /\ wrapper[r] = "spawn"
    /\ wrapper' = [wrapper EXCEPT ![r] = "wait"]
    /\ alive' = alive \cup {r}
    /\ begun' = IF r \in Key THEN [begun EXCEPT ![r] = @ + 1] ELSE begun
    /\ UNCHANGED <<receipt, aged, claimed, thread, faults, again>>

CommandEnds(r) ==
    /\ r \in alive /\ alive' = alive \ {r}
    /\ UNCHANGED <<receipt, aged, wrapper, claimed, begun, thread, faults, again>>

\* Also after a signal, before or after the command was started.
Finish(r) ==
    /\ (wrapper[r] = "wait" /\ r \notin alive) \/ wrapper[r] = "spawn"
    /\ \/ /\ receipt' = IF r \in claimed /\ receipt[r] \in Active
                          THEN [receipt EXCEPT ![r] = "ended"] ELSE receipt
          /\ UNCHANGED faults
       \/ r \in claimed /\ Fault /\ UNCHANGED receipt
    /\ wrapper' = [wrapper EXCEPT ![r] = IF r \in Timer THEN "gone" ELSE "off"]
    /\ claimed' = claimed \ {r}
    /\ UNCHANGED <<aged, alive, begun, thread, again>>

\* A wrapper is killed; its command may live on with the lock.
Killed(r) ==
    /\ wrapper[r] \notin {"off", "gone"} /\ Fault
    /\ wrapper' = [wrapper EXCEPT ![r] = IF r \in Timer THEN "gone" ELSE "off"]
    /\ alive' \in {alive, alive \ {r}}
    /\ UNCHANGED <<receipt, aged, claimed, begun, thread, again>>

\* The unit of a request is started again by hand.
Again(k) ==
    /\ again < MaxAgain /\ again' = again + 1
    /\ wrapper[k] = "off" /\ k \notin alive /\ receipt[k] # "none"
    /\ wrapper' = [wrapper EXCEPT ![k] = "lock"]
    /\ claimed' = claimed \ {k}
    /\ UNCHANGED <<receipt, aged, alive, begun, thread, faults>>

-----------------------------------------------------------------------------
(* The bridge.                                                             *)

Idle == [pc |-> "idle", key |-> Nobody, seen |-> {}]
AtT(t, label) == thread[t].pc = label
Goto(t, label) == thread' = [thread EXCEPT ![t].pc = label]
Leave(t) == thread' = [thread EXCEPT ![t] = Idle]

\* Where a thread goes after reconcile: a request goes on, others end.
Reconciled(t) == IF thread[t].key = Nobody THEN Idle
                 ELSE [thread[t] EXCEPT !.pc = "unit", !.seen = {}]

\* Two minutes after its reservation.
Ages(k) ==
    /\ receipt[k] = "queued" /\ k \notin aged
    /\ aged' = aged \cup {k}
    /\ UNCHANGED <<receipt, execVars, thread, faults, again>>

\* The rows reconcile reads, with the state it has read.
Waiting == {k \in aged : receipt[k] = "queued"}
Rows == {<<r, receipt[r]>> : r \in Waiting \cup {s \in Run : receipt[s] = "running"}}

Reading(t, k) == thread' = [thread EXCEPT ![t] = [pc |-> "ask", key |-> k, seen |-> Rows]]

\* A request whose key is known gets its row and nothing else happens.
Post(t, k) ==
    /\ AtT(t, "idle") /\ receipt[k] = "none"
    /\ Reading(t, k)
    /\ UNCHANGED <<receipt, aged, execVars, faults, again>>

\* The loop every thirty seconds; a read of the history does the same first.
Sweep(t) ==
    /\ AtT(t, "idle") /\ Rows # {}
    /\ Reading(t, Nobody)
    /\ UNCHANGED <<receipt, aged, execVars, faults, again>>

\* Mutant: queued requests are left to their units.
StaleRunning(seen) == {c \in seen : c[2] = "running"}

\* A queued request is stale if systemd has no unit active for it.
Stale(seen) == {c \in seen : c[2] = "running" \/ wrapper[c[1]] = "off"}

AskUnits(t) ==
    /\ AtT(t, "ask")
    /\ LET stale == Stale(thread[t].seen)
       IN thread' = [thread EXCEPT ![t] = IF stale = {} THEN Reconciled(t)
                                          ELSE [@ EXCEPT !.pc = "probe", !.seen = stale]]
    /\ UNCHANGED <<receipt, aged, execVars, faults, again>>

Probe(t) ==
    /\ AtT(t, "probe")
    /\ thread' = [thread EXCEPT ![t] = IF LockHeld THEN Reconciled(t)
                                       ELSE [@ EXCEPT !.pc = "mark"]]
    /\ UNCHANGED <<receipt, aged, execVars, faults, again>>

\* Mutant: the row is marked whatever has become of it since it was read.
MarkableAnyway(c) == receipt[c[1]] \in Active

Markable(c) == receipt[c[1]] = c[2]

Mark(t) ==
    /\ AtT(t, "mark")
    /\ \E c \in thread[t].seen :
         /\ receipt' = IF Markable(c) THEN [receipt EXCEPT ![c[1]] = "ended"] ELSE receipt
         /\ thread' = [thread EXCEPT ![t] =
              IF thread[t].seen = {c} THEN Reconciled(t)
              ELSE [thread[t] EXCEPT !.seen = @ \ {c}]]
    /\ UNCHANGED <<aged, execVars, faults, again>>

\* The scheduled unit is active, or somebody holds the lock: the request is refused.
CheckUnit(t) ==
    /\ AtT(t, "unit")
    /\ IF \E r \in Timer : wrapper[r] \notin {"off", "gone"} THEN Leave(t) ELSE Goto(t, "free")
    /\ UNCHANGED <<receipt, aged, execVars, faults, again>>

CheckLock(t) ==
    /\ AtT(t, "free")
    /\ IF LockHeld THEN Leave(t) ELSE Goto(t, "reserve")
    /\ UNCHANGED <<receipt, aged, execVars, faults, again>>

Reserve(t) ==
    /\ AtT(t, "reserve")
    /\ IF receipt[thread[t].key] = "none" /\ \A r \in Run : receipt[r] \notin Active
         THEN /\ receipt' = [receipt EXCEPT ![thread[t].key] = "queued"]
              /\ Goto(t, "start")
         ELSE UNCHANGED receipt /\ Leave(t)
    /\ UNCHANGED <<aged, execVars, faults, again>>

\* systemctl start: a call that fails may have been accepted.
StartUnit(t) ==
    /\ AtT(t, "start")
    /\ LET k == thread[t].key
       IN \/ wrapper' = [wrapper EXCEPT ![k] = IF @ = "off" THEN "lock" ELSE @] /\ UNCHANGED faults
          \/ Fault /\ UNCHANGED wrapper
    /\ Leave(t)
    /\ UNCHANGED <<receipt, aged, alive, claimed, begun, again>>

\* A failing call ends the request of a thread.
ThreadFails(t) ==
    /\ ~AtT(t, "idle") /\ Fault
    /\ Leave(t)
    /\ UNCHANGED <<receipt, aged, execVars, again>>

BridgeDies ==
    /\ Fault
    /\ \E t \in Thread : ~AtT(t, "idle")
    /\ thread' = [t \in Thread |-> Idle]
    /\ UNCHANGED <<receipt, aged, execVars, again>>

-----------------------------------------------------------------------------
Init ==
    /\ receipt = [r \in Run |-> "none"] /\ aged = {}
    /\ wrapper = [r \in Run |-> "off"] /\ alive = {}
    /\ claimed = {} /\ begun = [k \in Key |-> 0]
    /\ thread = [t \in Thread |-> Idle]
    /\ faults = 0 /\ again = 0

Wrapping(r) ==
    Lock(r) \/ LockBusy(r) \/ Claim(r) \/ ClaimFails(r) \/ Spawn(r) \/ Finish(r)
Serving(t) ==
    \/ AskUnits(t) \/ Probe(t) \/ Mark(t)
    \/ CheckUnit(t) \/ CheckLock(t) \/ Reserve(t) \/ StartUnit(t)

Next ==
    \/ \E r \in Run : Wrapping(r) \/ CommandEnds(r) \/ Killed(r)
    \/ \E r \in Timer : Fires(r)
    \/ \E k \in Key : Ages(k) \/ Again(k)
    \/ \E t \in Handler, k \in Key : Post(t, k)
    \/ Sweep(Loop)
    \/ \E t \in Thread : Serving(t) \/ ThreadFails(t)
    \/ BridgeDies

\* Processes go on, commands end, time passes and the loop sweeps.
Fairness ==
    /\ \A r \in Run : WF_vars(Wrapping(r)) /\ WF_vars(CommandEnds(r))
    /\ \A k \in Key : WF_vars(Ages(k))
    /\ WF_vars(Sweep(Loop)) /\ \A t \in Thread : WF_vars(Serving(t))

Spec == Init /\ [][Next]_vars
FairSpec == Spec /\ Fairness

-----------------------------------------------------------------------------
TypeOK ==
    /\ receipt \in [Run -> {"none", "ended"} \cup Active]
    /\ aged \subseteq Key /\ claimed \subseteq Run /\ alive \subseteq Run
    /\ wrapper \in [Run -> {"off", "lock", "claim", "spawn", "wait", "gone"}]
    /\ begun \in [Key -> Nat]
    /\ thread \in [Thread -> [pc : {"idle", "ask", "probe", "mark", "unit", "free",
                                    "reserve", "start"},
                              key : Key \cup {Nobody},
                              seen : SUBSET (Run \X Active)]]
    /\ faults \in 0..MaxFaults /\ again \in 0..MaxAgain

\* Two syncs never run at once, whoever is killed and whoever starts them,
\* and a request runs at most once however often it is repeated or its unit
\* is started.
RunsOnce ==
    /\ Cardinality(alive) <= 1
    /\ \A k \in Key : begun[k] <= 1

\* While the command of a claimed run is alive its row says running: no
\* reconciliation, however late it acts on what it has read, ends it early.
LiveRunShown ==
    \A r \in claimed \cap alive : receipt[r] = "running"

\* Every reservation and every claim comes to an end in the journal, lost
\* starts, killed wrappers and failing journals included.
RequestsSettle == \A r \in Run : (receipt[r] \in Active) ~> (receipt[r] = "ended")
================================================================================
