-------------------------------- MODULE Records --------------------------------
(***************************************************************************)
(* Run records and their retention.  A run has a row in the catalog, log   *)
(* files, and when it delivers, a saved plan: a file, and a row that makes *)
(* the file the target's pending delivery.  Cleanup expires what is old:   *)
(* it holds the catalog's write lock from its snapshot to its last unlink, *)
(* but files are written by anybody at any time.                           *)
(*                                                                         *)
(* Every process may die at every step, and an error may end cleanup       *)
(* anywhere.  A process that gets a signal ends like one that dies: its    *)
(* run cannot be marked finished with the cancelled context.               *)
(***************************************************************************)
EXTENDS Integers, FiniteSets

CONSTANTS
    Run,        \* run ids, each used once
    MaxTime,    \* bound: days that pass
    Days,       \* values of runtime.diagnostic_retention_days
    None

ASSUME RecordsAssumption ==
    /\ MaxTime \in Nat
    /\ Days \subseteq Nat \ {0}
    /\ None \notin Run

VARIABLES
    now,
    row,       \* run_records: status and day of the finish
    log,       \* a run's log: "none", "kept", "archived"
    logged,    \* history: runs that have had a log
    plan,      \* a run's delivery file: what it holds and its modification time
    pending,   \* the target's pending_publishes row: whose plan, or None
    horizon,   \* retention.json: ExpiredBefore
    job,       \* what each run's process does, and the plan it delivers
    cleanup

vars == <<now, row, log, logged, plan, pending, horizon, job, cleanup>>
catalog == <<row, pending>>
files == <<log, logged, plan, horizon>>

NoRow == [status |-> "none", at |-> 0]
Finished(r) == row[r].status = "finished"
FinishedRow == [status |-> "finished", at |-> now]
NoFile == [kind |-> "none", at |-> 0]
File(kind) == [kind |-> kind, at |-> now]
Idle == [pc |-> "idle", before |-> 0, logs |-> {}, plans |-> {}]

\* BEGIN IMMEDIATE: other writers of the catalog wait.
Unlocked == cleanup.pc = "idle"
At(r, label) == job[r].pc = label
Goto(r, label) == job' = [job EXCEPT ![r].pc = label]
Live(r) == job[r].pc \notin {"off", "dead", "done"}

-----------------------------------------------------------------------------
(* A run.                                                                  *)

\* The row is there before the logs.
Start(r) ==
    /\ At(r, "off") /\ Unlocked
    /\ row' = [row EXCEPT ![r] = [status |-> "running", at |-> 0]]
    /\ Goto(r, "log")
    /\ UNCHANGED <<now, files, pending, cleanup>>

OpenLogs(r) ==
    /\ At(r, "log")
    /\ log' = [log EXCEPT ![r] = "kept"]
    /\ logged' = logged \cup {r}
    /\ Goto(r, "plan")
    /\ UNCHANGED <<now, plan, horizon, catalog, cleanup>>

\* The saved plan goes first; its file must hold a plan.
Resume(r) ==
    /\ At(r, "plan") /\ pending # None /\ plan[pending].kind = "plan"
    /\ job' = [job EXCEPT ![r] = [pc |-> "complete", plan |-> pending]]
    /\ UNCHANGED <<now, files, catalog, cleanup>>

\* The file of a fresh plan is written before its row.
WritePlan(r) ==
    /\ At(r, "plan") /\ pending = None /\ plan[r] = NoFile
    /\ plan' = [plan EXCEPT ![r] = File("plan")]
    /\ Goto(r, "save")
    /\ UNCHANGED <<now, log, logged, horizon, catalog, cleanup>>

\* A second row for the target is an error.
SavePlan(r) ==
    /\ At(r, "save") /\ Unlocked
    /\ IF pending = None
         THEN /\ pending' = r
              /\ job' = [job EXCEPT ![r] = [pc |-> "complete", plan |-> r]]
         ELSE /\ Goto(r, "finish")
              /\ UNCHANGED pending
    /\ UNCHANGED <<now, row, files, cleanup>>

\* All candidates are delivered and all retirements applied.
Complete(r) ==
    /\ At(r, "complete") /\ Unlocked
    /\ pending' = IF pending = job[r].plan THEN None ELSE pending
    /\ Goto(r, "compact")
    /\ UNCHANGED <<now, row, files, cleanup>>

\* The completed plan becomes a receipt.  An error is only a warning.  After
\* a resumed plan the run's own library may get a plan.
Compact(r) ==
    /\ At(r, "compact")
    /\ \/ plan' = [plan EXCEPT ![job[r].plan] = File("receipt")]
       \/ UNCHANGED plan
    /\ \E label \in {"finish"} \cup (IF job[r].plan = r THEN {} ELSE {"plan"}) : Goto(r, label)
    /\ UNCHANGED <<now, log, logged, horizon, catalog, cleanup>>

\* Nothing to do, or a failure: the pending row stays.
GiveUp(r) ==
    /\ job[r].pc \in {"log", "plan", "save", "complete"}
    /\ Goto(r, "finish")
    /\ UNCHANGED <<now, files, catalog, cleanup>>

Finish(r) ==
    /\ At(r, "finish") /\ Unlocked
    /\ row' = [row EXCEPT ![r] = FinishedRow]
    /\ Goto(r, "done")
    /\ UNCHANGED <<now, files, pending, cleanup>>

Dies(r) ==
    /\ Live(r)
    /\ Goto(r, "dead")
    /\ UNCHANGED <<now, files, catalog, cleanup>>

-----------------------------------------------------------------------------
(* The operator.                                                           *)

Tick ==
    /\ now < MaxTime
    /\ now' = now + 1
    /\ UNCHANGED <<files, catalog, job, cleanup>>

\* After all writers have stopped an abandoned run is marked failed.
Reconcile(r) ==
    /\ row[r].status = "running" /\ Unlocked /\ \A q \in Run : ~Live(q)
    /\ row' = [row EXCEPT ![r] = FinishedRow]
    /\ UNCHANGED <<now, files, pending, job, cleanup>>

\* A finished run's log is compressed.
Archive(r) ==
    /\ Finished(r) /\ log[r] = "kept"
    /\ log' = [log EXCEPT ![r] = "archived"]
    /\ UNCHANGED <<now, logged, plan, horizon, catalog, job, cleanup>>

-----------------------------------------------------------------------------
(* Cleanup.                                                                *)

\* Cleanup requires no running runs.
Refused == \E r \in Run : row[r].status = "running"

ExpiredLogs(before) == {r \in Run : Finished(r) /\ row[r].at < before /\ log[r] # "none"}

\* Mutant: old files of pending deliveries expire.
ExpiredAnyPlans(before) == {r \in Run : plan[r].kind # "none" /\ plan[r].at < before}

\* Delivery files expire by their modification time, pending ones never.
ExpiredPlans(before) ==
    {r \in Run : plan[r].kind # "none" /\ plan[r].at < before /\ r # pending}

Expire ==
    /\ Unlocked /\ ~Refused
    /\ \E days \in Days :
         cleanup' = [pc |-> "horizon", before |-> now - days,
                     logs |-> ExpiredLogs(now - days), plans |-> ExpiredPlans(now - days)]
    /\ UNCHANGED <<now, files, catalog, job>>

\* Intent is persisted before the first unlink; a horizon never moves back.
WriteHorizon ==
    /\ cleanup.pc = "horizon"
    /\ horizon' = IF horizon > cleanup.before THEN horizon ELSE cleanup.before
    /\ cleanup' = [cleanup EXCEPT !.pc = "unlink"]
    /\ UNCHANGED <<now, log, logged, plan, catalog, job>>

UnlinkLog(r) ==
    /\ cleanup.pc = "unlink" /\ r \in cleanup.logs
    /\ log' = [log EXCEPT ![r] = "none"]
    /\ cleanup' = [cleanup EXCEPT !.logs = @ \ {r}]
    /\ UNCHANGED <<now, logged, plan, horizon, catalog, job>>

UnlinkPlan(r) ==
    /\ cleanup.pc = "unlink" /\ cleanup.logs = {} /\ r \in cleanup.plans
    /\ plan' = [plan EXCEPT ![r] = NoFile]
    /\ cleanup' = [cleanup EXCEPT !.plans = @ \ {r}]
    /\ UNCHANGED <<now, log, logged, horizon, catalog, job>>

\* Done, failed or dead: the lock goes.
CleanupEnds ==
    /\ cleanup.pc # "idle"
    /\ cleanup' = Idle
    /\ UNCHANGED <<now, files, catalog, job>>

-----------------------------------------------------------------------------
Init ==
    /\ now = 0
    /\ row = [r \in Run |-> NoRow] /\ log = [r \in Run |-> "none"] /\ logged = {}
    /\ plan = [r \in Run |-> NoFile] /\ pending = None
    /\ horizon = 0
    /\ job = [r \in Run |-> [pc |-> "off", plan |-> None]]
    /\ cleanup = Idle

Next ==
    \/ \E r \in Run :
         \/ Start(r) \/ OpenLogs(r) \/ Resume(r) \/ WritePlan(r) \/ SavePlan(r)
         \/ Complete(r) \/ Compact(r) \/ GiveUp(r) \/ Finish(r) \/ Dies(r)
         \/ Reconcile(r) \/ Archive(r) \/ UnlinkLog(r) \/ UnlinkPlan(r)
    \/ Tick \/ Expire \/ WriteHorizon \/ CleanupEnds

Spec == Init /\ [][Next]_vars

-----------------------------------------------------------------------------
\* What a reader is told of a run's events.
History(r) ==
    CASE log[r] = "kept" -> "retained"
      [] log[r] = "archived" -> "archived"
      [] log[r] = "none" /\ Finished(r) /\ row[r].at < horizon -> "expired"
      [] OTHER -> "unavailable"

\* However late a run saves its plan, dies or resumes another's, and whatever
\* cleanup removes meanwhile: the file of a pending delivery holds a plan.
PendingPlansKept == pending # None => plan[pending].kind = "plan"

\* Also when cleanup is interrupted, archived logs are around or the policy
\* has become more lenient: the events of a run are there or known to have
\* expired, never simply gone.
ExpiryExplained == \A r \in logged : History(r) # "unavailable"

\* Cleanup takes nothing that is needed, and accounts for what it takes.
DiagnosticsKept == PendingPlansKept /\ ExpiryExplained
================================================================================
