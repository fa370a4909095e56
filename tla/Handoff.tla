-------------------------------- MODULE Handoff --------------------------------
(***************************************************************************)
(* Targets that take what they are given away: a folder that a library     *)
(* manager watches (drop) and a command that keeps a library of its own    *)
(* (exec, protocol version 2).  Neither can be looked at afterwards; all   *)
(* that says what was delivered is the record written after the fact, and  *)
(* every step of a delivery may fail or be the last one of its process.    *)
(*                                                                         *)
(* The executor is that of Delivery: a saved plan goes first, with the     *)
(* editions it was made of, then the library as it is now.  The manager    *)
(* and the command are external; the command follows docs/hooks.md.        *)
(***************************************************************************)
EXTENDS Integers

CONSTANTS
    Kind,            \* the targets: "drop", "exec"
    Release,         \* chapters of the library
    Version,         \* editions a chapter may get
    First,           \* the edition each has first
    NameOf,          \* the file name of each edition: no two chapters share one
    MaxCorrections,  \* bound: corrections of chapters
    MaxFaults        \* bound: failures and deaths

Artifact == Release \X Version
Name == {NameOf[a] : a \in Artifact}

VARIABLES
    kind,
    edition,      \* the catalog's edition of each chapter
    corrections,
    record,       \* status of each edition's publish record
    saved,        \* the target's pending delivery: [id, scope, editions]; id 0 is none
    plans,        \* plans made so far
    run,          \* the delivery under way
    folder,       \* the watched folder: what lies under each name
    landed,       \* history: the editions put into the folder
    copies,       \* history: how often one of each chapter was put there
    cut,          \* history: how often that could not be recorded
    library,      \* the command's library, by name
    seen,         \* event ids the command has applied
    applied,      \* history: what it applied for each plan
    repeated,     \* history: it applied something of one plan twice
    faults

catalog == <<edition, corrections, record, saved, plans>>
watched == <<folder, landed, copies, cut>>
hook == <<library, seen, applied, repeated>>
vars == <<kind, catalog, run, watched, hook, faults>>

NoPlan == [id |-> 0, scope |-> 0, editions |-> [r \in Release |-> First]]
Off == [pc |-> "off", attempt |-> 0, failed |-> FALSE, selected |-> NoPlan.editions,
        plan |-> NoPlan, todo |-> {}, retire |-> {}, at |-> {}, fresh |-> FALSE]

At(step) == run.pc = step
Published == {a \in Artifact : record[a] = "published"}
Planned(r) == <<r, run.plan.editions[r]>>
Fault == faults < MaxFaults /\ faults' = faults + 1

-----------------------------------------------------------------------------
(* Planning.                                                               *)

\* A drop target is done with a chapter whatever edition of it it took; a
\* command is when it has acknowledged this one.
Covered(r, e) ==
    \/ <<r, e[r]>> \in Published
    \/ kind = "drop" /\ \E v \in Version : <<r, v>> \in Published

Deliveries(e) == {r \in Release : ~Covered(r, e)}

\* A command is told to supersede what the library no longer has.
Retirements(e) == {a \in Published : kind = "exec" /\ a[2] # e[a[1]]}

Begin ==
    /\ At("off")
    /\ run' = [Off EXCEPT !.pc = "plan", !.attempt = 1, !.selected = edition]
    /\ UNCHANGED <<kind, catalog, watched, hook, faults>>

PlanFor(plan) ==
    run' = [run EXCEPT !.pc = "deliver", !.plan = plan,
                       !.todo = Deliveries(plan.editions),
                       !.retire = Retirements(plan.editions)]

\* Mutant: a retry makes event ids of its own.
ResumedAnew == [saved EXCEPT !.scope = plans + 1]

\* A plan is resumed with the editions and the event ids it was saved with.
Resumed == saved

Resume ==
    /\ At("plan") /\ saved.id # 0
    /\ PlanFor(Resumed)
    /\ UNCHANGED <<kind, catalog, watched, hook, faults>>

\* A plan with something to do is saved before it is carried out.
Plan ==
    /\ At("plan") /\ saved.id = 0
    /\ Deliveries(run.selected) # {} \/ Retirements(run.selected) # {}
    /\ plans' = plans + 1
    /\ saved' = [id |-> plans', scope |-> plans', editions |-> run.selected]
    /\ PlanFor(saved')
    /\ UNCHANGED <<kind, edition, corrections, record, watched, hook, faults>>

NothingToDo ==
    /\ At("plan") /\ saved.id = 0
    /\ Deliveries(run.selected) = {} /\ Retirements(run.selected) = {}
    /\ run' = Off
    /\ UNCHANGED <<kind, catalog, watched, hook, faults>>

-----------------------------------------------------------------------------
(* Dropping a file.                                                        *)

Mark(r) ==
    /\ At("deliver") /\ kind = "drop" /\ r \in run.todo
    /\ record' = [record EXCEPT ![Planned(r)] = "publishing"]
    /\ run' = [run EXCEPT !.pc = "copy", !.at = {r}]
    /\ UNCHANGED <<kind, edition, corrections, saved, plans, watched, hook, faults>>

Land(a) ==
    /\ folder' = [folder EXCEPT ![NameOf[a]] = {a}]
    /\ landed' = landed \cup {a}
    /\ copies' = [copies EXCEPT ![a[1]] = @ + 1]

\* Staged, synced and renamed, unless the same bytes are there.
Copy(r) ==
    /\ At("copy") /\ run.at = {r}
    /\ IF folder[NameOf[Planned(r)]] = {Planned(r)}
         THEN UNCHANGED <<folder, landed, copies>> ELSE Land(Planned(r))
    /\ run' = [run EXCEPT !.pc = "record", !.fresh = (copies' # copies)]
    /\ UNCHANGED <<kind, catalog, cut, hook, faults>>

\* The root is not mounted, the staging fails; or the rename is done and the
\* directory cannot be synced.
CopyFails(r) ==
    /\ At("copy") /\ run.at = {r} /\ Fault
    /\ \/ UNCHANGED watched
       \/ /\ folder[NameOf[Planned(r)]] # {Planned(r)}
          /\ Land(Planned(r))
          /\ cut' = [cut EXCEPT ![r] = @ + 1]
    /\ run' = [run EXCEPT !.pc = "deliver", !.todo = @ \ {r}, !.at = {}, !.failed = TRUE]
    /\ UNCHANGED <<kind, catalog, hook>>

\* The manager imports a file and renames it.
Take(n) ==
    /\ folder[n] # {}
    /\ folder' = [folder EXCEPT ![n] = {}]
    /\ UNCHANGED <<kind, catalog, run, landed, copies, cut, hook, faults>>

-----------------------------------------------------------------------------
(* Calling the command.                                                    *)

\* The id of an event is derived from the plan and what the event is about.
Event(action, a) == <<run.plan.scope, action, a>>

\* The command applies an event once: an edition takes its name, and leaves
\* it when it is superseded, if it still has it.
Apply(action, a) ==
    LET n == NameOf[a] IN
    IF Event(action, a) \in seen THEN UNCHANGED hook
    ELSE /\ seen' = seen \cup {Event(action, a)}
         /\ library' =
              [library EXCEPT ![n] = IF action = "publish" THEN {a} ELSE @ \ {a}]
         /\ applied' = applied \cup {<<run.plan.id, action, a>>}
         /\ repeated' = (repeated \/ applied' = applied)

Call(r) ==
    /\ At("deliver") /\ kind = "exec" /\ r \in run.todo
    /\ Apply("publish", Planned(r))
    /\ run' = [run EXCEPT !.pc = "record", !.at = {r}]
    /\ UNCHANGED <<kind, catalog, watched, faults>>

\* It exits with an error, or is killed: before or after it applied the event.
CallFails(r) ==
    /\ At("deliver") /\ kind = "exec" /\ r \in run.todo /\ Fault
    /\ Apply("publish", Planned(r)) \/ UNCHANGED hook
    /\ record' = [record EXCEPT ![Planned(r)] = "failed"]
    /\ run' = [run EXCEPT !.todo = @ \ {r}, !.failed = TRUE]
    /\ UNCHANGED <<kind, edition, corrections, saved, plans, watched>>

\* Delivered, to either target.
Record(r) ==
    /\ At("record") /\ run.at = {r}
    /\ record' = [record EXCEPT ![Planned(r)] = "published"]
    /\ run' = [run EXCEPT !.pc = "deliver", !.todo = @ \ {r}, !.at = {}, !.fresh = FALSE]
    /\ UNCHANGED <<kind, edition, corrections, saved, plans, watched, hook, faults>>

\* Retirements wait for every delivery of the plan.
EndDeliveries ==
    /\ At("deliver") /\ run.todo = {}
    /\ run' = IF run.failed THEN Off ELSE [run EXCEPT !.pc = "retire"]
    /\ UNCHANGED <<kind, catalog, watched, hook, faults>>

Supersede(a) ==
    /\ At("retire") /\ a \in run.retire
    /\ Apply("supersede", a)
    /\ run' = [run EXCEPT !.pc = "superseded", !.at = {a}]
    /\ UNCHANGED <<kind, catalog, watched, faults>>

RecordSuperseded(a) ==
    /\ At("superseded") /\ run.at = {a}
    /\ record' = [record EXCEPT ![a] = "superseded"]
    /\ run' = [run EXCEPT !.pc = "retire", !.retire = @ \ {a}, !.at = {}]
    /\ UNCHANGED <<kind, edition, corrections, saved, plans, watched, hook, faults>>

\* The command fails as above; the other retirements are tried.
SupersedeFails(a) ==
    /\ At("retire") /\ a \in run.retire /\ Fault
    /\ Apply("supersede", a) \/ UNCHANGED hook
    /\ run' = [run EXCEPT !.retire = @ \ {a}, !.failed = TRUE]
    /\ UNCHANGED <<kind, catalog, watched>>

-----------------------------------------------------------------------------
(* The end of a plan.                                                      *)

\* A failed retirement leaves the plan to the next run.
GiveUp ==
    /\ At("retire") /\ run.retire = {} /\ run.failed
    /\ run' = Off
    /\ UNCHANGED <<kind, catalog, watched, hook, faults>>

\* An older plan that is complete is followed by one for the library.
Complete ==
    /\ At("retire") /\ run.retire = {} /\ ~run.failed
    /\ saved' = NoPlan
    /\ run' = IF run.plan.editions = run.selected \/ run.attempt = 2 THEN Off
              ELSE [Off EXCEPT !.pc = "plan", !.attempt = 2, !.selected = run.selected]
    /\ UNCHANGED <<kind, edition, corrections, record, plans, watched, hook, faults>>

\* The process dies, or the catalog refuses a write.
Dies ==
    /\ ~At("off") /\ Fault
    /\ run' = Off
    /\ cut' = [r \in Release |-> cut[r] + IF run.fresh /\ run.at = {r} THEN 1 ELSE 0]
    /\ UNCHANGED <<kind, catalog, folder, landed, copies, hook>>

\* A correction, or the return of an edition that was retired.
Correct(r, v) ==
    /\ corrections < MaxCorrections /\ v # edition[r]
    /\ edition' = [edition EXCEPT ![r] = v]
    /\ corrections' = corrections + 1
    /\ UNCHANGED <<kind, record, saved, plans, run, watched, hook, faults>>

Init ==
    /\ kind \in Kind
    /\ edition = NoPlan.editions /\ corrections = 0
    /\ record = [a \in Artifact |-> "none"]
    /\ saved = NoPlan /\ plans = 0 /\ run = Off
    /\ folder = [n \in Name |-> {}]
    /\ landed = {} /\ copies = [r \in Release |-> 0] /\ cut = [r \in Release |-> 0]
    /\ library = [n \in Name |-> {}]
    /\ seen = {} /\ applied = {} /\ repeated = FALSE
    /\ faults = 0

Next ==
    \/ Begin \/ Resume \/ Plan \/ NothingToDo \/ EndDeliveries \/ GiveUp \/ Complete \/ Dies
    \/ \E r \in Release : \/ Mark(r) \/ Copy(r) \/ CopyFails(r)
                          \/ Call(r) \/ CallFails(r) \/ Record(r)
                          \/ \E v \in Version : Correct(r, v)
    \/ \E a \in Artifact : Supersede(a) \/ RecordSuperseded(a) \/ SupersedeFails(a)
    \/ \E n \in Name : Take(n)

Spec == Init /\ [][Next]_vars

-----------------------------------------------------------------------------
(* Properties.                                                             *)

\* The watched folder gets a chapter once, however often it is corrected and
\* the run repeated; only a copy that could not be recorded is made again.
HandedOnce == \A r \in Release : copies[r] <= 1 + cut[r]

\* All the copies it gets are of one edition: a retry hands over the file
\* that the first attempt may have handed over, not a newer one.
OneEdition ==
    \A r \in Release : \A v, w \in Version :
        <<r, v>> \in landed /\ <<r, w>> \in landed => v = w

\* With no delivery under way or pending, the command's library is what the
\* records say: also when an edition comes back that it had superseded.
HookFollows ==
    At("off") /\ saved.id = 0 /\ kind = "exec" =>
        UNION {library[n] : n \in Name} = Published

\* A retry after a failure is recognised: the command does nothing twice for
\* one delivery.
HookOnce == ~repeated
================================================================================
