------------------------------- MODULE Delivery -------------------------------
(***************************************************************************)
(* One publish run after another delivering a library to a filesystem      *)
(* target: planning, the saved plan, the publishing ledger, installation,  *)
(* retirement and completion, one action per step that another actor or a  *)
(* crash can separate.  The catalog (records, pending), the target's       *)
(* directory (disk) survive a crash; everything from pc on is the memory   *)
(* of the run and is lost.  Around it: syncs and rebuilds that change the  *)
(* wanted library between runs, a user who edits or deletes delivered      *)
(* files at any moment, and at most MaxFaults failures.                    *)
(***************************************************************************)
EXTENDS Catalog

CONSTANTS
    Scopes,         \* the source filters a run may be started with
    Editable,       \* paths the user may touch
    Delivered0,     \* libraries an earlier run may have delivered
    OlderPlans,     \* candidate sets an older version may have left pending
    HasLifecycle,   \* the target has a lifecycle command
    MaxFaults,      \* bound on crashes and failing calls
    Absent, Foreign, Nothing

ASSUME DeliveryAssumption ==
    /\ Scopes \subseteq SUBSET Source
    /\ Editable \subseteq Path
    /\ Delivered0 \subseteq Libraries \cup {{}}
    /\ OlderPlans \subseteq Libraries
    /\ HasLifecycle \in BOOLEAN
    /\ MaxFaults \in Nat
    /\ Absent \notin Artifact /\ Foreign \notin Artifact /\ Absent # Foreign
    /\ Nothing \notin Artifact

VARIABLES
    disk,           \* what is at each path: an artifact's bytes or others
    records,        \* publish_records of the target
    pending,        \* pending_publishes: the saved plan's candidates, if any
    library,        \* the candidates the catalog wants delivered now
    damaged,        \* releases of which the user destroyed a copy
    faults,         \* failures so far
    pc,             \* where the run is
    scope,          \* its source filter
    selected,       \* its selection
    attempt,        \* 1, or 2 after a resumed plan
    snap,           \* the records it read for this attempt
    cands,          \* the plan's candidates
    persisted,      \* the plan is saved
    blocked,        \* candidates whose destination held unowned bytes
    unchanged,      \* candidates found delivered and intact
    todo,           \* candidates not yet taken
    delivered,      \* candidates known to be at their destination
    retiring,       \* retirements not yet applied
    cur,            \* the candidate or retirement in hand
    seen,           \* the bytes last verified at its path
    failed          \* something failed in this run

catalogVars == <<records, pending, library>>
envVars == <<disk, damaged, faults>>
planVars == <<scope, selected, attempt, snap, cands, persisted, blocked, unchanged>>
loopVars == <<todo, delivered, retiring, cur, seen, failed>>
vars == <<disk, records, pending, library, damaged, faults, pc, planVars, loopVars>>

Bytes == Artifact \cup {Absent, Foreign}

Fault == faults < MaxFaults /\ faults' = faults + 1

(* The run leaves executeDelivery, or its process dies. *)
Forget ==
    /\ pc' = "idle"
    /\ scope' = {} /\ selected' = {} /\ attempt' = 1
    /\ snap' = [a \in Artifact |-> "none"]
    /\ cands' = {} /\ persisted' = FALSE /\ blocked' = {} /\ unchanged' = {}
    /\ todo' = {} /\ delivered' = {} /\ retiring' = {}
    /\ cur' = Nothing /\ seen' = Absent /\ failed' = FALSE

(* The attempt breaks out of the loop; only the lifecycle event is left. *)
GiveUp ==
    /\ pc' = "finish" /\ failed' = TRUE
    /\ UNCHANGED <<planVars, todo, delivered, retiring, cur, seen>>

Init ==
    /\ \E L \in Delivered0 :
        /\ records = [a \in Artifact |-> IF a \in L THEN "published" ELSE "none"]
        /\ disk = [p \in Path |-> IF \E a \in L : PathOf[a] = p
                                  THEN CHOOSE a \in L : PathOf[a] = p
                                  ELSE Absent]
    /\ pending \in {{}} \cup {{P} : P \in {Q \in OlderPlans : Cyclic(Q, records)}}
    /\ library \in Libraries
    /\ damaged = {} /\ faults = 0
    /\ pc = "idle"
    /\ scope = {} /\ selected = {} /\ attempt = 1
    /\ snap = [a \in Artifact |-> "none"]
    /\ cands = {} /\ persisted = FALSE /\ blocked = {} /\ unchanged = {}
    /\ todo = {} /\ delivered = {} /\ retiring = {}
    /\ cur = Nothing /\ seen = Absent /\ failed = FALSE

-----------------------------------------------------------------------------
(* Planning.                                                                *)

Begin(sc) ==
    /\ pc = "idle"
    /\ pc' = "plan"
    /\ scope' = sc
    /\ selected' = InScope(library, sc)
    /\ snap' = records
    /\ UNCHANGED <<disk, records, pending, library, damaged, faults, attempt,
                   cands, persisted, blocked, unchanged, loopVars>>

Resuming == pending # {}

SavedPlan == UNION pending

(* Mutant: the fresh selection is planned while another plan is pending.     *)
PlannedFresh == selected

(* The candidates to plan: a saved plan goes before the fresh selection.    *)
Planned == IF Resuming THEN SavedPlan ELSE selected

(* Mutant: a saved plan is resumed whatever its sources.                     *)
PendingAlwaysInScope == FALSE

PendingOutOfScope == Resuming /\ InScope(SavedPlan, scope) # SavedPlan

(* pendingDelivery: the saved plan needs sources this run excludes.         *)
RefuseScope ==
    /\ pc = "plan"
    /\ PendingOutOfScope
    /\ GiveUp
    /\ UNCHANGED <<catalogVars, envVars>>

(* A cyclic plan saved by an older version is dropped and planned afresh.   *)
DropCyclic ==
    /\ pc = "plan"
    /\ Resuming /\ ~PendingOutOfScope
    /\ ~Uncovering(SavedPlan, snap) /\ Cyclic(SavedPlan, snap)
    /\ pending' = {}
    /\ UNCHANGED <<records, library, envVars, pc, planVars, loopVars>>

RefuseOrder ==
    /\ pc = "plan"
    /\ ~PendingOutOfScope
    /\ Uncovering(Planned, snap) \/ (~Resuming /\ Cyclic(Planned, snap))
    /\ GiveUp
    /\ UNCHANGED <<catalogVars, envVars>>

(* CheckDestination, for the plan's identity of c.                          *)
Conflict(recs, c) == disk[PathOf[c]] \notin Owned(recs, PathOf[c]) \cup {Absent}

(* Mutant: retirement trusts the record and does not look at the bytes.      *)
RetirementTrusted(recs, o) == FALSE

RetirementConflict(recs, o) ==
    disk[PathOf[o]] \notin RetirementOwned(recs, o) \cup {Absent}

PublishedIntact(recs, c) == recs[c] = "published" /\ disk[PathOf[c]] = c

MakePlan ==
    LET conflicts == {c \in Planned : Conflict(snap, c)}
        intact == {c \in Planned \ conflicts : PublishedIntact(snap, c)}
        covered == Retirable(Planned, snap)
        removable == {o \in covered : ~RetirementConflict(snap, o)}
        needsRecovery == HasLifecycle \/ intact # Planned \/ covered # {}
    IN  /\ pc = "plan"
        /\ ~PendingOutOfScope
        /\ ~Uncovering(Planned, snap) /\ ~Cyclic(Planned, snap)
        /\ cands' = Planned
        /\ blocked' = conflicts
        /\ unchanged' = intact
        /\ retiring' = removable
        /\ failed' = (conflicts # {} \/ removable # covered)
        /\ todo' = Planned
        /\ delivered' = {}
        /\ persisted' = (Resuming \/ needsRecovery)
        /\ pc' = IF ~Resuming /\ needsRecovery THEN "save" ELSE "prepare"
        /\ UNCHANGED <<catalogVars, envVars, scope, selected, attempt, snap,
                       cur, seen>>

(* Mutant: the plan file is written but the pending row is not.              *)
SaveNothing ==
    /\ pc = "save"
    /\ pc' = "prepare"
    /\ UNCHANGED <<catalogVars, envVars, planVars, loopVars>>

Save ==
    /\ pc = "save"
    /\ pending' = {cands}
    /\ pc' = "prepare"
    /\ UNCHANGED <<records, library, envVars, planVars, loopVars>>

SaveFails ==
    /\ pc = "save"
    /\ Fault /\ GiveUp
    /\ UNCHANGED <<catalogVars, disk, damaged>>

Prepare ==
    /\ pc = "prepare"
    /\ pc' = "deliver"
    /\ UNCHANGED <<catalogVars, envVars, planVars, loopVars>>

PrepareFails ==
    /\ pc = "prepare"
    /\ HasLifecycle /\ Fault /\ GiveUp
    /\ UNCHANGED <<catalogVars, disk, damaged>>

-----------------------------------------------------------------------------
(* Delivering, in any order that respects the dependencies.                 *)

Taken(c) ==
    /\ pc = "deliver"
    /\ c \in todo
    /\ Dependencies(cands, snap, c) \cap todo = {}
    /\ todo' = todo \ {c}

Ready(c) == Dependencies(cands, snap, c) \subseteq delivered

(* "waiting for other replacement files before overwriting the old volume" *)
AwaitsReplacement(c) ==
    /\ Taken(c)
    /\ ~Ready(c)
    /\ failed' = TRUE
    /\ UNCHANGED <<catalogVars, envVars, pc, planVars, delivered, retiring, cur, seen>>

SkipBlocked(c) ==
    /\ Taken(c)
    /\ Ready(c) /\ c \in blocked
    /\ UNCHANGED <<catalogVars, envVars, pc, planVars, delivered, retiring, cur,
                   seen, failed>>

(* The destination changed hands since the plan looked at it.               *)
IdentityFails(c) ==
    /\ Taken(c)
    /\ Ready(c) /\ c \notin blocked /\ Conflict(snap, c)
    /\ failed' = TRUE
    /\ UNCHANGED <<catalogVars, envVars, pc, planVars, delivered, retiring, cur, seen>>

SkipUnchanged(c) ==
    /\ Taken(c)
    /\ Ready(c) /\ c \notin blocked /\ ~Conflict(snap, c) /\ c \in unchanged
    /\ delivered' = delivered \cup {c}
    /\ UNCHANGED <<catalogVars, envVars, pc, planVars, retiring, cur, seen, failed>>

Offered(c) ==
    /\ Taken(c)
    /\ Ready(c) /\ c \notin blocked \cup unchanged /\ ~Conflict(snap, c)

(* The ledger entry that lets a retry recognise the bytes as its own.       *)
Offer(c) ==
    /\ Offered(c)
    /\ records' = [records EXCEPT ![c] = "publishing"]
    /\ cur' = c
    /\ pc' = "check"
    /\ UNCHANGED <<pending, library, envVars, planVars, delivered, retiring, seen, failed>>

OfferFails(c) ==
    /\ Offered(c)
    /\ Fault
    /\ failed' = TRUE
    /\ UNCHANGED <<catalogVars, disk, damaged, pc, planVars, delivered, retiring,
                   cur, seen>>

(* This candidate failed; the loop goes on with the next one.               *)
NextAfterFailure ==
    /\ pc' = "deliver" /\ failed' = TRUE
    /\ cur' = Nothing /\ seen' = Absent
    /\ UNCHANGED <<planVars, todo, delivered, retiring>>

Replaceable(c) == Owned(snap, PathOf[c]) \cup {c, Absent}

CopyRefused ==
    /\ pc = "check"
    /\ disk[PathOf[cur]] \notin Replaceable(cur)
    /\ NextAfterFailure
    /\ UNCHANGED <<catalogVars, envVars>>

CopyUnneeded ==
    /\ pc = "check"
    /\ disk[PathOf[cur]] = cur
    /\ pc' = "record"
    /\ UNCHANGED <<catalogVars, envVars, planVars, loopVars>>

(* copyFile stages, syncs and verifies a temporary file beside the path.    *)
Stage ==
    /\ pc = "check"
    /\ disk[PathOf[cur]] \in Replaceable(cur) \ {cur}
    /\ seen' = disk[PathOf[cur]]
    /\ pc' = "install"
    /\ UNCHANGED <<catalogVars, envVars, planVars, todo, delivered, retiring, cur, failed>>

(* The rename: it replaces whatever is at the path at that moment.          *)
Install ==
    /\ pc = "install"
    /\ disk' = [disk EXCEPT ![PathOf[cur]] = cur]
    /\ pc' = "record"
    /\ seen' = Absent
    /\ UNCHANGED <<catalogVars, damaged, faults, planVars, todo, delivered,
                   retiring, cur, failed>>

(* The check, the staging, the verification or the rename failed.           *)
CopyFails ==
    /\ pc \in {"check", "install"}
    /\ Fault /\ NextAfterFailure
    /\ UNCHANGED <<catalogVars, disk, damaged>>

(* The rename happened and the directory sync after it failed.              *)
InstallUnsynced ==
    /\ pc = "install"
    /\ Fault /\ NextAfterFailure
    /\ disk' = [disk EXCEPT ![PathOf[cur]] = cur]
    /\ UNCHANGED <<catalogVars, damaged>>

RecordPublished ==
    /\ pc = "record"
    /\ records' = [records EXCEPT ![cur] = "published"]
    /\ delivered' = delivered \cup {cur}
    /\ cur' = Nothing
    /\ pc' = "deliver"
    /\ UNCHANGED <<pending, library, envVars, planVars, todo, retiring, seen, failed>>

(* Mutant: retirement starts although a delivery failed.                     *)
EndDeliveriesAnyway ==
    /\ pc = "deliver" /\ todo = {}
    /\ pc' = "retire"
    /\ UNCHANGED <<catalogVars, envVars, planVars, loopVars>>

EndDeliveries ==
    /\ pc = "deliver" /\ todo = {}
    /\ pc' = IF failed THEN "finish" ELSE "retire"
    /\ UNCHANGED <<catalogVars, envVars, planVars, loopVars>>

-----------------------------------------------------------------------------
(* Retiring what the candidates replace, once every one of them is there.   *)

InPlace(o) == \E c \in cands : PathOf[c] = PathOf[o]

(* A candidate occupies the path: there is nothing to remove.               *)
RetireInPlace(o) ==
    /\ pc = "retire" /\ o \in retiring
    /\ InPlace(o)
    /\ cur' = o
    /\ pc' = "supersede"
    /\ UNCHANGED <<catalogVars, envVars, planVars, todo, delivered, retiring, seen, failed>>

RetireRefused(o) ==
    /\ pc = "retire" /\ o \in retiring
    /\ ~InPlace(o) /\ RetirementConflict(snap, o)
    /\ failed' = TRUE
    /\ retiring' = retiring \ {o}
    /\ UNCHANGED <<catalogVars, envVars, pc, planVars, todo, delivered, cur, seen>>

RetireGone(o) ==
    /\ pc = "retire" /\ o \in retiring
    /\ ~InPlace(o) /\ disk[PathOf[o]] = Absent
    /\ cur' = o
    /\ pc' = "supersede"
    /\ UNCHANGED <<catalogVars, envVars, planVars, todo, delivered, retiring, seen, failed>>

RetireVerified(o) ==
    /\ pc = "retire" /\ o \in retiring
    /\ ~InPlace(o) /\ ~RetirementConflict(snap, o) /\ disk[PathOf[o]] # Absent
    /\ seen' = disk[PathOf[o]]
    /\ cur' = o
    /\ pc' = "remove"
    /\ UNCHANGED <<catalogVars, envVars, planVars, todo, delivered, retiring, failed>>

RetirementFailed ==
    /\ pc' = "retire" /\ failed' = TRUE
    /\ retiring' = retiring \ {cur} /\ cur' = Nothing /\ seen' = Absent
    /\ UNCHANGED <<planVars, todo, delivered>>

Remove ==
    /\ pc = "remove"
    /\ disk[PathOf[cur]] # Absent
    /\ disk' = [disk EXCEPT ![PathOf[cur]] = Absent]
    /\ pc' = "supersede"
    /\ seen' = Absent
    /\ UNCHANGED <<catalogVars, damaged, faults, planVars, todo, delivered,
                   retiring, cur, failed>>

(* The user was faster: os.Remove reports a missing file.                   *)
RemoveVanished ==
    /\ pc = "remove"
    /\ disk[PathOf[cur]] = Absent
    /\ RetirementFailed
    /\ UNCHANGED <<catalogVars, envVars>>

RemoveFails ==
    /\ pc = "remove"
    /\ Fault /\ RetirementFailed
    /\ UNCHANGED <<catalogVars, disk, damaged>>

(* Mutant: the file is removed and its record left as it was.                *)
SupersedeNothing ==
    /\ pc = "supersede"
    /\ retiring' = retiring \ {cur}
    /\ cur' = Nothing
    /\ pc' = "retire"
    /\ UNCHANGED <<catalogVars, envVars, planVars, todo, delivered, seen, failed>>

Supersede ==
    /\ pc = "supersede"
    /\ records' = [records EXCEPT ![cur] = "superseded"]
    /\ retiring' = retiring \ {cur}
    /\ cur' = Nothing
    /\ pc' = "retire"
    /\ UNCHANGED <<pending, library, envVars, planVars, todo, delivered, seen, failed>>

SupersedeFails ==
    /\ pc = "supersede"
    /\ Fault /\ RetirementFailed
    /\ UNCHANGED <<catalogVars, disk, damaged>>

EndRetirements ==
    /\ pc = "retire" /\ retiring = {}
    /\ pc' = IF failed THEN "finish" ELSE "complete"
    /\ UNCHANGED <<catalogVars, envVars, planVars, loopVars>>

-----------------------------------------------------------------------------
(* Completion: drop the saved plan, and deliver the run's own selection if   *)
(* the plan just completed was an older one.                                *)

Completed == pending' = IF persisted THEN {} ELSE pending

(* Mutant: completing an older plan ends the run.                            *)
CompleteAnyway ==
    /\ pc = "complete"
    /\ Completed
    /\ pc' = "finish"
    /\ UNCHANGED <<records, library, envVars, planVars, loopVars>>

Complete ==
    /\ pc = "complete"
    /\ cands = selected \/ attempt = 2
    /\ Completed
    /\ pc' = "finish"
    /\ UNCHANGED <<records, library, envVars, planVars, loopVars>>

CompleteOlder ==
    /\ pc = "complete"
    /\ cands # selected /\ attempt = 1
    /\ Completed
    /\ pc' = "plan"
    /\ attempt' = 2
    /\ snap' = records
    /\ UNCHANGED <<records, library, envVars, scope, selected, cands, persisted,
                   blocked, unchanged, loopVars>>

Finish ==
    /\ pc = "finish"
    /\ Forget
    /\ UNCHANGED <<catalogVars, envVars>>

(* The process dies, or the store fails where the code aborts the run.      *)
Crash ==
    /\ pc # "idle"
    /\ Fault /\ Forget
    /\ UNCHANGED <<catalogVars, disk, damaged>>

-----------------------------------------------------------------------------
(* Everyone else.                                                           *)

(* A sync, a rebuild or the volume planner changes what is wanted.          *)
Sync(L) ==
    /\ pc = "idle"
    /\ library' = L
    /\ UNCHANGED <<records, pending, envVars, pc, planVars, loopVars>>

UserEdit(p, b) ==
    /\ p \in Editable
    /\ disk[p] # b
    /\ disk' = [disk EXCEPT ![p] = b]
    /\ damaged' = damaged \cup (IF disk[p] \in Artifact THEN Covers[disk[p]] ELSE {})
    /\ UNCHANGED <<catalogVars, faults, pc, planVars, loopVars>>

-----------------------------------------------------------------------------

Plan == RefuseScope \/ DropCyclic \/ RefuseOrder \/ MakePlan \/ Save \/ Prepare

Deliver ==
    \/ \E c \in Artifact :
        \/ AwaitsReplacement(c) \/ SkipBlocked(c) \/ IdentityFails(c)
        \/ SkipUnchanged(c) \/ Offer(c)
    \/ CopyRefused \/ CopyUnneeded \/ Stage \/ Install \/ RecordPublished
    \/ EndDeliveries

Retire ==
    \/ \E o \in Artifact :
        RetireInPlace(o) \/ RetireRefused(o) \/ RetireGone(o) \/ RetireVerified(o)
    \/ Remove \/ RemoveVanished \/ Supersede \/ EndRetirements

RunStep == Plan \/ Deliver \/ Retire \/ Complete \/ CompleteOlder \/ Finish

FaultStep ==
    \/ SaveFails \/ PrepareFails \/ CopyFails \/ InstallUnsynced
    \/ RemoveFails \/ SupersedeFails \/ Crash
    \/ \E c \in Artifact : OfferFails(c)

Edit == \E p \in Path : \E b \in {Absent, Foreign} : UserEdit(p, b)

Start == \E sc \in Scopes : Begin(sc)

Next == Start \/ RunStep \/ FaultStep \/ Edit \/ \E L \in Libraries : Sync(L)

Spec == Init /\ [][Next]_vars

(* The scheduler starts run after run, and a run that is not killed goes on. *)
FairSpec == Spec /\ WF_vars(RunStep) /\ WF_vars(Start)

-----------------------------------------------------------------------------
(* Properties.                                                              *)

(* What a run holds in memory.                                               *)
MemoryOK ==
    /\ pc \in {"idle", "plan", "save", "prepare", "deliver", "check", "install",
               "record", "retire", "remove", "supersede", "complete", "finish"}
    /\ scope \in SUBSET Source
    /\ selected \in SUBSET Artifact
    /\ attempt \in {1, 2}
    /\ snap \in Records
    /\ cands \in SUBSET Artifact
    /\ persisted \in BOOLEAN
    /\ blocked \in SUBSET cands
    /\ unchanged \in SUBSET cands
    /\ todo \in SUBSET cands
    /\ delivered \in SUBSET cands
    /\ retiring \in SUBSET Artifact
    /\ cur \in Artifact \cup {Nothing}
    /\ seen \in Artifact \cup {Absent}
    /\ failed \in BOOLEAN

(* Every variable ranges over the values the code can give it: one saved     *)
(* plan at most, the run's bookkeeping about its candidates alone, verified  *)
(* bytes that are never foreign ones.                                       *)
TypeOK ==
    /\ disk \in [Path -> Bytes]
    /\ records \in Records
    /\ pending \in SUBSET SUBSET Artifact /\ \A P, Q \in pending : P = Q
    /\ library \in SUBSET Artifact
    /\ damaged \in SUBSET Release
    /\ faults \in 0..MaxFaults
    /\ MemoryOK

Readable(r) == \E p \in Path : disk[p] \in Artifact /\ r \in Covers[disk[p]]

(* Neither a replacement nor a retirement, interrupted or not, ever takes   *)
(* away the last readable copy of a release: before an installation         *)
(* overwrites an edition, everything the edition carries is elsewhere.      *)
(* Releases of which the user destroyed a copy are not the run's doing.     *)
ReleasesStayReadable ==
    [][\A r \in Release \ damaged' : Readable(r) => Readable(r)']_vars

(* Steps of a run move pc; the user's do not.                               *)
RunChanges(p) == disk'[p] # disk[p] /\ pc' # pc

(* A run overwrites or removes bytes only if the catalog, as it is at that  *)
(* moment and not as the run read it, still lists them at that path, unless *)
(* they arrived after its last look at the path.                            *)
OnlyOwnedBytesGo ==
    [][\A p \in Path : RunChanges(p) /\ disk[p] = seen =>
            disk[p] \in Owned(records, p) \cup {Absent}]_vars

(* A crash or a failure at any point may leave an old edition beside the new  *)
(* one but never neither: between runs, every release the catalog lists as  *)
(* published is in some file, unless the user destroyed a copy of it.       *)
PublishedStaysReadable ==
    pc = "idle" =>
        \A a \in Published(records) : \A r \in Covers[a] \ damaged : Readable(r)

(* With no run active and no plan pending the catalog tells the truth about *)
(* the directory: what it calls published is there unless the user took it, *)
(* and no delivered file is left that it does not call published.           *)
CatalogMatchesDisk ==
    pc = "idle" /\ ~Resuming =>
        \A a \in Artifact :
            /\ records[a] = "published" =>
                  disk[PathOf[a]] = a \/ Covers[a] \cap damaged # {}
            /\ disk[PathOf[a]] = a => records[a] = "published"

(* Between runs the catalog can be believed: what it lists can be read, and,  *)
(* once nothing is pending, it lists what is there.                         *)
CatalogBelievable == PublishedStaysReadable /\ CatalogMatchesDisk

(* A half-finished delivery is never orphaned: a ledger entry that is still *)
(* "publishing" belongs to the plan saved for the next run to resume.       *)
LedgerInPlan ==
    \A a \in Artifact :
        records[a] = "publishing" => a \in SavedPlan

(* A run that reports no failure has delivered its own selection, also when *)
(* it first had to complete the plan of an earlier run.                     *)
SuccessMeansDelivered ==
    [][pc = "finish" /\ ~failed /\ faults' = faults /\ pc' = "idle" =>
        \A c \in selected :
            /\ records[c] = "published"
            /\ disk[PathOf[c]] = c \/ Covers[c] \cap damaged # {}]_vars

(* A saved plan does not stay pending for ever: once failures stop, a later *)
(* run resumes it and completes its cleanup.                                *)
PendingDeliveryCompletes == Resuming ~> ~Resuming

(* If the wanted library stops changing, it is eventually delivered and     *)
(* stays delivered.                                                         *)
LibraryDelivered ==
    \A L \in Libraries :
        <>[](library = L) => <>[](\A c \in L : PublishedIntact(records, c))

(* A run restricted to some sources changes neither records nor files of    *)
(* the others, even when another run left a plan for them.                  *)
ScopeRespected ==
    [][\A a \in Artifact : pc # "idle" /\ pc' # pc /\ SourceOf[a] \notin scope =>
            /\ records'[a] = records[a]
            /\ disk[PathOf[a]] = a => disk'[PathOf[a]] = a]_vars

(* Delivery implements the transitions of Replacement: the published        *)
(* records are the listed editions, the saved plan is the transition.       *)
Promise == INSTANCE Replacement WITH
    listed <- Published(records),
    transition <- pending

ImplementsReplacement == Promise!Spec
=============================================================================
