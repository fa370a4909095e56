---------------------------- MODULE DeliveryProofs ----------------------------
(***************************************************************************)
(* Theorems about Delivery, for every catalog, library and bound.          *)
(***************************************************************************)
EXTENDS Delivery, TLAPS

(* Where the run holds a candidate, and where it holds a retirement.        *)
Delivering == {"check", "install", "record"}
Retiring == {"remove", "supersede"}

(* TypeOK is inductive only together with what the run has in its hand.      *)
InHand ==
    /\ pc \in Delivering => cur \in cands
    /\ pc \in Retiring => cur \in Artifact

TypeInv == TypeOK /\ InHand

(* A run that ends or dies leaves its memory as it was before it started.    *)
LEMMA ForgetTypes == Forget => MemoryOK' /\ InHand'
<1> SUFFICES ASSUME Forget PROVE MemoryOK' /\ InHand'
  OBVIOUS
<1>1. snap' \in Records
  BY DEF Forget, Records, Statuses
<1>2. persisted' \in BOOLEAN /\ failed' \in BOOLEAN
  BY DEF Forget
<1> QED
  BY <1>1, <1>2 DEF Forget, MemoryOK, InHand, Delivering, Retiring

LEMMA PlanTypes == TypeInv /\ Plan => TypeInv'
<1> SUFFICES ASSUME TypeInv, Plan PROVE TypeInv'
  OBVIOUS
<1> USE CatalogAssumption, DeliveryAssumption
    DEF TypeInv, TypeOK, MemoryOK, InHand, Delivering, Retiring, Records, Statuses, Bytes,
            catalogVars, envVars, planVars, loopVars
<1>1. CASE RefuseScope
  BY <1>1 DEF RefuseScope, GiveUp
<1>2. CASE DropCyclic
  BY <1>2 DEF DropCyclic
<1>3. CASE RefuseOrder
  BY <1>3 DEF RefuseOrder, GiveUp
<1>4. CASE MakePlan
  <2>1. Planned \in SUBSET Artifact
    BY DEF Planned, SavedPlan
  <2>2. Retirable(Planned, snap) \in SUBSET Artifact
    BY DEF Retirable, Published
  <2> QED
    BY <1>4, <2>1, <2>2 DEF MakePlan
<1>5. CASE Save
  BY <1>5 DEF Save
<1>6. CASE Prepare
  BY <1>6 DEF Prepare
<1> QED
  BY <1>1, <1>2, <1>3, <1>4, <1>5, <1>6 DEF Plan

LEMMA DeliverTypes == TypeInv /\ Deliver => TypeInv'
<1> SUFFICES ASSUME TypeInv, Deliver PROVE TypeInv'
  OBVIOUS
<1> USE CatalogAssumption, DeliveryAssumption
    DEF TypeInv, TypeOK, MemoryOK, InHand, Delivering, Retiring, Records, Statuses, Bytes,
            catalogVars, envVars, planVars, loopVars
<1>1. ASSUME NEW c \in Artifact, AwaitsReplacement(c) PROVE TypeInv'
  BY <1>1 DEF AwaitsReplacement, Taken
<1>2. ASSUME NEW c \in Artifact, SkipBlocked(c) PROVE TypeInv'
  BY <1>2 DEF SkipBlocked, Taken
<1>3. ASSUME NEW c \in Artifact, IdentityFails(c) PROVE TypeInv'
  BY <1>3 DEF IdentityFails, Taken
<1>4. ASSUME NEW c \in Artifact, SkipUnchanged(c) PROVE TypeInv'
  BY <1>4 DEF SkipUnchanged, Taken
<1>5. ASSUME NEW c \in Artifact, Offer(c) PROVE TypeInv'
  BY <1>5 DEF Offer, Offered, Taken
<1>6. CASE CopyRefused
  BY <1>6 DEF CopyRefused, NextAfterFailure
<1>7. CASE CopyUnneeded
  BY <1>7 DEF CopyUnneeded
<1>8. CASE Stage
  BY <1>8 DEF Stage, Replaceable, Owned
<1>9. CASE Install
  BY <1>9 DEF Install
<1>10. CASE RecordPublished
  BY <1>10 DEF RecordPublished
<1>11. CASE EndDeliveries
  BY <1>11 DEF EndDeliveries
<1> QED
  BY <1>1, <1>2, <1>3, <1>4, <1>5, <1>6, <1>7, <1>8, <1>9, <1>10, <1>11 DEF Deliver

LEMMA RetireTypes == TypeInv /\ Retire => TypeInv'
<1> SUFFICES ASSUME TypeInv, Retire PROVE TypeInv'
  OBVIOUS
<1> USE CatalogAssumption, DeliveryAssumption
    DEF TypeInv, TypeOK, MemoryOK, InHand, Delivering, Retiring, Records, Statuses, Bytes,
            catalogVars, envVars, planVars, loopVars
<1>1. ASSUME NEW o \in Artifact, RetireInPlace(o) PROVE TypeInv'
  BY <1>1 DEF RetireInPlace
<1>2. ASSUME NEW o \in Artifact, RetireRefused(o) PROVE TypeInv'
  BY <1>2 DEF RetireRefused
<1>3. ASSUME NEW o \in Artifact, RetireGone(o) PROVE TypeInv'
  BY <1>3 DEF RetireGone
<1>4. ASSUME NEW o \in Artifact, RetireVerified(o) PROVE TypeInv'
  BY <1>4 DEF RetireVerified, RetirementConflict, RetirementOwned, Published
<1>5. CASE Remove
  BY <1>5 DEF Remove
<1>6. CASE RemoveVanished
  BY <1>6 DEF RemoveVanished, RetirementFailed
<1>7. CASE Supersede
  BY <1>7 DEF Supersede
<1>8. CASE EndRetirements
  BY <1>8 DEF EndRetirements
<1> QED
  BY <1>1, <1>2, <1>3, <1>4, <1>5, <1>6, <1>7, <1>8 DEF Retire

LEMMA EndTypes == TypeInv /\ (Complete \/ CompleteOlder \/ Finish) => TypeInv'
<1> SUFFICES ASSUME TypeInv, Complete \/ CompleteOlder \/ Finish PROVE TypeInv'
  OBVIOUS
<1> USE CatalogAssumption, DeliveryAssumption
    DEF TypeInv, TypeOK, MemoryOK, InHand, Delivering, Retiring, Records, Statuses, Bytes,
            catalogVars, envVars, planVars, loopVars
<1>1. CASE Complete
  BY <1>1 DEF Complete, Completed
<1>2. CASE CompleteOlder
  BY <1>2 DEF CompleteOlder, Completed
<1>3. CASE Finish
  BY <1>3, ForgetTypes DEF Finish
<1> QED
  BY <1>1, <1>2, <1>3

LEMMA FaultTypes == TypeInv /\ FaultStep => TypeInv'
<1> SUFFICES ASSUME TypeInv, FaultStep PROVE TypeInv'
  OBVIOUS
<1> USE CatalogAssumption, DeliveryAssumption
    DEF TypeInv, TypeOK, MemoryOK, InHand, Delivering, Retiring, Records, Statuses, Bytes,
            catalogVars, envVars, planVars, loopVars, Fault
<1>1. CASE SaveFails
  BY <1>1 DEF SaveFails, GiveUp
<1>2. CASE PrepareFails
  BY <1>2 DEF PrepareFails, GiveUp
<1>3. CASE CopyFails
  BY <1>3 DEF CopyFails, NextAfterFailure
<1>4. CASE InstallUnsynced
  BY <1>4 DEF InstallUnsynced, NextAfterFailure
<1>5. CASE RemoveFails
  BY <1>5 DEF RemoveFails, RetirementFailed
<1>6. CASE SupersedeFails
  BY <1>6 DEF SupersedeFails, RetirementFailed
<1>7. CASE Crash
  BY <1>7, ForgetTypes DEF Crash
<1>8. ASSUME NEW c \in Artifact, OfferFails(c) PROVE TypeInv'
  BY <1>8 DEF OfferFails, Offered, Taken
<1> QED
  BY <1>1, <1>2, <1>3, <1>4, <1>5, <1>6, <1>7, <1>8 DEF FaultStep

LEMMA OutsideTypes ==
  ASSUME TypeInv, Start \/ Edit \/ \E L \in Libraries : Sync(L)
  PROVE  TypeInv'
<1> USE CatalogAssumption, DeliveryAssumption
    DEF TypeInv, TypeOK, MemoryOK, InHand, Delivering, Retiring, Records, Statuses, Bytes,
            catalogVars, envVars, planVars, loopVars
<1>1. ASSUME NEW sc \in Scopes, Begin(sc) PROVE TypeInv'
  BY <1>1 DEF Begin, InScope
<1>2. ASSUME NEW p \in Path, NEW b \in {Absent, Foreign}, UserEdit(p, b) PROVE TypeInv'
  BY <1>2 DEF UserEdit
<1>3. ASSUME NEW L \in Libraries, Sync(L) PROVE TypeInv'
  BY <1>3 DEF Sync
<1> QED
  BY <1>1, <1>2, <1>3 DEF Start, Edit

LEMMA InitTypes == Init => TypeInv
<1> SUFFICES ASSUME Init PROVE TypeInv
  OBVIOUS
<1>1. PICK L \in Delivered0 :
        /\ records = [a \in Artifact |-> IF a \in L THEN "published" ELSE "none"]
        /\ disk = [p \in Path |-> IF \E a \in L : PathOf[a] = p
                                   THEN CHOOSE a \in L : PathOf[a] = p
                                   ELSE Absent]
  BY DEF Init
<1>2. L \subseteq Artifact
  BY CatalogAssumption, DeliveryAssumption
<1>3. disk \in [Path -> Bytes]
  BY <1>1, <1>2 DEF Bytes
<1>4. records \in Records
  BY <1>1 DEF Records, Statuses
<1>5. MemoryOK /\ InHand
  <2>1. snap \in Records
    BY DEF Init, Records, Statuses
  <2> QED
    BY <2>1 DEF Init, MemoryOK, InHand, Delivering, Retiring
<1>6. pending \in SUBSET SUBSET Artifact /\ \A P, Q \in pending : P = Q
  BY CatalogAssumption, DeliveryAssumption DEF Init
<1>7. library \subseteq Artifact /\ damaged = {} /\ faults = 0
  BY CatalogAssumption DEF Init
<1> QED
  BY <1>3, <1>4, <1>5, <1>6, <1>7, DeliveryAssumption DEF TypeInv, TypeOK

(* A step of any actor keeps every variable within its type.                *)
LEMMA StepTypes == TypeInv /\ [Next]_vars => TypeInv'
<1> SUFFICES ASSUME TypeInv, [Next]_vars PROVE TypeInv'
  OBVIOUS
<1>1. CASE UNCHANGED vars
  BY <1>1 DEF vars, planVars, loopVars, TypeInv, TypeOK, MemoryOK, InHand, Delivering, Retiring,
              Records, Statuses
<1> QED
  BY <1>1, PlanTypes, DeliverTypes, RetireTypes, EndTypes, FaultTypes, OutsideTypes
     DEF Next, RunStep

(***************************************************************************)
(* Every variable keeps its type: TypeOK strengthened by what the run holds *)
(* is inductive.                                                            *)
(***************************************************************************)
THEOREM TypeCorrect == Spec => []TypeOK
<1>1. TypeInv => TypeOK
  BY DEF TypeInv
<1> QED
  BY <1>1, InitTypes, StepTypes, PTL DEF Spec

-----------------------------------------------------------------------------
(* The publishing ledger never points outside the saved plan.               *)

Executing == {"prepare", "deliver", "check", "install", "record",
              "retire", "remove", "supersede", "complete"}

BeforeRetiring == {"save", "prepare", "deliver", "check", "install", "record"}

Distinct(S) == \A a, b \in S : a # b => PathOf[a] # PathOf[b]

(* No candidate set in play gives two artifacts one path.                    *)
PathsDistinct ==
    Distinct(library) /\ Distinct(selected) /\ Distinct(SavedPlan) /\ Distinct(cands)

(* Until it acts, a run has read the catalog as it is.                       *)
SnapFresh == pc \in {"plan", "save", "prepare"} => snap = records

(* What a run executes is the saved plan, unless there is nothing to do.     *)
PlanSaved ==
    /\ pc = "save" => pending = {} /\ persisted
    /\ pc \in Executing =>
          \/ persisted /\ pending = {cands}
          \/ ~persisted /\ pending = {} /\ unchanged = cands

(* A plan being executed has an order, and keeps it while records change.    *)
Orderly == pc \in Executing \cup {"save"} => ~Cyclic(cands, records)

Publishing == {a \in Artifact : records[a] = "publishing"}

(* An offered candidate is finished, or the run has failed and will not      *)
(* complete the plan.                                                       *)
LedgerOpen ==
    /\ pc \in BeforeRetiring =>
          /\ \A a \in Publishing :
                a \in todo \/ failed \/ (pc \in Delivering /\ a = cur)
          /\ \A c \in unchanged \cap todo : records[c] = "published"
          /\ blocked # {} => failed
    /\ pc \in {"retire", "remove", "supersede", "complete"} => Publishing = {}

LedgerInv ==
    /\ LedgerInPlan
    /\ Publishing # {} => ~Cyclic(SavedPlan, records)
    /\ PathsDistinct /\ SnapFresh /\ PlanSaved /\ Orderly /\ LedgerOpen

(* Fewer published editions to overwrite, or none more at a candidate's path, *)
(* give no candidate a new dependency.                                       *)
LEMMA NoNewDependencies ==
  ASSUME NEW cs, NEW before, NEW after,
         \A c \in cs : Dependencies(cs, after, c) \subseteq Dependencies(cs, before, c),
         ~Cyclic(cs, before)
  PROVE  ~Cyclic(cs, after)
  BY DEF Cyclic

LEMMA PublishedShrinks ==
  ASSUME NEW cs, NEW before, NEW after,
         Published(after) \subseteq Published(before),
         ~Cyclic(cs, before)
  PROVE  ~Cyclic(cs, after)
<1>1. \A c \in cs : Dependencies(cs, after, c) \subseteq Dependencies(cs, before, c)
  BY DEF Dependencies, ReplacedVolumes
<1> QED
  BY <1>1, NoNewDependencies

(* Recording a candidate as published makes nobody wait for it: no other     *)
(* candidate goes to its path.                                              *)
LEMMA PublishedCandidate ==
  ASSUME NEW cs \in SUBSET Artifact, NEW before \in Records, NEW d \in cs,
         Distinct(cs), ~Cyclic(cs, before)
  PROVE  ~Cyclic(cs, [before EXCEPT ![d] = "published"])
<1> DEFINE after == [before EXCEPT ![d] = "published"]
<1>1. Published(after) \subseteq Published(before) \cup {d}
  BY DEF Published, Records
<1>2. ASSUME NEW c \in cs PROVE ReplacedVolumes(after, c) \subseteq ReplacedVolumes(before, c)
  BY <1>1 DEF ReplacedVolumes, Distinct
<1>3. \A c \in cs : Dependencies(cs, after, c) \subseteq Dependencies(cs, before, c)
  BY <1>2 DEF Dependencies
<1> QED
  BY <1>3, NoNewDependencies

LEMMA OneSavedPlan ==
  /\ pending = {} => SavedPlan = {}
  /\ \A S : pending = {S} => SavedPlan = S
  /\ TypeInv /\ Resuming => pending = {SavedPlan}
<1>1. \A S : UNION {S} = S
  OBVIOUS
<1>2. ASSUME TypeInv, Resuming PROVE pending = {SavedPlan}
  <2>1. PICK P \in pending : TRUE
    BY <1>2 DEF Resuming
  <2>2. pending = {P}
    BY <1>2, <2>1 DEF TypeInv, TypeOK
  <2> QED
    BY <2>2, <1>1 DEF SavedPlan
<1> QED
  BY <1>1, <1>2 DEF SavedPlan

(* A run that is over, or only has its lifecycle event left, changes nothing *)
(* the ledger depends on.                                                   *)
LEMMA LedgerAtEnd ==
  ASSUME LedgerInv, pc' \in {"idle", "finish"}, UNCHANGED <<records, pending, library>>,
         cands' \in {cands, {}}, selected' \in {selected, {}}
  PROVE  LedgerInv'
<1>1. PathsDistinct'
  BY DEF LedgerInv, PathsDistinct, Distinct, SavedPlan
<1>2. LedgerInPlan' /\ (Publishing' # {} => ~Cyclic(SavedPlan', records'))
  BY DEF LedgerInv, LedgerInPlan, Publishing, SavedPlan
<1> QED
  BY <1>1, <1>2 DEF LedgerInv, SnapFresh, PlanSaved, Orderly, LedgerOpen, Executing,
                    BeforeRetiring

LEMMA LedgerPlanned == TypeInv /\ LedgerInv /\ MakePlan => LedgerInv'
<1> SUFFICES ASSUME TypeInv, LedgerInv, MakePlan PROVE LedgerInv'
  OBVIOUS
<1>1. pc = "plan" /\ snap = records
  BY DEF MakePlan, LedgerInv, SnapFresh
<1>2. UNCHANGED <<records, pending, library, selected, snap>>
  BY DEF MakePlan, catalogVars
<1>3. cands' = Planned /\ todo' = Planned /\ ~Cyclic(Planned, records)
  BY <1>1 DEF MakePlan
<1>4. PathsDistinct'
  BY <1>2, <1>3 DEF LedgerInv, PathsDistinct, Distinct, SavedPlan, Planned
<1>5. LedgerInPlan' /\ (Publishing' # {} => ~Cyclic(SavedPlan', records'))
  BY <1>2 DEF LedgerInv, LedgerInPlan, Publishing, SavedPlan
<1>6. SnapFresh' /\ Orderly'
  BY <1>1, <1>2, <1>3 DEF SnapFresh, Orderly
<1>7. PlanSaved'
  <2>1. CASE Resuming
    BY <2>1, <1>2, <1>3, OneSavedPlan DEF MakePlan, PlanSaved, Planned, Executing
  <2>2. CASE ~Resuming
    BY <2>2, <1>2, <1>3 DEF MakePlan, PlanSaved, Planned, Executing, Resuming
  <2> QED
    BY <2>1, <2>2
<1>8. LedgerOpen'
  <2>1. pc' \in {"save", "prepare"}
    BY DEF MakePlan
  <2>2. Publishing' \subseteq todo'
    <3>1. Publishing' \subseteq SavedPlan
      BY <1>2 DEF LedgerInv, LedgerInPlan, Publishing
    <3>2. ~Resuming => SavedPlan = {}
      BY OneSavedPlan DEF Resuming
    <3> QED
      BY <3>1, <3>2, <1>3 DEF Planned
  <2>3. \A c \in unchanged' : records'[c] = "published"
    BY <1>1, <1>2 DEF MakePlan, PublishedIntact
  <2>4. blocked' # {} => failed'
    BY DEF MakePlan
  <2> QED
    BY <2>1, <2>2, <2>3, <2>4 DEF LedgerOpen
<1> QED
  BY <1>4, <1>5, <1>6, <1>7, <1>8 DEF LedgerInv

LEMMA LedgerDropped == TypeInv /\ LedgerInv /\ DropCyclic => LedgerInv'
<1> SUFFICES ASSUME TypeInv, LedgerInv, DropCyclic PROVE LedgerInv'
  OBVIOUS
<1>1. pc = "plan" /\ pc' = "plan" /\ pending' = {}
      /\ UNCHANGED <<records, library, selected, snap, cands>>
  BY DEF DropCyclic, planVars
<1>2. Publishing' = {}
  BY <1>1 DEF DropCyclic, LedgerInv, SnapFresh, Publishing
<1>3. PathsDistinct'
  BY <1>1 DEF LedgerInv, PathsDistinct, Distinct, SavedPlan
<1> QED
  BY <1>1, <1>2, <1>3 DEF LedgerInv, LedgerInPlan, Publishing, SnapFresh, PlanSaved, Orderly,
                          LedgerOpen, Executing, BeforeRetiring

LEMMA LedgerSaved == TypeInv /\ LedgerInv /\ Save => LedgerInv'
<1> SUFFICES ASSUME TypeInv, LedgerInv, Save PROVE LedgerInv'
  OBVIOUS
<1>1. pc = "save" /\ pc' = "prepare" /\ pending = {} /\ pending' = {cands}
      /\ UNCHANGED <<records, library, planVars, loopVars>>
  BY DEF Save, LedgerInv, PlanSaved
<1>2. SavedPlan = {} /\ SavedPlan' = cands
  BY <1>1, OneSavedPlan DEF SavedPlan
<1>3. Publishing' = {} /\ LedgerInPlan'
  BY <1>1, <1>2 DEF LedgerInv, LedgerInPlan, Publishing
<1>4. PathsDistinct'
  BY <1>1, <1>2 DEF LedgerInv, PathsDistinct, Distinct, planVars
<1>5. SnapFresh' /\ Orderly' /\ PlanSaved'
  BY <1>1 DEF LedgerInv, SnapFresh, Orderly, PlanSaved, planVars, Executing
<1>6. LedgerOpen'
  BY <1>1, <1>3 DEF LedgerInv, LedgerOpen, planVars, loopVars, BeforeRetiring
<1> QED
  BY <1>3, <1>4, <1>5, <1>6 DEF LedgerInv

LEMMA LedgerPlan == TypeInv /\ LedgerInv /\ Plan => LedgerInv'
<1> SUFFICES ASSUME TypeInv, LedgerInv, Plan PROVE LedgerInv'
  OBVIOUS
<1>1. CASE RefuseScope
  BY <1>1, LedgerAtEnd DEF RefuseScope, GiveUp, catalogVars, planVars
<1>2. CASE RefuseOrder
  BY <1>2, LedgerAtEnd DEF RefuseOrder, GiveUp, catalogVars, planVars
<1>3. CASE Prepare
  BY <1>3 DEF Prepare, LedgerInv, LedgerInPlan, Publishing, PathsDistinct, Distinct, SavedPlan,
              SnapFresh, PlanSaved, Orderly, LedgerOpen, Executing, BeforeRetiring, Delivering,
              catalogVars, planVars, loopVars
<1> QED
  BY <1>1, <1>2, <1>3, LedgerPlanned, LedgerDropped, LedgerSaved DEF Plan

(* The part of the invariant that a step of an executing run cannot disturb  *)
(* while it leaves the catalog and the plan alone.                           *)
LEMMA LedgerKept ==
  ASSUME LedgerInv, pc \in Executing \ {"prepare"}, pc' \in Executing \ {"prepare"},
         UNCHANGED <<records, pending, library, planVars>>,
         LedgerOpen'
  PROVE  LedgerInv'
  BY DEF LedgerInv, LedgerInPlan, Publishing, PathsDistinct, Distinct, SavedPlan, SnapFresh,
         PlanSaved, Orderly, Executing, planVars

LEMMA LedgerDelivering == TypeInv /\ LedgerInv /\ Deliver => LedgerInv'
<1> SUFFICES ASSUME TypeInv, LedgerInv, Deliver PROVE LedgerInv'
  OBVIOUS
<1> USE DEF catalogVars, planVars
<1>1. ASSUME NEW c \in Artifact,
             AwaitsReplacement(c) \/ SkipBlocked(c) \/ IdentityFails(c) \/ SkipUnchanged(c)
      PROVE  LedgerInv'
  <2>1. pc = "deliver" /\ UNCHANGED <<pc, records, pending, library, planVars, cur>>
        /\ todo' = todo \ {c}
    BY <1>1 DEF Taken, AwaitsReplacement, SkipBlocked, IdentityFails, SkipUnchanged
  <2>2. failed' \/ (c \in unchanged /\ failed' = failed)
    BY <1>1 DEF Taken, AwaitsReplacement, SkipBlocked, IdentityFails, SkipUnchanged, LedgerInv,
                LedgerOpen, BeforeRetiring
  <2>3. c \in todo
    BY <1>1 DEF Taken, AwaitsReplacement, SkipBlocked, IdentityFails, SkipUnchanged
  <2>4. LedgerOpen'
    <3>1. CASE failed'
      BY <2>1, <3>1 DEF LedgerInv, LedgerOpen, BeforeRetiring
    <3>2. CASE c \in unchanged /\ failed' = failed
      <4>1. c \notin Publishing
        BY <2>1, <2>3, <3>2 DEF LedgerInv, LedgerOpen, BeforeRetiring, Publishing
      <4> QED
        BY <2>1, <3>2, <4>1 DEF LedgerInv, LedgerOpen, BeforeRetiring, Publishing, Delivering
    <3> QED
      BY <2>2, <3>1, <3>2
  <2> QED
    BY <2>1, <2>4, LedgerKept DEF Executing
<1>2. ASSUME NEW c \in Artifact, Offer(c) PROVE LedgerInv'
  <2>1. pc = "deliver" /\ pc' = "check" /\ c \in todo /\ c \notin unchanged
        /\ records' = [records EXCEPT ![c] = "publishing"] /\ cur' = c
        /\ UNCHANGED <<pending, library, planVars, failed>> /\ todo' = todo \ {c}
    BY <1>2 DEF Offer, Offered, Taken
  <2>2. c \in cands /\ records \in Records
    BY <2>1 DEF TypeInv, TypeOK, MemoryOK
  <2>3. SavedPlan = cands /\ pending = {cands} /\ persisted
    BY <2>1, <2>2, OneSavedPlan DEF LedgerInv, PlanSaved, Executing
  <2>4. Publishing' \subseteq Publishing \cup {c} /\ Published(records') \subseteq Published(records)
    BY <2>1, <2>2 DEF Publishing, Published, Records
  <2>5. ~Cyclic(cands, records')
    BY <2>1, <2>4, PublishedShrinks DEF LedgerInv, Orderly, Executing
  <2>6. LedgerInPlan'
    BY <2>1, <2>2, <2>3, <2>4 DEF LedgerInv, LedgerInPlan, Publishing, SavedPlan
  <2>7. PathsDistinct' /\ SavedPlan' = cands'
    BY <2>1, <2>3 DEF LedgerInv, PathsDistinct, Distinct, SavedPlan
  <2>8. LedgerOpen'
    <3>1. ASSUME NEW d \in unchanged \cap todo' PROVE records'[d] = "published"
      BY <2>1, <2>2, <3>1 DEF LedgerInv, LedgerOpen, BeforeRetiring, Records
    <3> QED
      BY <2>1, <2>4, <3>1 DEF LedgerInv, LedgerOpen, BeforeRetiring, Delivering
  <2> QED
    BY <2>1, <2>3, <2>5, <2>6, <2>7, <2>8
       DEF LedgerInv, SnapFresh, PlanSaved, Orderly, Executing
<1>3. CASE CopyRefused
  <2>1. LedgerOpen'
    BY <1>3 DEF CopyRefused, NextAfterFailure, LedgerInv, LedgerOpen, BeforeRetiring, Publishing
  <2> QED
    BY <1>3, <2>1, LedgerKept DEF CopyRefused, NextAfterFailure, Executing
<1>4. CASE CopyUnneeded \/ Stage \/ Install
  <2>1. pc \in Delivering /\ pc' \in Delivering
        /\ UNCHANGED <<records, pending, library, planVars, todo, cur, failed>>
    BY <1>4 DEF CopyUnneeded, Stage, Install, Delivering, loopVars
  <2>2. LedgerOpen'
    BY <2>1 DEF LedgerInv, LedgerOpen, BeforeRetiring, Delivering, Publishing
  <2> QED
    BY <2>1, <2>2, LedgerKept DEF Delivering, Executing
<1>5. CASE RecordPublished
  <2>1. pc = "record" /\ pc' = "deliver" /\ records' = [records EXCEPT ![cur] = "published"]
        /\ UNCHANGED <<pending, library, planVars, todo, failed>>
    BY <1>5 DEF RecordPublished
  <2>2. cur \in cands /\ records \in Records /\ cands \in SUBSET Artifact
    BY <2>1 DEF TypeInv, TypeOK, MemoryOK, InHand, Delivering
  <2>3. Publishing' = Publishing \ {cur}
    BY <2>1, <2>2 DEF Publishing, Records
  <2>4. ~Cyclic(cands, records')
    BY <2>1, <2>2, PublishedCandidate DEF LedgerInv, PathsDistinct, Orderly, Executing
  <2>5. Publishing' # {} => SavedPlan' = cands
    <3>1. SavedPlan = {} => Publishing = {}
      BY DEF LedgerInv, LedgerInPlan, Publishing
    <3> QED
      BY <2>1, <2>3, <3>1, OneSavedPlan DEF LedgerInv, PlanSaved, Executing, SavedPlan
  <2>6. LedgerInPlan'
    BY <2>1, <2>3 DEF LedgerInv, LedgerInPlan, Publishing, SavedPlan
  <2>7. PathsDistinct'
    BY <2>1 DEF LedgerInv, PathsDistinct, Distinct, SavedPlan
  <2>8. LedgerOpen'
    <3>1. ASSUME NEW d \in unchanged \cap todo PROVE records'[d] = "published"
      BY <2>1, <2>2, <3>1 DEF LedgerInv, LedgerOpen, BeforeRetiring, Records
    <3> QED
      BY <2>1, <2>3, <3>1 DEF LedgerInv, LedgerOpen, BeforeRetiring
  <2> QED
    BY <2>1, <2>4, <2>5, <2>6, <2>7, <2>8
       DEF LedgerInv, SnapFresh, PlanSaved, Orderly, Executing
<1>6. CASE EndDeliveries
  <2>1. CASE failed
    BY <1>6, <2>1, LedgerAtEnd DEF EndDeliveries
  <2>2. CASE ~failed
    <3>1. LedgerOpen'
      BY <1>6, <2>2 DEF EndDeliveries, LedgerInv, LedgerOpen, BeforeRetiring, Delivering,
                        Publishing
    <3> QED
      BY <1>6, <2>2, <3>1, LedgerKept DEF EndDeliveries, Executing
  <2> QED
    BY <2>1, <2>2
<1> QED
  BY <1>1, <1>2, <1>3, <1>4, <1>5, <1>6 DEF Deliver

LEMMA LedgerRetiring == TypeInv /\ LedgerInv /\ Retire => LedgerInv'
<1> SUFFICES ASSUME TypeInv, LedgerInv, Retire PROVE LedgerInv'
  OBVIOUS
<1> DEFINE Still == {"retire", "remove", "supersede", "complete"}
<1>1. CASE Supersede
  <2>1. pc = "supersede" /\ pc' = "retire" /\ records' = [records EXCEPT ![cur] = "superseded"]
        /\ UNCHANGED <<pending, library, planVars>>
    BY <1>1 DEF Supersede
  <2>2. records \in Records
    BY DEF TypeInv, TypeOK
  <2>3. Publishing' = {} /\ Published(records') \subseteq Published(records)
    BY <2>1, <2>2 DEF LedgerInv, LedgerOpen, Publishing, Published, Records
  <2>4. ~Cyclic(cands, records')
    BY <2>1, <2>3, PublishedShrinks DEF LedgerInv, Orderly, Executing
  <2>5. PathsDistinct'
    BY <2>1 DEF LedgerInv, PathsDistinct, Distinct, SavedPlan, planVars
  <2> QED
    BY <2>1, <2>3, <2>4, <2>5 DEF LedgerInv, LedgerInPlan, Publishing, SnapFresh, PlanSaved,
                                  Orderly, LedgerOpen, Executing, BeforeRetiring, planVars
<1>2. CASE EndRetirements /\ failed
  BY <1>2, LedgerAtEnd DEF EndRetirements, catalogVars, planVars
<1>3. CASE ~Supersede /\ ~(EndRetirements /\ failed)
  <2>1. pc \in Still /\ pc' \in Still /\ UNCHANGED <<records, pending, library, planVars>>
    BY <1>3 DEF Retire, RetireInPlace, RetireRefused, RetireGone, RetireVerified, Remove,
                RemoveVanished, RetirementFailed, EndRetirements, catalogVars
  <2>2. LedgerOpen'
    BY <2>1 DEF LedgerInv, LedgerOpen, BeforeRetiring, Publishing
  <2> QED
    BY <2>1, <2>2, LedgerKept DEF Executing
<1> QED
  BY <1>1, <1>2, <1>3

LEMMA LedgerCompleting == LedgerInv /\ (Complete \/ CompleteOlder \/ Finish) => LedgerInv'
<1> SUFFICES ASSUME LedgerInv, Complete \/ CompleteOlder \/ Finish PROVE LedgerInv'
  OBVIOUS
<1>1. CASE Complete \/ CompleteOlder
  <2>1. pc = "complete" /\ pc' \in {"finish", "plan"} /\ pending' \in {{}, pending}
        /\ (pc' = "plan" => snap' = records)
        /\ UNCHANGED <<records, library, selected, cands>>
    BY <1>1 DEF Complete, CompleteOlder, Completed, planVars
  <2>2. Publishing' = {}
    BY <2>1 DEF LedgerInv, LedgerOpen, Publishing
  <2>3. PathsDistinct'
    BY <2>1 DEF LedgerInv, PathsDistinct, Distinct, SavedPlan
  <2> QED
    BY <2>1, <2>2, <2>3 DEF LedgerInv, LedgerInPlan, Publishing, SnapFresh, PlanSaved, Orderly,
                            LedgerOpen, Executing, BeforeRetiring
<1>2. CASE Finish
  BY <1>2, LedgerAtEnd DEF Finish, Forget, catalogVars
<1> QED
  BY <1>1, <1>2

LEMMA LedgerFaults == LedgerInv /\ FaultStep => LedgerInv'
<1> SUFFICES ASSUME LedgerInv, FaultStep PROVE LedgerInv'
  OBVIOUS
<1> USE DEF catalogVars
<1>1. CASE SaveFails \/ PrepareFails \/ Crash
  BY <1>1, LedgerAtEnd DEF SaveFails, PrepareFails, Crash, GiveUp, Forget, planVars
<1>2. CASE CopyFails \/ InstallUnsynced
  <2>1. pc \in Delivering /\ pc' = "deliver" /\ failed'
        /\ UNCHANGED <<records, pending, library, planVars, todo>>
    BY <1>2 DEF CopyFails, InstallUnsynced, NextAfterFailure, Delivering
  <2>2. LedgerOpen'
    BY <2>1 DEF LedgerInv, LedgerOpen, BeforeRetiring, Delivering, Publishing, planVars
  <2> QED
    BY <2>1, <2>2, LedgerKept DEF Delivering, Executing
<1>3. CASE RemoveFails \/ SupersedeFails
  <2>1. pc \in Retiring /\ pc' = "retire" /\ UNCHANGED <<records, pending, library, planVars>>
    BY <1>3 DEF RemoveFails, SupersedeFails, RetirementFailed, Retiring
  <2>2. LedgerOpen'
    BY <2>1 DEF LedgerInv, LedgerOpen, BeforeRetiring, Retiring, Publishing
  <2> QED
    BY <2>1, <2>2, LedgerKept DEF Retiring, Executing
<1>4. ASSUME NEW c \in Artifact, OfferFails(c) PROVE LedgerInv'
  <2>1. pc = "deliver" /\ pc' = "deliver" /\ failed' /\ todo' \subseteq todo
        /\ UNCHANGED <<records, pending, library, planVars>>
    BY <1>4 DEF OfferFails, Offered, Taken
  <2>2. LedgerOpen'
    BY <2>1 DEF LedgerInv, LedgerOpen, BeforeRetiring, Publishing, planVars
  <2> QED
    BY <2>1, <2>2, LedgerKept DEF Executing
<1> QED
  BY <1>1, <1>2, <1>3, <1>4 DEF FaultStep

LEMMA LedgerOutside ==
  ASSUME LedgerInv, Start \/ Edit \/ \E L \in Libraries : Sync(L)
  PROVE  LedgerInv'
<1> USE DEF LedgerInv, LedgerInPlan, Publishing, PathsDistinct, Distinct, SavedPlan, SnapFresh,
            PlanSaved, Orderly, LedgerOpen, Executing, BeforeRetiring, Delivering
<1>1. ASSUME NEW sc \in Scopes, Begin(sc) PROVE LedgerInv'
  BY <1>1 DEF Begin, InScope
<1>2. ASSUME NEW p \in Path, NEW b \in {Absent, Foreign}, UserEdit(p, b) PROVE LedgerInv'
  BY <1>2 DEF UserEdit, catalogVars, planVars, loopVars
<1>3. ASSUME NEW L \in Libraries, Sync(L) PROVE LedgerInv'
  BY <1>3, LibraryAssumption DEF Sync, planVars, loopVars
<1> QED
  BY <1>1, <1>2, <1>3 DEF Start, Edit

LEMMA InitLedger == Init => LedgerInv
<1> SUFFICES ASSUME Init PROVE LedgerInv
  OBVIOUS
<1>1. Publishing = {}
  BY DEF Init, Publishing
<1>2. Distinct(SavedPlan)
  <2>1. CASE pending = {}
    BY <2>1, OneSavedPlan DEF Distinct
  <2>2. ASSUME NEW P \in OlderPlans, pending = {P} PROVE Distinct(SavedPlan)
    BY <2>2, OneSavedPlan, LibraryAssumption, DeliveryAssumption DEF Distinct
  <2> QED
    BY <2>1, <2>2 DEF Init
<1>3. PathsDistinct
  BY <1>2, LibraryAssumption DEF Init, PathsDistinct, Distinct
<1> QED
  BY <1>1, <1>3 DEF Init, LedgerInv, LedgerInPlan, Publishing, SnapFresh, PlanSaved, Orderly,
                    LedgerOpen, Executing, BeforeRetiring

LEMMA StepLedger == TypeInv /\ LedgerInv /\ [Next]_vars => LedgerInv'
<1> SUFFICES ASSUME TypeInv, LedgerInv, [Next]_vars PROVE LedgerInv'
  OBVIOUS
<1>1. CASE UNCHANGED vars
  BY <1>1 DEF vars, planVars, loopVars, LedgerInv, LedgerInPlan, Publishing, PathsDistinct,
              Distinct, SavedPlan, SnapFresh, PlanSaved, Orderly, LedgerOpen, Delivering
<1> QED
  BY <1>1, LedgerPlan, LedgerDelivering, LedgerRetiring, LedgerCompleting, LedgerFaults,
     LedgerOutside DEF Next, RunStep

(***************************************************************************)
(* A half-finished delivery is never orphaned, for every catalog, every     *)
(* library and every number of failures: what the ledger calls "publishing" *)
(* is in the plan the next run resumes.  A run completes its plan only when *)
(* every candidate it offered was recorded, a stale plan is dropped only    *)
(* when it was never started, since an order that exists once never becomes *)
(* a cycle while candidates are recorded and old editions retired.          *)
(***************************************************************************)
THEOREM LedgerStaysInPlan == Spec => []LedgerInPlan
<1>1. Init => TypeInv /\ LedgerInv
  BY InitTypes, InitLedger
<1>2. TypeInv /\ LedgerInv /\ [Next]_vars => (TypeInv /\ LedgerInv)'
  BY StepTypes, StepLedger
<1>3. LedgerInv => LedgerInPlan
  BY DEF LedgerInv
<1> QED
  BY <1>1, <1>2, <1>3, PTL DEF Spec

-----------------------------------------------------------------------------
(* Delivery implements Replacement.                                         *)

(* The steps of a run that has delivered every candidate.                    *)
AfterDelivery == {"retire", "remove", "supersede", "complete"}

(* What a run that executes a plan knows of it: what it has delivered, and   *)
(* what was found in place, is recorded; what it retires is what the plan    *)
(* replaces, all of it unless something failed; what the catalog lists as    *)
(* half-delivered is the plan's.                                            *)
Carried ==
    /\ delivered \subseteq Published(records) /\ unchanged \subseteq Published(records)
    /\ delivered \cap todo = {}
    /\ retiring \subseteq Retirable(cands, records)
    /\ ~failed => Retirable(cands, records) \subseteq retiring
    /\ ~persisted => retiring = {}
    /\ \A x \in Artifact : snap[x] = "publishing" => x \in cands
    /\ ~Uncovering(cands, snap)

(* Unless something failed, what was taken is delivered; who is in hand was  *)
(* offered, after everything it depends on.                                 *)
Advanced ==
    /\ pc \in BeforeRetiring /\ ~failed =>
          \A c \in cands \ todo : c \in delivered \/ (pc \in Delivering /\ c = cur)
    /\ pc \in Delivering => /\ records[cur] = "publishing" /\ cur \notin todo
                            /\ Dependencies(cands, snap, cur) \subseteq delivered
    /\ pc \in AfterDelivery => cands \subseteq delivered
    /\ pc \in Retiring => cur \in retiring
    /\ pc = "remove" => ~InPlace(cur)
    /\ pc = "complete" => ~failed /\ retiring = {}

TransitionInv == Advanced /\ (pc \in Executing \cup {"save"} => Carried)

(* What a change of one record does to what is published and to what a plan  *)
(* replaces.                                                                *)
LEMMA RecordMoves ==
  ASSUME NEW recs \in Records, NEW a \in Artifact, NEW s \in Statuses, NEW cs \in SUBSET Artifact
  PROVE  /\ [recs EXCEPT ![a] = s] \in Records
         /\ s # "published" => Published([recs EXCEPT ![a] = s]) = Published(recs) \ {a}
         /\ s = "published" => Published([recs EXCEPT ![a] = s]) = Published(recs) \cup {a}
         /\ a \in cs => Retirable(cs, [recs EXCEPT ![a] = s]) = Retirable(cs, recs)
<1> DEFINE new == [recs EXCEPT ![a] = s]
<1>1. new \in Records
  BY DEF Records
<1>2. s # "published" => Published(new) = Published(recs) \ {a}
  BY DEF Records, Published
<1>3. s = "published" => Published(new) = Published(recs) \cup {a}
  BY DEF Records, Published
<1>4. a \in cs => Retirable(cs, new) = Retirable(cs, recs)
  <2> SUFFICES ASSUME a \in cs PROVE Published(new) \ cs = Published(recs) \ cs
    BY DEF Retirable
  <2> QED
    BY <1>2, <1>3
<1> QED
  BY <1>1, <1>2, <1>3, <1>4

(* A new plan claims nothing yet; what it would retire is what it replaces.  *)
LEMMA TransitionPlanned == TypeInv /\ LedgerInv /\ MakePlan => TransitionInv'
<1> SUFFICES ASSUME TypeInv, LedgerInv, MakePlan PROVE TransitionInv'
  OBVIOUS
<1>1. /\ pc = "plan" /\ pc' \in {"save", "prepare"} /\ UNCHANGED <<records, snap, cur>>
      /\ cands' = Planned /\ todo' = Planned /\ delivered' = {}
      /\ ~Uncovering(Planned, snap)
      /\ snap = records
  BY DEF MakePlan, LedgerInv, SnapFresh, catalogVars
<1>2. retiring' \subseteq Retirable(Planned, records) /\ unchanged' \subseteq Published(records)
  BY <1>1 DEF MakePlan, PublishedIntact, Published, TypeInv, TypeOK, MemoryOK, Planned, SavedPlan
<1>3. ~failed' => Retirable(Planned, records) \subseteq retiring'
  BY <1>1 DEF MakePlan
<1>4. ~persisted' => retiring' = {}
  BY <1>1 DEF MakePlan
<1>5. \A x \in Artifact : records[x] = "publishing" => x \in Planned
  <2>1. Publishing \subseteq SavedPlan
    BY DEF LedgerInv, LedgerInPlan, Publishing
  <2>2. ~Resuming => SavedPlan = {}
    BY OneSavedPlan DEF Resuming
  <2> QED
    BY <2>1, <2>2 DEF Planned, Publishing
<1>6. Carried'
  BY <1>1, <1>2, <1>3, <1>4, <1>5 DEF Carried
<1>7. Advanced'
  BY <1>1 DEF Advanced, BeforeRetiring, Delivering, AfterDelivery, Retiring
<1> QED
  BY <1>6, <1>7 DEF TransitionInv

LEMMA TransitionPlan == TypeInv /\ LedgerInv /\ TransitionInv /\ Plan => TransitionInv'
<1> SUFFICES ASSUME TypeInv, LedgerInv, TransitionInv, Plan PROVE TransitionInv'
  OBVIOUS
<1>1. CASE RefuseScope \/ DropCyclic \/ RefuseOrder
  <2>1. pc' \in {"finish", "plan"}
    BY <1>1 DEF RefuseScope, DropCyclic, RefuseOrder, GiveUp
  <2> QED
    BY <2>1 DEF TransitionInv, Advanced, Executing, BeforeRetiring, Delivering, AfterDelivery, Retiring
<1>2. CASE Save \/ Prepare
  <2>1. /\ pc \in {"save", "prepare"} /\ pc' \in {"prepare", "deliver"}
        /\ UNCHANGED <<records, planVars, loopVars>>
    BY <1>2 DEF Save, Prepare, catalogVars
  <2>2. Carried'
    BY <2>1 DEF TransitionInv, Executing, Carried, planVars, loopVars
  <2>3. Advanced'
    BY <2>1 DEF TransitionInv, Advanced, BeforeRetiring, Delivering, AfterDelivery, Retiring, planVars, loopVars
  <2> QED
    BY <2>2, <2>3 DEF TransitionInv
<1> QED
  BY <1>1, <1>2, TransitionPlanned DEF Plan

LEMMA TransitionDelivering == TypeInv /\ LedgerInv /\ TransitionInv /\ Deliver => TransitionInv'
<1> SUFFICES ASSUME TypeInv, LedgerInv, TransitionInv, Deliver PROVE TransitionInv'
  OBVIOUS
<1>0. records \in Records /\ cands \in SUBSET Artifact /\ todo \in SUBSET cands
  BY DEF TypeInv, TypeOK, MemoryOK
<1>1. ASSUME NEW c \in Artifact,
             AwaitsReplacement(c) \/ SkipBlocked(c) \/ IdentityFails(c) \/ SkipUnchanged(c)
      PROVE  TransitionInv'
  <2>1. /\ pc = "deliver" /\ UNCHANGED <<pc, records, planVars, retiring, cur>>
        /\ c \in todo /\ todo' = todo \ {c}
        /\ failed => failed'
        /\ \/ failed' /\ delivered' = delivered
           \/ c \in unchanged /\ delivered' = delivered \cup {c}
    <3>1. CASE AwaitsReplacement(c) \/ IdentityFails(c)
      BY <3>1 DEF Taken, AwaitsReplacement, IdentityFails, catalogVars
    <3>2. CASE SkipBlocked(c)
      <4>1. pc = "deliver" /\ c \in blocked
        BY <3>2 DEF SkipBlocked, Taken
      <4>2. failed
        BY <4>1 DEF LedgerInv, LedgerOpen, BeforeRetiring
      <4> QED
        BY <3>2, <4>2 DEF Taken, SkipBlocked, catalogVars
    <3>3. CASE SkipUnchanged(c)
      BY <3>3 DEF Taken, SkipUnchanged, catalogVars
    <3> QED
      BY <1>1, <3>1, <3>2, <3>3
  <2>2. Carried
    BY <2>1 DEF TransitionInv, Executing
  <2>3. Carried'
    BY <2>1, <2>2 DEF Carried, planVars
  <2>4. Advanced'
    BY <2>1 DEF TransitionInv, Advanced, BeforeRetiring, Delivering, AfterDelivery, Retiring, planVars
  <2> QED
    BY <2>3, <2>4 DEF TransitionInv
<1>2. ASSUME NEW c \in Artifact, Offer(c) PROVE TransitionInv'
  <2>1. /\ pc = "deliver" /\ pc' = "check" /\ c \in todo /\ todo' = todo \ {c} /\ cur' = c
        /\ records' = [records EXCEPT ![c] = "publishing"]
        /\ c \notin unchanged /\ Dependencies(cands, snap, c) \subseteq delivered
        /\ UNCHANGED <<planVars, delivered, retiring, failed>>
    BY <1>2 DEF Offer, Offered, Taken, Ready
  <2>2. Carried
    BY <2>1 DEF TransitionInv, Executing
  <2>3. /\ Published(records') = Published(records) \ {c} /\ records'[c] = "publishing"
        /\ Retirable(cands, records') = Retirable(cands, records)
    <3>1. "publishing" \in Statuses /\ c \in cands
      BY <1>0, <2>1 DEF Statuses
    <3>2. /\ Published([records EXCEPT ![c] = "publishing"]) = Published(records) \ {c}
          /\ Retirable(cands, [records EXCEPT ![c] = "publishing"]) = Retirable(cands, records)
      BY <1>0, <3>1, RecordMoves
    <3> QED
      BY <1>0, <2>1, <3>2 DEF Records
  <2>4. Carried'
    BY <2>1, <2>2, <2>3 DEF Carried, planVars
  <2>5. Advanced'
    BY <2>1, <2>3 DEF TransitionInv, Advanced, BeforeRetiring, Delivering, AfterDelivery, Retiring, planVars
  <2> QED
    BY <2>4, <2>5 DEF TransitionInv
<1>3. CASE CopyRefused \/ CopyUnneeded \/ Stage \/ Install
  <2>1. /\ pc \in Delivering /\ pc' \in Delivering \cup {"deliver"}
        /\ UNCHANGED <<records, planVars, todo, delivered, retiring>>
        /\ (pc' = "deliver" /\ failed') \/ (pc' \in Delivering /\ UNCHANGED <<failed, cur>>)
    BY <1>3 DEF CopyRefused, NextAfterFailure, CopyUnneeded, Stage, Install, Delivering, loopVars, catalogVars
  <2>2. Carried
    BY <2>1 DEF TransitionInv, Executing, Delivering
  <2>3. Carried'
    BY <2>1, <2>2 DEF Carried, planVars
  <2>4. Advanced'
    BY <2>1 DEF TransitionInv, Advanced, BeforeRetiring, Delivering, AfterDelivery, Retiring, planVars
  <2> QED
    BY <2>3, <2>4 DEF TransitionInv
<1>4. CASE RecordPublished
  <2>1. /\ pc = "record" /\ pc' = "deliver" /\ delivered' = delivered \cup {cur}
        /\ records' = [records EXCEPT ![cur] = "published"]
        /\ UNCHANGED <<planVars, todo, retiring, failed>>
    BY <1>4 DEF RecordPublished
  <2>2. Carried /\ cur \in cands /\ cur \notin todo
    BY <2>1 DEF TransitionInv, Executing, Advanced, Delivering, TypeInv, InHand
  <2>3. /\ Published(records') = Published(records) \cup {cur}
        /\ Retirable(cands, records') = Retirable(cands, records)
    <3>1. "published" \in Statuses
      BY DEF Statuses
    <3>2. /\ Published([records EXCEPT ![cur] = "published"]) = Published(records) \cup {cur}
          /\ Retirable(cands, [records EXCEPT ![cur] = "published"]) = Retirable(cands, records)
      BY <1>0, <2>2, <3>1, RecordMoves
    <3> QED
      BY <2>1, <3>2
  <2>4. Carried'
    BY <2>1, <2>2, <2>3 DEF Carried, planVars
  <2>5. Advanced'
    BY <2>1 DEF TransitionInv, Advanced, BeforeRetiring, Delivering, AfterDelivery, Retiring, planVars
  <2> QED
    BY <2>4, <2>5 DEF TransitionInv
<1>5. CASE EndDeliveries
  <2>1. /\ pc = "deliver" /\ todo = {} /\ pc' = IF failed THEN "finish" ELSE "retire"
        /\ UNCHANGED <<records, planVars, loopVars>>
    BY <1>5 DEF EndDeliveries, catalogVars
  <2>2. CASE failed
    BY <2>1, <2>2 DEF TransitionInv, Advanced, Executing, BeforeRetiring, Delivering, AfterDelivery, Retiring
  <2>3. CASE ~failed
    <3>1. Carried'
      BY <2>1 DEF TransitionInv, Executing, Carried, planVars, loopVars
    <3>2. Advanced'
      BY <2>1, <2>3 DEF TransitionInv, Advanced, BeforeRetiring, Delivering, AfterDelivery, Retiring, planVars, loopVars
    <3> QED
      BY <3>1, <3>2 DEF TransitionInv
  <2> QED
    BY <2>2, <2>3
<1> QED
  BY <1>1, <1>2, <1>3, <1>4, <1>5 DEF Deliver

LEMMA TransitionRetiring == TypeInv /\ LedgerInv /\ TransitionInv /\ Retire => TransitionInv'
<1> SUFFICES ASSUME TypeInv, LedgerInv, TransitionInv, Retire PROVE TransitionInv'
  OBVIOUS
<1>0. records \in Records /\ cands \in SUBSET Artifact
  BY DEF TypeInv, TypeOK, MemoryOK
<1>1. pc \in AfterDelivery
  BY DEF Retire, RetireInPlace, RetireRefused, RetireGone, RetireVerified, Remove, RemoveVanished, Supersede,
         EndRetirements, AfterDelivery
<1>2. Carried /\ cands \subseteq delivered
  BY <1>1 DEF TransitionInv, Executing, AfterDelivery, Advanced
<1>3. CASE Supersede
  <2>1. /\ pc = "supersede" /\ pc' = "retire" /\ records' = [records EXCEPT ![cur] = "superseded"]
        /\ retiring' = retiring \ {cur} /\ UNCHANGED <<planVars, todo, delivered, failed>>
    BY <1>3 DEF Supersede
  <2>2. cur \in retiring /\ cur \in Artifact /\ cur \notin cands
    BY <1>2, <2>1 DEF TransitionInv, Advanced, Retiring, Carried, Retirable, Published
  <2>3. /\ Published(records') = Published(records) \ {cur}
        /\ Retirable(cands, records') = Retirable(cands, records) \ {cur}
    <3>1. "superseded" \in Statuses
      BY DEF Statuses
    <3>2. Published([records EXCEPT ![cur] = "superseded"]) = Published(records) \ {cur}
      BY <1>0, <2>2, <3>1, RecordMoves
    <3>3. Retirable(cands, [records EXCEPT ![cur] = "superseded"]) = Retirable(cands, records) \ {cur}
      BY <3>2 DEF Retirable
    <3> QED
      BY <2>1, <3>2, <3>3
  <2>4. delivered \subseteq cands /\ unchanged \subseteq cands
    BY DEF TypeInv, TypeOK, MemoryOK
  <2>5. Carried'
    BY <1>2, <2>1, <2>2, <2>3, <2>4 DEF Carried, planVars
  <2>6. Advanced'
    BY <1>2, <2>1 DEF Advanced, BeforeRetiring, Delivering, AfterDelivery, Retiring, planVars
  <2> QED
    BY <2>5, <2>6 DEF TransitionInv
<1>4. CASE EndRetirements
  <2>1. /\ pc = "retire" /\ retiring = {}
        /\ pc' = IF failed THEN "finish" ELSE "complete"
        /\ UNCHANGED <<records, planVars, loopVars>>
    BY <1>4 DEF EndRetirements, catalogVars
  <2>2. Carried'
    BY <1>2, <2>1 DEF Carried, planVars, loopVars
  <2>3. Advanced'
    BY <1>2, <2>1 DEF Advanced, BeforeRetiring, Delivering, AfterDelivery, Retiring, planVars, loopVars
  <2> QED
    BY <2>2, <2>3 DEF TransitionInv
<1>5. CASE ~Supersede /\ ~EndRetirements
  <2> DEFINE Moves ==
        /\ UNCHANGED <<records, planVars, todo, delivered>>
        /\ \/ pc' = "retire" /\ failed' /\ retiring' \subseteq retiring
           \/ /\ pc' \in Retiring /\ UNCHANGED <<retiring, failed>> /\ cur' \in retiring
              /\ pc' = "remove" => ~InPlace(cur')
  <2>1. Moves
    <3>1. ASSUME NEW o \in Artifact, RetireInPlace(o) \/ RetireRefused(o) \/ RetireGone(o) \/ RetireVerified(o)
          PROVE  Moves
      BY <3>1 DEF RetireInPlace, RetireRefused, RetireGone, RetireVerified, Retiring, catalogVars, planVars
    <3>2. CASE Remove \/ RemoveVanished
      BY <3>2 DEF Remove, RemoveVanished, RetirementFailed, Retiring, catalogVars, TransitionInv, Advanced
    <3> QED
      BY <1>5, <3>1, <3>2 DEF Retire
  <2>2. Carried'
    BY <1>2, <2>1 DEF Carried, planVars
  <2>3. Advanced'
    BY <1>2, <2>1 DEF Advanced, BeforeRetiring, Delivering, AfterDelivery, Retiring, planVars, InPlace
  <2> QED
    BY <2>2, <2>3 DEF TransitionInv
<1> QED
  BY <1>3, <1>4, <1>5

LEMMA TransitionFaults == TypeInv /\ LedgerInv /\ TransitionInv /\ FaultStep => TransitionInv'
<1> SUFFICES ASSUME TypeInv, LedgerInv, TransitionInv, FaultStep PROVE TransitionInv'
  OBVIOUS
<1>1. CASE SaveFails \/ PrepareFails \/ Crash
  <2>1. pc' \in {"finish", "idle"}
    BY <1>1 DEF SaveFails, PrepareFails, Crash, GiveUp, Forget
  <2> QED
    BY <2>1 DEF TransitionInv, Advanced, Executing, BeforeRetiring, Delivering, AfterDelivery, Retiring
<1>2. CASE CopyFails \/ InstallUnsynced \/ RemoveFails \/ SupersedeFails
  <2>1. /\ UNCHANGED <<records, planVars, todo, delivered>> /\ failed'
        /\ \/ pc \in Delivering /\ pc' = "deliver" /\ retiring' = retiring
           \/ pc \in Retiring /\ pc' = "retire" /\ retiring' \subseteq retiring
    BY <1>2 DEF CopyFails, InstallUnsynced, NextAfterFailure, RemoveFails, SupersedeFails, RetirementFailed,
                Delivering, Retiring, catalogVars
  <2>2. Carried
    BY <2>1 DEF TransitionInv, Executing, Delivering, Retiring
  <2>3. Carried'
    BY <2>1, <2>2 DEF Carried, planVars
  <2>4. Advanced'
    BY <2>1 DEF TransitionInv, Advanced, BeforeRetiring, Delivering, AfterDelivery, Retiring, planVars
  <2> QED
    BY <2>3, <2>4 DEF TransitionInv
<1>3. ASSUME NEW c \in Artifact, OfferFails(c) PROVE TransitionInv'
  <2>1. pc = "deliver" /\ pc' = "deliver" /\ failed' /\ todo' \subseteq todo
        /\ UNCHANGED <<records, planVars, delivered, retiring>>
    BY <1>3 DEF OfferFails, Offered, Taken, catalogVars
  <2>2. Carried'
    BY <2>1 DEF TransitionInv, Executing, Carried, planVars
  <2>3. Advanced'
    BY <2>1 DEF TransitionInv, Advanced, BeforeRetiring, Delivering, AfterDelivery, Retiring
  <2> QED
    BY <2>2, <2>3 DEF TransitionInv
<1> QED
  BY <1>1, <1>2, <1>3 DEF FaultStep

(* What a run knows of the plan it executes stays true with every step.      *)
LEMMA StepTransition == TypeInv /\ LedgerInv /\ TransitionInv /\ [Next]_vars => TransitionInv'
<1> SUFFICES ASSUME TypeInv, LedgerInv, TransitionInv, [Next]_vars PROVE TransitionInv'
  OBVIOUS
<1>1. CASE Start \/ Complete \/ CompleteOlder \/ Finish \/ \E L \in Libraries : Sync(L)
  <2>1. pc' \in {"idle", "plan", "finish"}
    BY <1>1 DEF Start, Begin, Complete, CompleteOlder, Finish, Forget, Sync
  <2> QED
    BY <2>1 DEF TransitionInv, Advanced, Executing, BeforeRetiring, Delivering, AfterDelivery, Retiring
<1>2. CASE Edit \/ UNCHANGED vars
  <2>1. UNCHANGED <<records, pc, planVars, loopVars>>
    BY <1>2 DEF Edit, UserEdit, vars, catalogVars
  <2>2. Carried => Carried'
    BY <2>1 DEF Carried, planVars, loopVars
  <2>3. Advanced'
    BY <2>1 DEF TransitionInv, Advanced, InPlace, planVars, loopVars
  <2> QED
    BY <2>1, <2>2, <2>3 DEF TransitionInv
<1> QED
  BY <1>1, <1>2, TransitionPlan, TransitionDelivering, TransitionRetiring, TransitionFaults DEF Next, RunStep

LEMMA InitTransition == Init => TransitionInv
BY DEF Init, TransitionInv, Advanced, Executing, BeforeRetiring, Delivering, AfterDelivery, Retiring

(* Completing a plan leaves nothing it replaces in the list.                 *)
LEMMA CompletionEnds ==
  ASSUME TypeInv, LedgerInv, TransitionInv, Complete \/ CompleteOlder
  PROVE  Promise!End \/ UNCHANGED <<records, pending>>
<1>1. /\ pc = "complete" /\ UNCHANGED records
      /\ pending' = IF persisted THEN {} ELSE pending
  BY DEF Complete, CompleteOlder, Completed
<1>2. Carried /\ cands \subseteq Published(records) /\ Retirable(cands, records) = {}
  BY <1>1 DEF TransitionInv, Executing, Advanced, AfterDelivery, Carried
<1>3. CASE persisted
  <2>1. pending = {cands} /\ SavedPlan = cands
    BY <1>1, <1>3, OneSavedPlan DEF LedgerInv, PlanSaved, Executing
  <2> QED
    BY <1>1, <1>2, <1>3, <2>1 DEF Promise!End, Promise!Installing, Promise!Replaced, Promise!CoveredBy,
       SavedPlan, Retirable, CoveredBy
<1> QED
  BY <1>1, <1>3

(***************************************************************************)
(* Every step of a delivery is a step of Replacement or leaves the          *)
(* published records and the saved plan alone.                              *)
(***************************************************************************)
LEMMA StepRefines ==
  ASSUME TypeInv, LedgerInv, TransitionInv, [Next]_vars
  PROVE  [Promise!Next]_<<Published(records), pending>>
<1> USE DEF Promise!Next
<1>1. CASE UNCHANGED <<records, pending>>
  BY <1>1
<1>2. CASE DropCyclic
  <2>1. pending = {SavedPlan} /\ pending' = {} /\ UNCHANGED records /\ snap = records /\ Cyclic(SavedPlan, records)
    BY <1>2, OneSavedPlan DEF DropCyclic, LedgerInv, SnapFresh
  <2>2. PICK C \in SUBSET SavedPlan : C # {} /\ \A c \in C : Dependencies(SavedPlan, records, c) \cap C # {}
    BY <2>1 DEF Cyclic
  <2>3. ASSUME NEW c \in C
        PROVE  \E o \in Published(records) \cap Volume : \E d \in C \ {c} :
                 o # c /\ PathOf[o] = PathOf[c] /\ Covers[o] \cap Covers[d] # {}
    BY <2>2 DEF Dependencies, ReplacedVolumes
  <2>4. Promise!Reject
    BY <2>1, <2>2, <2>3 DEF Promise!Reject, Promise!Installing, SavedPlan
  <2> QED
    BY <2>4
<1>3. CASE Save
  <2>1. pending = {} /\ pending' = {cands} /\ UNCHANGED records /\ cands \in SUBSET Artifact
    BY <1>3 DEF Save, LedgerInv, PlanSaved, TypeInv, TypeOK, MemoryOK
  <2> QED
    BY <2>1 DEF Promise!Announce
<1>4. ASSUME NEW c \in Artifact, Offer(c) PROVE [Promise!Next]_<<Published(records), pending>>
  <2>1. pc = "deliver" /\ c \in cands /\ c \notin unchanged /\ pending' = pending
        /\ records' = [records EXCEPT ![c] = "publishing"]
    BY <1>4 DEF Offer, Offered, Taken, TypeInv, TypeOK, MemoryOK
  <2>2. SavedPlan = cands
    BY <2>1, OneSavedPlan DEF LedgerInv, PlanSaved, Executing
  <2>3. Published(records)' = Published(records) \ {c}
    BY <2>1, RecordMoves DEF TypeInv, TypeOK, Statuses
  <2> QED
    BY <2>1, <2>2, <2>3 DEF Promise!Redeliver, Promise!Installing, SavedPlan
<1>5. CASE RecordPublished
  <2>1. pc = "record" /\ pending' = pending /\ records' = [records EXCEPT ![cur] = "published"]
    BY <1>5 DEF RecordPublished
  <2>2. cur \in Artifact /\ cur \in SavedPlan
    BY <2>1 DEF TransitionInv, Advanced, Delivering, LedgerInv, LedgerInPlan, TypeInv, TypeOK, MemoryOK, InHand
  <2>3. Published(records)' = Published(records) \cup {cur}
    BY <2>1, <2>2, RecordMoves DEF TypeInv, TypeOK, Statuses
  <2> QED
    BY <2>1, <2>2, <2>3 DEF Promise!List, Promise!Installing, SavedPlan
<1>6. CASE Supersede
  <2>1. pc = "supersede" /\ pending' = pending /\ records' = [records EXCEPT ![cur] = "superseded"]
    BY <1>6 DEF Supersede
  <2>2. Carried /\ cur \in retiring /\ cands \subseteq Published(records)
    BY <2>1 DEF TransitionInv, Executing, Advanced, AfterDelivery, Retiring, Carried
  <2>3. pending = {cands} /\ SavedPlan = cands
    BY <2>1, <2>2, OneSavedPlan DEF LedgerInv, PlanSaved, Executing, Carried
  <2>4. cur \in Artifact /\ cur \in Retirable(cands, records)
    BY <2>2 DEF Carried, Retirable, Published
  <2>5. Published(records)' = Published(records) \ {cur}
    BY <2>1, <2>4, RecordMoves DEF TypeInv, TypeOK, Statuses
  <2> QED
    BY <2>1, <2>2, <2>3, <2>4, <2>5
       DEF Promise!Retire, Promise!Installing, Promise!Replaced, Promise!CoveredBy, SavedPlan, Retirable, CoveredBy
<1>7. CASE Complete \/ CompleteOlder
  BY <1>1, <1>7, CompletionEnds
<1>8. CASE ~DropCyclic /\ ~Save /\ ~RecordPublished /\ ~Supersede /\ ~Complete /\ ~CompleteOlder
           /\ \A c \in Artifact : ~Offer(c)
  <2>1. UNCHANGED <<records, pending>>
    BY <1>8 DEF Next, RunStep, Plan, Deliver, Retire, FaultStep, Start, Edit, vars, catalogVars,
       Begin, RefuseScope, RefuseOrder, MakePlan, Prepare, AwaitsReplacement, SkipBlocked, IdentityFails,
       SkipUnchanged, CopyRefused, CopyUnneeded, Stage, Install, EndDeliveries, RetireInPlace, RetireRefused,
       RetireGone, RetireVerified, Remove, RemoveVanished, EndRetirements, Finish, SaveFails, PrepareFails,
       CopyFails, InstallUnsynced, RemoveFails, SupersedeFails, Crash, OfferFails, UserEdit, Sync
  <2> QED
    BY <1>1, <2>1
<1> QED
  BY <1>2, <1>3, <1>4, <1>5, <1>6, <1>7, <1>8

(***************************************************************************)
(* Delivery implements Replacement for every catalog, library and number of *)
(* failures: editions are listed one by one while their plan is saved, an  *)
(* old edition is dropped only when every candidate is listed and carries  *)
(* what it carried, and the plan ends only when no such edition is left, or *)
(* when its candidates wait for each other and it was never started.       *)
(***************************************************************************)
THEOREM DeliveryReplaces == Spec => ImplementsReplacement
<1>1. Init => Promise!Init
  BY InitTypes DEF TypeInv, TypeOK, Promise!Init, Published, Init
<1>2. Init => TypeInv /\ LedgerInv /\ TransitionInv
  BY InitTypes, InitLedger, InitTransition
<1>3. TypeInv /\ LedgerInv /\ TransitionInv /\ [Next]_vars => (TypeInv /\ LedgerInv /\ TransitionInv)'
  BY StepTypes, StepLedger, StepTransition
<1>4. TypeInv /\ LedgerInv /\ TransitionInv /\ [Next]_vars => [Promise!Next]_(Promise!vars)
  BY StepRefines DEF Promise!vars
<1> QED
  BY <1>1, <1>2, <1>3, <1>4, PTL DEF Spec, ImplementsReplacement, Promise!Spec

-----------------------------------------------------------------------------
(* The directory: what is in it, what was verified of it, what is promised.  *)

(* What configuration and sources ever want delivered.                       *)
Wanted == UNION Libraries

(* A chapter's file name goes to nothing that lacks its release: only a      *)
(* correction of the chapter, or a volume with it, may come to its path.     *)
ChaptersKeepNames ==
    \A a, b \in Wanted :
        a \notin Volume /\ PathOf[a] = PathOf[b] => Covers[a] \subseteq Covers[b]

(* Neither a release nor a path is shared by two sources.                    *)
SourcesApart ==
    \A a, b \in Wanted :
        PathOf[a] = PathOf[b] \/ Covers[a] \cap Covers[b] # {} => SourceOf[a] = SourceOf[b]

(* Plans and records are of what was wanted once.                            *)
WantedInv ==
    /\ library \subseteq Wanted /\ selected \subseteq Wanted
    /\ SavedPlan \subseteq Wanted /\ cands \subseteq Wanted
    /\ \A a \in Artifact : records[a] # "none" => a \in Wanted

(* A file at its path is listed, or its ledger entry is open.                *)
Known ==
    \A p \in Path : disk[p] \in Artifact =>
        PathOf[disk[p]] = p /\ records[disk[p]] \in {"published", "publishing"}

(* At its path, unless the user took it and nothing came instead.            *)
InHold(c) ==
    disk[PathOf[c]] = c \/ (disk[PathOf[c]] \notin Artifact /\ Covers[c] \subseteq damaged)

(* What a run believes delivered is there.                                   *)
There ==
    /\ pc \in Executing \cup {"save"} => \A c \in delivered \cup unchanged : InHold(c)
    /\ pc = "record" => InHold(cur)

(* What was verified is still there, unless the user took it.                *)
Verified ==
    /\ pc \in {"install", "remove"} => disk[PathOf[cur]] \in {seen, Absent, Foreign}
    /\ pc = "install" => seen \in Owned(snap, PathOf[cur]) \cup {Absent}
    /\ pc = "remove" => seen \in RetirementOwned(snap, cur)
    /\ pc = "supersede" => disk[PathOf[cur]] # cur

FilesInv == Known /\ There /\ Verified

(* Published, and neither in place nor taken by the user.                    *)
Overwritten == {a \in Published(records) : disk[PathOf[a]] # a /\ Covers[a] \cap damaged = {}}

(* What is overwritten waits for the saved plan to retire it, and the plan   *)
(* can be carried out; what is listed can be read.                           *)
BelievableInv ==
    /\ Overwritten \subseteq Retirable(SavedPlan, records)
    /\ Overwritten # {} => ~Cyclic(SavedPlan, records)
    /\ \A a \in Published(records) : \A r \in Covers[a] \ damaged : Readable(r)

(* What a run that reports success has delivered.                            *)
SuccessInv ==
    /\ attempt = 2 /\ pc = "plan" => pending = {}
    /\ attempt = 2 /\ pc \in Executing \cup {"save"} => cands = selected
    /\ pc = "idle" => attempt = 1
    /\ pc = "finish" /\ ~failed => \A c \in selected : records[c] = "published" /\ InHold(c)

(* A run selects, and plans, candidates of its sources alone.                *)
ScopeInv ==
    /\ pc # "idle" => \A c \in selected : SourceOf[c] \in scope
    /\ pc \in Executing \cup {"save"} => \A c \in cands : SourceOf[c] \in scope

(* What the earlier sections showed of a run.                                *)
RunInv == TypeInv /\ LedgerInv /\ TransitionInv

(* A run with a plan in its hands.                                           *)
Busy == Executing \cup {"save"}

LEMMA StepRun == RunInv /\ [Next]_vars => RunInv'
BY StepTypes, StepLedger, StepTransition DEF RunInv

(* Who changes the catalog, and who the directory.                           *)
LEMMA Changes ==
  ASSUME [Next]_vars
  PROVE  /\ records' = records \/ RecordPublished \/ Supersede \/ \E c \in Artifact : Offer(c)
         /\ pending' = pending \/ DropCyclic \/ Save \/ Complete \/ CompleteOlder
         /\ disk' = disk \/ Install \/ InstallUnsynced \/ Remove \/ Edit
         /\ damaged' = damaged \/ Edit
         /\ Edit => UNCHANGED <<records, pending, library, pc, planVars, loopVars>>
<1>1. CASE Start \/ Plan \/ Complete \/ CompleteOlder \/ Finish \/ \E L \in Libraries : Sync(L)
  BY <1>1 DEF Start, Begin, Plan, RefuseScope, DropCyclic, RefuseOrder, MakePlan, Save, Prepare, Complete,
     CompleteOlder, Finish, Sync, Edit, UserEdit, catalogVars, envVars
<1>2. CASE Deliver
  BY <1>2 DEF Deliver, AwaitsReplacement, SkipBlocked, IdentityFails, SkipUnchanged, Offer, CopyRefused,
     CopyUnneeded, Stage, Install, RecordPublished, EndDeliveries, Edit, UserEdit, catalogVars, envVars
<1>3. CASE Retire
  BY <1>3 DEF Retire, RetireInPlace, RetireRefused, RetireGone, RetireVerified, Remove, RemoveVanished,
     Supersede, EndRetirements, Edit, UserEdit, catalogVars, envVars
<1>4. CASE FaultStep
  BY <1>4 DEF FaultStep, SaveFails, PrepareFails, CopyFails, InstallUnsynced, RemoveFails, SupersedeFails,
     Crash, OfferFails, Edit, UserEdit, catalogVars, envVars
<1>5. CASE Edit \/ UNCHANGED vars
  BY <1>5 DEF Edit, UserEdit, vars, catalogVars
<1> QED
  BY <1>1, <1>2, <1>3, <1>4, <1>5 DEF Next, RunStep

(* A run that is busy was busy with the same plan, or has just made it.      *)
LEMMA BusyStays ==
  ASSUME [Next]_vars, pc' \in Busy
  PROVE  \/ MakePlan
         \/ /\ pc \in Busy /\ UNCHANGED planVars
            /\ delivered' = delivered \/ (\E c \in unchanged : delivered' = delivered \cup {c}) \/ RecordPublished
<1> USE DEF Busy, Executing
<1>1. CASE Start \/ Plan \/ Complete \/ CompleteOlder \/ Finish \/ \E L \in Libraries : Sync(L)
  BY <1>1 DEF Start, Begin, Plan, RefuseScope, DropCyclic, RefuseOrder, GiveUp, Save, Prepare, Complete,
     CompleteOlder, Finish, Forget, Sync, loopVars
<1>2. CASE Deliver
  BY <1>2 DEF Deliver, AwaitsReplacement, SkipBlocked, IdentityFails, SkipUnchanged, Offer, Offered, Taken,
     CopyRefused, CopyUnneeded, Stage, Install, RecordPublished, EndDeliveries, NextAfterFailure, loopVars
<1>3. CASE Retire
  BY <1>3 DEF Retire, RetireInPlace, RetireRefused, RetireGone, RetireVerified, Remove, RemoveVanished,
     Supersede, EndRetirements, RetirementFailed, loopVars, planVars
<1>4. CASE FaultStep
  BY <1>4 DEF FaultStep, SaveFails, PrepareFails, CopyFails, InstallUnsynced, RemoveFails, SupersedeFails,
     Crash, OfferFails, Offered, Taken, GiveUp, Forget, NextAfterFailure, RetirementFailed
<1>5. CASE Edit \/ UNCHANGED vars
  BY <1>5 DEF Edit, UserEdit, vars, loopVars
<1> QED
  BY <1>1, <1>2, <1>3, <1>4, <1>5 DEF Next, RunStep

(* What is not wanted any more is not wanted for the first time.             *)
LEMMA StepWanted == RunInv /\ WantedInv /\ [Next]_vars => WantedInv'
<1> SUFFICES ASSUME RunInv, WantedInv, [Next]_vars PROVE WantedInv'
  OBVIOUS
<1>1. \A a \in Artifact : records'[a] # "none" => a \in Wanted
  <2>1. CASE records' = records
    BY <2>1 DEF WantedInv
  <2>2. ASSUME NEW c \in Artifact, Offer(c) PROVE c \in Wanted /\ records' = [records EXCEPT ![c] = "publishing"]
    BY <2>2 DEF Offer, Offered, Taken, WantedInv, RunInv, TypeInv, TypeOK, MemoryOK
  <2>3. ASSUME RecordPublished PROVE cur \in Wanted /\ records' = [records EXCEPT ![cur] = "published"]
    BY <2>3 DEF RecordPublished, WantedInv, RunInv, TypeInv, InHand, Delivering
  <2>4. ASSUME Supersede PROVE cur \in Wanted /\ records' = [records EXCEPT ![cur] = "superseded"]
    <3>1. pc = "supersede"
      BY <2>4 DEF Supersede
    <3>2. cur \in Artifact /\ records[cur] = "published"
      BY <3>1 DEF RunInv, TransitionInv, Advanced, Retiring, Executing, Carried, Retirable, Published
    <3> QED
      BY <2>4, <3>2 DEF Supersede, WantedInv
  <2> QED
    BY <2>1, <2>2, <2>3, <2>4, Changes DEF WantedInv, RunInv, TypeInv, TypeOK, Records
<1>2. library' \subseteq Wanted /\ selected' \subseteq Wanted /\ cands' \subseteq Wanted
  <2>1. Planned \subseteq Wanted
    BY DEF Planned, SavedPlan, WantedInv
  <2>2. CASE Start \/ Plan \/ Complete \/ CompleteOlder \/ Finish \/ \E L \in Libraries : Sync(L)
    BY <2>1, <2>2 DEF Start, Begin, InScope, Plan, RefuseScope, DropCyclic, RefuseOrder, GiveUp, MakePlan, Save,
       Prepare, Complete, CompleteOlder, Finish, Forget, Sync, WantedInv, Wanted, catalogVars, planVars
  <2>3. CASE Deliver
    BY <2>3 DEF Deliver, AwaitsReplacement, SkipBlocked, IdentityFails, SkipUnchanged, Offer,
       CopyRefused, CopyUnneeded, Stage, Install, RecordPublished, EndDeliveries, NextAfterFailure, WantedInv,
       catalogVars, planVars
  <2>4. CASE Retire
    BY <2>4 DEF Retire, RetireInPlace, RetireRefused, RetireGone, RetireVerified, Remove, RemoveVanished,
       Supersede, EndRetirements, RetirementFailed, WantedInv, catalogVars, planVars
  <2>5. CASE FaultStep
    BY <2>5 DEF FaultStep, SaveFails, PrepareFails, CopyFails, InstallUnsynced, RemoveFails, SupersedeFails,
       Crash, OfferFails, GiveUp, Forget, NextAfterFailure, RetirementFailed, WantedInv, catalogVars, planVars
  <2>6. CASE Edit \/ UNCHANGED vars
    BY <2>6 DEF Edit, UserEdit, vars, WantedInv, catalogVars, planVars
  <2> QED
    BY <2>2, <2>3, <2>4, <2>5, <2>6 DEF Next, RunStep
<1>3. SavedPlan' \subseteq Wanted
  <2>1. pending' = pending \/ pending' = {} \/ pending' = {cands}
    BY Changes DEF DropCyclic, Save, Complete, CompleteOlder, Completed
  <2> QED
    BY <2>1 DEF SavedPlan, WantedInv
<1> QED
  BY <1>1, <1>2, <1>3 DEF WantedInv

-----------------------------------------------------------------------------
(* What is in the directory.                                                *)

(* The user leaves no edition where none was, and what is lost is noted.     *)
LEMMA Harmless ==
  ASSUME RunInv, Edit
  PROVE  \E p \in Path : \E b \in {Absent, Foreign} :
            /\ disk' = [disk EXCEPT ![p] = b]
            /\ damaged' = damaged \cup (IF disk[p] \in Artifact THEN Covers[disk[p]] ELSE {})
BY DEF Edit, UserEdit

(* What the user destroyed is not forgiven.                                  *)
LEMMA DamagedGrows == RunInv /\ [Next]_vars => damaged \subseteq damaged'
BY Changes, Harmless

(* What a candidate's path holds stays while the plan is carried out.        *)
LEMMA HoldStays ==
  ASSUME RunInv, FilesInv, [Next]_vars, NEW c \in Artifact, InHold(c),
         pc \in {"install", "remove"} => c \in cands
  PROVE  InHold(c)'
<1>1. disk \in [Path -> Bytes] /\ PathOf \in [Artifact -> Path]
  BY CatalogAssumption DEF RunInv, TypeInv, TypeOK
<1>2. CASE Edit
  <2>1. PICK p \in Path, b \in {Absent, Foreign} :
          /\ disk' = [disk EXCEPT ![p] = b]
          /\ damaged' = damaged \cup (IF disk[p] \in Artifact THEN Covers[disk[p]] ELSE {})
    BY <1>2, Harmless
  <2>2. Absent \notin Artifact /\ Foreign \notin Artifact
    BY DeliveryAssumption
  <2> QED
    BY <1>1, <2>1, <2>2 DEF InHold
<1>3. CASE Install \/ InstallUnsynced
  <2>1. pc = "install" /\ disk' = [disk EXCEPT ![PathOf[cur]] = cur] /\ damaged' = damaged
    BY <1>3 DEF Install, InstallUnsynced
  <2>2. cur \in cands /\ c \in cands /\ Distinct(cands) /\ cands \subseteq Artifact
    BY <2>1 DEF RunInv, TypeInv, TypeOK, MemoryOK, InHand, Delivering, LedgerInv, PathsDistinct
  <2>3. c = cur \/ PathOf[c] # PathOf[cur]
    BY <2>2 DEF Distinct
  <2> QED
    BY <1>1, <2>1, <2>2, <2>3 DEF InHold
<1>4. CASE Remove
  <2>1. pc = "remove" /\ disk' = [disk EXCEPT ![PathOf[cur]] = Absent] /\ damaged' = damaged
    BY <1>4 DEF Remove
  <2>2. PathOf[c] # PathOf[cur]
    BY <2>1 DEF RunInv, TransitionInv, Advanced, InPlace
  <2> QED
    BY <1>1, <2>1, <2>2 DEF InHold
<1>5. CASE disk' = disk /\ damaged' = damaged
  BY <1>5 DEF InHold
<1> QED
  BY <1>2, <1>3, <1>4, <1>5, Changes

(* Bytes are listed before they are installed, and gone before they are not. *)
LEMMA KnownStays == RunInv /\ FilesInv /\ [Next]_vars => Known'
<1> SUFFICES ASSUME RunInv, FilesInv, [Next]_vars PROVE Known'
  OBVIOUS
<1>1. disk \in [Path -> Bytes] /\ PathOf \in [Artifact -> Path] /\ records \in Records
  BY CatalogAssumption DEF RunInv, TypeInv, TypeOK
<1>2. Absent \notin Artifact /\ Foreign \notin Artifact
  BY DeliveryAssumption
<1>3. CASE Edit
  BY <1>1, <1>2, <1>3, Harmless, Changes DEF FilesInv, Known
<1>4. CASE Install \/ InstallUnsynced
  <2>1. pc = "install" /\ disk' = [disk EXCEPT ![PathOf[cur]] = cur] /\ records' = records
    BY <1>4 DEF Install, InstallUnsynced, catalogVars
  <2>2. records[cur] = "publishing" /\ cur \in Artifact
    BY <2>1 DEF RunInv, TransitionInv, Advanced, Delivering, TypeInv, TypeOK, MemoryOK, InHand
  <2> QED
    BY <1>1, <2>1, <2>2 DEF FilesInv, Known
<1>5. CASE Remove
  BY <1>1, <1>2, <1>5 DEF Remove, catalogVars, FilesInv, Known
<1>6. ASSUME NEW c \in Artifact, Offer(c) PROVE Known'
  BY <1>1, <1>6 DEF Offer, envVars, FilesInv, Known, Records
<1>7. CASE RecordPublished
  BY <1>1, <1>7 DEF RecordPublished, envVars, FilesInv, Known, Records
<1>8. CASE Supersede
  <2>1. pc = "supersede" /\ records' = [records EXCEPT ![cur] = "superseded"] /\ disk' = disk
    BY <1>8 DEF Supersede, envVars
  <2>2. disk[PathOf[cur]] # cur
    BY <2>1 DEF FilesInv, Verified
  <2> QED
    BY <1>1, <2>1, <2>2 DEF FilesInv, Known, Records
<1>9. CASE disk' = disk /\ records' = records
  BY <1>9 DEF FilesInv, Known
<1> QED
  BY <1>3, <1>4, <1>5, <1>6, <1>7, <1>8, <1>9, Changes

(* What was found, or put, at a path of the plan stays there.                *)
LEMMA ThereStays == RunInv /\ FilesInv /\ [Next]_vars => There'
<1> SUFFICES ASSUME RunInv, FilesInv, [Next]_vars PROVE There'
  OBVIOUS
<1>1. cands \subseteq Artifact /\ delivered \subseteq cands /\ unchanged \subseteq cands
  BY DEF RunInv, TypeInv, TypeOK, MemoryOK
<1>2. ASSUME pc' \in Busy, NEW c \in (delivered \cup unchanged)' PROVE InHold(c)'
  <2>1. CASE MakePlan
    BY <1>2, <2>1 DEF MakePlan, PublishedIntact, InHold, envVars
  <2>2. CASE ~MakePlan
    <3>1. pc \in Busy /\ c \in cands /\ (c \in delivered \cup unchanged \/ (RecordPublished /\ c = cur))
      <4>1. ASSUME RecordPublished PROVE delivered' = delivered \cup {cur} /\ cur \in cands
        BY <4>1 DEF RecordPublished, RunInv, TypeInv, InHand, Delivering
      <4> QED
        BY <1>1, <1>2, <2>2, <4>1, BusyStays DEF planVars
    <3>2. InHold(c)
      <4>1. CASE c \in delivered \cup unchanged
        BY <3>1, <4>1 DEF FilesInv, There, Busy
      <4>2. CASE RecordPublished /\ c = cur
        BY <4>2 DEF RecordPublished, FilesInv, There
      <4> QED
        BY <3>1, <4>1, <4>2
    <3> QED
      BY <1>1, <3>1, <3>2, HoldStays
  <2> QED
    BY <2>1, <2>2
<1>3. ASSUME pc' = "record" PROVE InHold(cur)'
  <2>1. CASE CopyUnneeded
    BY <2>1 DEF CopyUnneeded, InHold, envVars, loopVars
  <2>2. CASE Install
    <3>1. pc = "install" /\ disk' = [disk EXCEPT ![PathOf[cur]] = cur] /\ cur' = cur
      BY <2>2 DEF Install
    <3>2. cur \in Artifact
      BY <1>1, <3>1 DEF RunInv, TypeInv, InHand, Delivering
    <3> QED
      BY <3>1, <3>2, CatalogAssumption DEF InHold, RunInv, TypeInv, TypeOK
  <2>3. CASE ~CopyUnneeded /\ ~Install
    <3>1. pc = "record" /\ cur' = cur
      BY <1>3, <2>3 DEF Next, RunStep, Start, Begin, Plan, RefuseScope, DropCyclic, RefuseOrder, GiveUp, MakePlan,
         Save, Prepare, Complete, CompleteOlder, Finish, Forget, Sync, Deliver, AwaitsReplacement, SkipBlocked,
         IdentityFails, SkipUnchanged, Offer, Offered, Taken, CopyRefused, Stage, RecordPublished, EndDeliveries,
         NextAfterFailure, Retire, RetireInPlace, RetireRefused, RetireGone, RetireVerified, Remove, RemoveVanished,
         Supersede, EndRetirements, RetirementFailed, FaultStep, SaveFails, PrepareFails, CopyFails, InstallUnsynced,
         RemoveFails, SupersedeFails, Crash, OfferFails, Edit, UserEdit, vars, loopVars
    <3>2. cur \in cands /\ InHold(cur)
      BY <3>1 DEF RunInv, TypeInv, InHand, Delivering, FilesInv, There
    <3> QED
      BY <1>1, <3>1, <3>2, HoldStays
  <2> QED
    BY <2>1, <2>2, <2>3
<1> QED
  BY <1>2, <1>3 DEF There, Busy

(* How a run comes to hold a verified path.                                  *)
LEMMA Verifying ==
  ASSUME [Next]_vars, pc' \in {"install", "remove", "supersede"}
  PROVE  \/ Stage \/ Remove
         \/ \E o \in Artifact : RetireInPlace(o) \/ RetireGone(o) \/ RetireVerified(o)
         \/ pc' = pc /\ UNCHANGED <<cur, seen, snap>> /\ (disk' = disk \/ Edit)
<1>1. CASE Start \/ Plan \/ Complete \/ CompleteOlder \/ Finish \/ \E L \in Libraries : Sync(L)
  BY <1>1 DEF Start, Begin, Plan, RefuseScope, DropCyclic, RefuseOrder, GiveUp, MakePlan, Save, Prepare,
     Complete, CompleteOlder, Finish, Forget, Sync
<1>2. CASE Deliver
  BY <1>2 DEF Deliver, AwaitsReplacement, SkipBlocked, IdentityFails, SkipUnchanged, Offer, Offered, Taken,
     CopyRefused, CopyUnneeded, Install, RecordPublished, EndDeliveries, NextAfterFailure
<1>3. CASE Retire
  BY <1>3 DEF Retire, RetireRefused, RemoveVanished, Supersede, EndRetirements, RetirementFailed
<1>4. CASE FaultStep
  BY <1>4 DEF FaultStep, SaveFails, PrepareFails, CopyFails, InstallUnsynced, RemoveFails, SupersedeFails,
     Crash, OfferFails, Offered, Taken, GiveUp, Forget, NextAfterFailure, RetirementFailed
<1>5. CASE Edit \/ UNCHANGED vars
  BY <1>5 DEF Edit, UserEdit, vars, planVars, loopVars
<1> QED
  BY <1>1, <1>2, <1>3, <1>4, <1>5 DEF Next, RunStep

(* Between the look at a path and the step it allows only the user comes.    *)
LEMMA VerifiedStays == RunInv /\ FilesInv /\ [Next]_vars => Verified'
<1> SUFFICES ASSUME RunInv, FilesInv, [Next]_vars PROVE Verified'
  OBVIOUS
<1>1. disk \in [Path -> Bytes] /\ PathOf \in [Artifact -> Path]
  BY CatalogAssumption DEF RunInv, TypeInv, TypeOK
<1>2. Absent \notin Artifact /\ Foreign \notin Artifact
  BY DeliveryAssumption
<1>3. CASE Stage
  <2>1. /\ pc = "check" /\ pc' = "install" /\ UNCHANGED <<cur, snap, disk>> /\ seen' = disk[PathOf[cur]]
        /\ disk[PathOf[cur]] \in Owned(snap, PathOf[cur]) \cup {Absent}
    BY <1>3 DEF Stage, Replaceable, planVars, envVars
  <2> QED
    BY <2>1 DEF Verified
<1>4. CASE Remove
  <2>1. pc = "remove" /\ pc' = "supersede" /\ cur' = cur /\ disk' = [disk EXCEPT ![PathOf[cur]] = Absent]
    BY <1>4 DEF Remove
  <2>2. cur \in Artifact
    BY <2>1 DEF RunInv, TypeInv, InHand, Retiring
  <2> QED
    BY <1>1, <1>2, <2>1, <2>2 DEF Verified
<1>5. ASSUME NEW o \in Artifact, RetireInPlace(o) PROVE Verified'
  <2>1. pc = "retire" /\ pc' = "supersede" /\ o \in retiring /\ cur' = o /\ disk' = disk /\ InPlace(o)
    BY <1>5 DEF RetireInPlace, envVars
  <2>2. PICK c \in cands : PathOf[c] = PathOf[o]
    BY <2>1 DEF InPlace
  <2>3. c \in delivered /\ o \notin cands
    BY <2>1 DEF RunInv, TransitionInv, Advanced, AfterDelivery, Executing, Carried, Retirable
  <2>4. InHold(c)
    BY <2>1, <2>3 DEF FilesInv, There, Executing
  <2> QED
    BY <1>2, <2>1, <2>2, <2>3, <2>4 DEF Verified, InHold
<1>6. ASSUME NEW o \in Artifact, RetireGone(o) PROVE Verified'
  BY <1>2, <1>6 DEF RetireGone, envVars, Verified
<1>7. ASSUME NEW o \in Artifact, RetireVerified(o) PROVE Verified'
  BY <1>7 DEF RetireVerified, RetirementConflict, envVars, planVars, Verified
<1>8. CASE pc' = pc /\ UNCHANGED <<cur, seen, snap>> /\ disk' = disk
  BY <1>8 DEF FilesInv, Verified
<1>9. CASE pc' = pc /\ UNCHANGED <<cur, seen, snap>> /\ Edit
  <2>1. PICK p \in Path, b \in {Absent, Foreign} : disk' = [disk EXCEPT ![p] = b]
    BY <1>9, Harmless
  <2>2. pc \in {"install", "remove", "supersede"} => cur \in Artifact
    BY DEF RunInv, TypeInv, TypeOK, MemoryOK, InHand, Delivering, Retiring
  <2>3. pc \in {"install", "remove", "supersede"} =>
          disk'[PathOf[cur]] \in {disk[PathOf[cur]], Absent, Foreign}
    BY <1>1, <2>1, <2>2
  <2> QED
    BY <1>2, <1>9, <2>2, <2>3 DEF FilesInv, Verified
<1>10. CASE pc' \notin {"install", "remove", "supersede"}
  BY <1>10 DEF Verified
<1> QED
  BY <1>3, <1>4, <1>5, <1>6, <1>7, <1>8, <1>9, <1>10, Verifying

LEMMA StepFiles == RunInv /\ FilesInv /\ [Next]_vars => FilesInv'
BY KnownStays, ThereStays, VerifiedStays DEF FilesInv

LEMMA InitFiles == Init => FilesInv
<1> SUFFICES ASSUME Init PROVE FilesInv
  OBVIOUS
<1>1. PICK L \in Delivered0 :
        /\ records = [a \in Artifact |-> IF a \in L THEN "published" ELSE "none"]
        /\ disk = [p \in Path |-> IF \E a \in L : PathOf[a] = p
                                   THEN CHOOSE a \in L : PathOf[a] = p
                                   ELSE Absent]
  BY DEF Init
<1>2. L \subseteq Artifact
  BY CatalogAssumption, DeliveryAssumption
<1>3. ASSUME NEW p \in Path, disk[p] \in Artifact PROVE disk[p] \in L /\ PathOf[disk[p]] = p
  BY <1>1, <1>3, DeliveryAssumption
<1>4. Known
  BY <1>1, <1>2, <1>3 DEF Known
<1> QED
  BY <1>4 DEF Init, FilesInv, There, Verified, Executing

LEMMA InitRun == Init => RunInv
BY InitTypes, InitLedger, InitTransition DEF RunInv

LEMMA InitWanted == Init => WantedInv
<1> SUFFICES ASSUME Init PROVE WantedInv
  OBVIOUS
<1>1. \A L \in Libraries : L \subseteq Wanted
  BY DEF Wanted
<1>2. SavedPlan \subseteq Wanted
  BY <1>1, DeliveryAssumption DEF Init, SavedPlan
<1> QED
  BY <1>1, <1>2, DeliveryAssumption DEF Init, WantedInv

(***************************************************************************)
(* A run overwrites or removes only bytes the catalog lists at that moment: *)
(* every edition in the directory is, and what it verified is an edition.   *)
(***************************************************************************)
THEOREM OwnedBytesOnly == Spec => OnlyOwnedBytesGo
<1>1. ASSUME RunInv, FilesInv
      PROVE  \A p \in Path : RunChanges(p) /\ disk[p] = seen => disk[p] \in Owned(records, p) \cup {Absent}
  <2>1. seen \in Artifact \cup {Absent}
    BY <1>1 DEF RunInv, TypeInv, TypeOK, MemoryOK
  <2> QED
    BY <1>1, <2>1 DEF FilesInv, Known, Owned
<1>2. RunInv /\ FilesInv /\ [Next]_vars => (RunInv /\ FilesInv)'
  BY StepRun, StepFiles
<1>3. Init => RunInv /\ FilesInv
  BY InitRun, InitFiles
<1>4. RunInv /\ FilesInv =>
        [\A p \in Path : RunChanges(p) /\ disk[p] = seen => disk[p] \in Owned(records, p) \cup {Absent}]_vars
  BY <1>1
<1> QED
  BY <1>2, <1>3, <1>4, PTL DEF Spec, OnlyOwnedBytesGo

(* Before the rename: what the candidate overwrites is covered by the plan,  *)
(* and each release of it the user left alone is in the new file or in one   *)
(* that is already there.                                                   *)
LEMMA Replacing ==
  ASSUME RunInv, FilesInv, WantedInv, ChaptersKeepNames, pc = "install",
         disk[PathOf[cur]] \in Artifact, disk[PathOf[cur]] # cur
  PROVE  /\ pending = {cands}
         /\ disk[PathOf[cur]] \notin cands
         /\ Covers[disk[PathOf[cur]]] \subseteq CoveredBy(cands)
         /\ \A r \in Covers[disk[PathOf[cur]]] \ damaged :
               \/ r \in Covers[cur]
               \/ \E d \in cands : PathOf[d] # PathOf[cur] /\ r \in Covers[d] /\ disk[PathOf[d]] = d
<1> DEFINE x == disk[PathOf[cur]]
<1>1. /\ cur \in cands /\ cands \subseteq Artifact /\ delivered \subseteq cands /\ Distinct(cands)
      /\ Carried /\ records[cur] = "publishing" /\ Dependencies(cands, snap, cur) \subseteq delivered
  BY DEF RunInv, TypeInv, TypeOK, MemoryOK, InHand, Delivering, LedgerInv, PathsDistinct, TransitionInv,
         Advanced, Executing
<1>2. PathOf[x] = PathOf[cur] /\ snap[x] \in {"published", "publishing"}
  BY DeliveryAssumption DEF FilesInv, Verified, Owned
<1>3. x \notin cands
  BY <1>1, <1>2 DEF Distinct
<1>4. x \in Published(snap)
  BY <1>1, <1>2, <1>3 DEF Carried, Published
<1>5. pending = {cands}
  BY <1>1 DEF RunInv, LedgerInv, PlanSaved, Executing, Carried, Published
<1>6. CASE x \in Volume
  <2>1. x \in ReplacedVolumes(snap, cur)
    BY <1>1, <1>2, <1>4, <1>6 DEF ReplacedVolumes
  <2>2. Covers[x] \subseteq CoveredBy(cands)
    BY <1>1, <2>1 DEF Carried, Uncovering
  <2>3. ASSUME NEW r \in Covers[x] \ damaged, r \notin Covers[cur]
        PROVE  \E d \in cands : PathOf[d] # PathOf[cur] /\ r \in Covers[d] /\ disk[PathOf[d]] = d
    <3>1. PICK d \in cands : r \in Covers[d]
      BY <2>2 DEF CoveredBy
    <3>2. d # cur /\ d \in delivered
      BY <1>1, <2>1, <2>3, <3>1 DEF Dependencies
    <3>3. InHold(d)
      BY <3>2 DEF FilesInv, There, Executing
    <3> QED
      BY <1>1, <2>3, <3>1, <3>2, <3>3 DEF InHold, Distinct
  <2> QED
    BY <1>3, <1>5, <2>2, <2>3
<1>7. CASE x \notin Volume
  <2>1. records[x] \in {"published", "publishing"}
    BY CatalogAssumption, <1>1 DEF FilesInv, Known
  <2>2. x \in Wanted /\ cur \in Wanted
    BY <1>1, <2>1 DEF WantedInv
  <2>3. Covers[x] \subseteq Covers[cur]
    BY <1>2, <1>7, <2>2 DEF ChaptersKeepNames
  <2> QED
    BY <1>1, <1>3, <1>5, <2>3 DEF CoveredBy
<1> QED
  BY <1>6, <1>7

(* Before the removal: everything the file carries is in a file elsewhere.   *)
LEMMA Removing ==
  ASSUME RunInv, FilesInv, pc = "remove", disk[PathOf[cur]] \in Artifact
  PROVE  /\ pending = {cands}
         /\ disk[PathOf[cur]] \notin cands
         /\ Covers[disk[PathOf[cur]]] \subseteq CoveredBy(cands)
         /\ \A r \in Covers[disk[PathOf[cur]]] \ damaged :
               \E d \in cands : PathOf[d] # PathOf[cur] /\ r \in Covers[d] /\ disk[PathOf[d]] = d
<1> DEFINE x == disk[PathOf[cur]]
<1>1. /\ cands \subseteq delivered /\ Carried /\ cur \in retiring /\ ~InPlace(cur)
  BY DEF RunInv, TransitionInv, Advanced, Executing, AfterDelivery, Retiring
<1>2. x \in RetirementOwned(snap, cur)
  BY DeliveryAssumption DEF FilesInv, Verified
<1>3. PathOf[x] = PathOf[cur] /\ Covers[x] = Covers[cur]
  BY <1>2 DEF RetirementOwned
<1>4. Covers[cur] \subseteq CoveredBy(cands)
  BY <1>1 DEF Carried, Retirable
<1>5. x \notin cands
  BY <1>1, <1>3 DEF InPlace
<1>6. pending = {cands}
  BY <1>1 DEF RunInv, LedgerInv, PlanSaved, Executing, Carried
<1>7. ASSUME NEW r \in Covers[x] \ damaged
      PROVE  \E d \in cands : PathOf[d] # PathOf[cur] /\ r \in Covers[d] /\ disk[PathOf[d]] = d
  <2>1. PICK d \in cands : r \in Covers[d]
    BY <1>3, <1>4, <1>7 DEF CoveredBy
  <2>2. InHold(d)
    BY <1>1, <2>1 DEF FilesInv, There, Executing
  <2> QED
    BY <1>1, <1>7, <2>1, <2>2 DEF InHold, InPlace
<1> QED
  BY <1>3, <1>4, <1>5, <1>6, <1>7

(* No step takes the last copy of a release.                                 *)
LEMMA ReadableKept ==
  ASSUME RunInv, FilesInv, WantedInv, ChaptersKeepNames, [Next]_vars,
         NEW r \in Release \ damaged', Readable(r)
  PROVE  Readable(r)'
<1>1. disk \in [Path -> Bytes] /\ PathOf \in [Artifact -> Path]
  BY CatalogAssumption DEF RunInv, TypeInv, TypeOK
<1>2. PICK p \in Path : disk[p] \in Artifact /\ r \in Covers[disk[p]]
  BY DEF Readable
<1>3. r \notin damaged
  BY DamagedGrows
<1>4. CASE disk' = disk
  BY <1>4 DEF Readable
<1>5. CASE Edit
  BY <1>1, <1>2, <1>5, Harmless DEF Readable
<1>6. CASE Install \/ InstallUnsynced
  <2>1. pc = "install" /\ disk' = [disk EXCEPT ![PathOf[cur]] = cur]
    BY <1>6 DEF Install, InstallUnsynced
  <2>2. cur \in Artifact
    BY <2>1 DEF RunInv, TypeInv, TypeOK, MemoryOK, InHand, Delivering
  <2>3. CASE p # PathOf[cur]
    BY <1>1, <1>2, <2>1, <2>3 DEF Readable
  <2>4. CASE p = PathOf[cur] /\ r \in Covers[cur]
    BY <1>1, <2>1, <2>2, <2>4 DEF Readable
  <2>5. CASE p = PathOf[cur] /\ r \notin Covers[cur]
    <3>1. PICK d \in cands : PathOf[d] # PathOf[cur] /\ r \in Covers[d] /\ disk[PathOf[d]] = d
      BY <1>2, <1>3, <2>1, <2>5, Replacing
    <3>2. d \in Artifact
      BY DEF RunInv, TypeInv, TypeOK, MemoryOK
    <3> QED
      BY <1>1, <2>1, <3>1, <3>2 DEF Readable
  <2> QED
    BY <2>3, <2>4, <2>5
<1>7. CASE Remove
  <2>1. pc = "remove" /\ disk' = [disk EXCEPT ![PathOf[cur]] = Absent]
    BY <1>7 DEF Remove
  <2>2. CASE p # PathOf[cur]
    BY <1>1, <1>2, <2>1, <2>2 DEF Readable
  <2>3. CASE p = PathOf[cur]
    <3>1. PICK d \in cands : PathOf[d] # PathOf[cur] /\ r \in Covers[d] /\ disk[PathOf[d]] = d
      BY <1>2, <1>3, <2>1, <2>3, Removing
    <3>2. d \in Artifact
      BY DEF RunInv, TypeInv, TypeOK, MemoryOK
    <3> QED
      BY <1>1, <2>1, <3>1, <3>2 DEF Readable
  <2> QED
    BY <2>2, <2>3
<1> QED
  BY <1>4, <1>5, <1>6, <1>7, Changes

(* What holds whatever the names of the files.                               *)
DeliveryInv == RunInv /\ FilesInv /\ WantedInv

LEMMA InitDelivery == Init => DeliveryInv
BY InitRun, InitFiles, InitWanted DEF DeliveryInv

LEMMA StepDelivery == DeliveryInv /\ [Next]_vars => DeliveryInv'
BY StepRun, StepFiles, StepWanted DEF DeliveryInv

(***************************************************************************)
(* Neither a replacement nor a retirement takes the last readable copy of a *)
(* release, whatever fails or is interrupted, and whatever the libraries,  *)
(* provided that no chapter's file name goes to an edition that lacks the  *)
(* chapter.  Of volumes nothing is assumed: the plan covers what it        *)
(* overwrites, and the new edition is installed after all it depends on.   *)
(* Of chapters the code has no such order (two that trade names overwrite  *)
(* each other), so the hypothesis cannot be dropped.                       *)
(***************************************************************************)
THEOREM ReleasesKept ==
  ASSUME ChaptersKeepNames
  PROVE  Spec => ReleasesStayReadable
<1>1. DeliveryInv /\ [Next]_vars => [\A r \in Release \ damaged' : Readable(r) => Readable(r)']_vars
  BY ReadableKept DEF DeliveryInv
<1> QED
  BY <1>1, InitDelivery, StepDelivery, PTL DEF Spec, ReleasesStayReadable

-----------------------------------------------------------------------------
(* The catalog and the directory.                                           *)

(* An empty plan replaces nothing.                                           *)
LEMMA NothingReplaced ==
  ASSUME NEW recs
  PROVE  Retirable({}, recs) = {} /\ ~Cyclic({}, recs)
BY CatalogAssumption DEF Retirable, CoveredBy, Published, Cyclic

(* What a step adds to the overwritten editions is what the plan replaces.   *)
LEMMA OverwrittenGrows ==
  ASSUME DeliveryInv, ChaptersKeepNames, [Next]_vars, NEW a \in Overwritten', a \notin Overwritten
  PROVE  /\ pc \in Executing /\ pc' \in Executing /\ pending = {cands} /\ UNCHANGED <<records, pending>>
         /\ a \in Retirable(cands, records)
<1> USE DEF DeliveryInv
<1>1. disk \in [Path -> Bytes] /\ PathOf \in [Artifact -> Path] /\ records \in Records
  BY CatalogAssumption DEF RunInv, TypeInv, TypeOK
<1>2. a \in Artifact /\ records'[a] = "published" /\ disk'[PathOf[a]] # a /\ Covers[a] \cap damaged' = {}
      /\ Covers[a] \cap damaged = {} /\ Covers[a] # {}
  BY DamagedGrows, CatalogAssumption DEF Overwritten, Published
<1>3. records[a] # "published" \/ disk[PathOf[a]] = a
  BY <1>2 DEF Overwritten, Published
<1>4. records[a] = "published"
  <2>1. CASE RecordPublished
    <3>1. pc = "record" /\ records' = [records EXCEPT ![cur] = "published"] /\ UNCHANGED disk
      BY <2>1 DEF RecordPublished, envVars
    <3>2. a = cur => disk[PathOf[a]] = a
      BY <1>2, <3>1 DEF FilesInv, There, InHold
    <3> QED
      BY <1>1, <1>2, <3>1, <3>2 DEF Records
  <2>2. CASE Supersede
    BY <1>1, <1>2, <2>2 DEF Supersede, Records
  <2>3. ASSUME NEW c \in Artifact, Offer(c) PROVE records[a] = "published"
    BY <1>1, <1>2, <2>3 DEF Offer, Records
  <2> QED
    BY <1>2, <2>1, <2>2, <2>3, Changes
<1>5. disk[PathOf[a]] = a
  BY <1>3, <1>4
<1>6. ~Edit
  BY <1>1, <1>2, <1>5, Harmless
<1>7. CASE Install \/ InstallUnsynced
  <2>1. /\ pc = "install" /\ pc' \in Executing /\ disk' = [disk EXCEPT ![PathOf[cur]] = cur]
        /\ UNCHANGED <<records, pending>>
    BY <1>7 DEF Install, InstallUnsynced, NextAfterFailure, Executing, catalogVars
  <2>2. PathOf[a] = PathOf[cur] /\ a # cur
    BY <1>1, <1>2, <1>5, <2>1
  <2>3. pending = {cands} /\ a \notin cands /\ Covers[a] \subseteq CoveredBy(cands)
    BY <1>2, <1>5, <2>1, <2>2, Replacing
  <2> QED
    BY <1>2, <1>4, <2>1, <2>3 DEF Retirable, Published, Executing
<1>8. CASE Remove
  <2>1. /\ pc = "remove" /\ pc' \in Executing /\ disk' = [disk EXCEPT ![PathOf[cur]] = Absent]
        /\ UNCHANGED <<records, pending>>
    BY <1>8 DEF Remove, Executing, catalogVars
  <2>2. PathOf[a] = PathOf[cur]
    BY <1>1, <1>2, <1>5, <2>1
  <2>3. pending = {cands} /\ a \notin cands /\ Covers[a] \subseteq CoveredBy(cands)
    BY <1>2, <1>5, <2>1, <2>2, Removing
  <2> QED
    BY <1>2, <1>4, <2>1, <2>3 DEF Retirable, Published, Executing
<1> QED
  BY <1>2, <1>5, <1>6, <1>7, <1>8, Changes

(* While something is overwritten, the plan that replaces it stays saved.    *)
LEMMA OverwrittenPending ==
  ASSUME RunInv, BelievableInv, [Next]_vars, Overwritten # {}
  PROVE  pending' = pending
<1>1. SavedPlan # {} /\ ~Cyclic(SavedPlan, records) /\ Retirable(SavedPlan, records) # {}
  BY NothingReplaced DEF BelievableInv
<1>2. ~DropCyclic
  BY <1>1 DEF DropCyclic, RunInv, LedgerInv, SnapFresh
<1>3. ~Save
  BY <1>1, OneSavedPlan DEF Save, RunInv, LedgerInv, PlanSaved
<1>4. ~Complete /\ ~CompleteOlder
  <2> SUFFICES ASSUME pc = "complete" PROVE FALSE
    BY DEF Complete, CompleteOlder
  <2>1. Carried /\ ~failed /\ retiring = {}
    BY DEF RunInv, TransitionInv, Advanced, Executing
  <2>2. Retirable(cands, records) = {}
    BY <2>1 DEF Carried
  <2>3. SavedPlan = cands
    BY <1>1, OneSavedPlan DEF RunInv, LedgerInv, PlanSaved, Executing
  <2> QED
    BY <1>1, <2>2, <2>3
<1> QED
  BY <1>2, <1>3, <1>4, Changes

(* The catalog stays believable whatever the step.                           *)
LEMMA StepBelievable ==
  ASSUME DeliveryInv, ChaptersKeepNames, BelievableInv, [Next]_vars
  PROVE  BelievableInv'
<1> USE DEF DeliveryInv
<1>1. records \in Records /\ RunInv'
  BY StepDelivery DEF RunInv, TypeInv, TypeOK
<1>2. ASSUME NEW a \in Overwritten', a \in Overwritten
      PROVE  a \in Retirable(SavedPlan, records)' /\ ~Cyclic(SavedPlan, records)'
  <2>1. pending' = pending
    BY <1>2, OverwrittenPending
  <2>2. a \in Retirable(SavedPlan, records) /\ ~Cyclic(SavedPlan, records)
    BY <1>2 DEF BelievableInv
  <2>3. a \in Retirable(SavedPlan, records)'
    BY <2>1, <2>2, <1>2 DEF Retirable, SavedPlan, Overwritten
  <2>4. CASE pc' \in Executing
    <3>1. pending' # {} /\ SavedPlan' = SavedPlan
      BY <2>1, <2>2, OneSavedPlan, NothingReplaced DEF SavedPlan
    <3>2. pending = {cands'}
      BY <1>1, <2>1, <2>4, <3>1 DEF RunInv, LedgerInv, PlanSaved
    <3>3. SavedPlan = cands'
      BY <3>2, OneSavedPlan
    <3>4. ~Cyclic(cands', records')
      BY <1>1, <2>4 DEF RunInv, LedgerInv, Orderly
    <3> QED
      BY <2>3, <3>1, <3>3, <3>4
  <2>5. CASE pc' \notin Executing
    <3>1. records' = records
      BY <2>5, Changes DEF RecordPublished, Supersede, Offer, Executing
    <3> QED
      BY <2>1, <2>2, <2>3, <3>1 DEF SavedPlan
  <2> QED
    BY <2>3, <2>4, <2>5
<1>3. ASSUME NEW a \in Overwritten', a \notin Overwritten
      PROVE  a \in Retirable(SavedPlan, records)' /\ ~Cyclic(SavedPlan, records)'
  <2>1. /\ pc \in Executing /\ pending = {cands} /\ UNCHANGED <<records, pending>>
        /\ a \in Retirable(cands, records)
    BY <1>3, OverwrittenGrows
  <2>2. SavedPlan = cands /\ SavedPlan' = cands
    BY <2>1, OneSavedPlan DEF SavedPlan
  <2> QED
    BY <2>1, <2>2 DEF RunInv, LedgerInv, Orderly
<1>4. ASSUME NEW a \in Published(records)', NEW r \in Covers[a] \ damaged' PROVE Readable(r)'
  <2>1. a \in Artifact /\ records'[a] = "published" /\ r \in Release
    BY CatalogAssumption DEF Published
  <2>2. r \notin damaged
    BY DamagedGrows
  <2>3. CASE records[a] = "published"
    <3>1. Readable(r)
      BY <2>1, <2>2, <2>3 DEF BelievableInv, Published
    <3> QED
      BY <1>4, <2>1, <3>1, ReadableKept
  <2>4. CASE records[a] # "published"
    <3>1. RecordPublished /\ a = cur
      BY <1>1, <2>1, <2>4, Changes DEF RecordPublished, Supersede, Offer, Records
    <3>2. pc = "record" /\ disk' = disk
      BY <3>1 DEF RecordPublished, envVars
    <3>3. disk[PathOf[a]] = a
      BY <1>4, <2>2, <3>1, <3>2 DEF FilesInv, There, InHold
    <3> QED
      BY <1>4, <2>1, <3>2, <3>3, CatalogAssumption DEF Readable
  <2> QED
    BY <2>3, <2>4
<1>5. Overwritten' \subseteq Retirable(SavedPlan, records)'
  BY <1>2, <1>3
<1>6. Overwritten' # {} => ~Cyclic(SavedPlan, records)'
  BY <1>2, <1>3
<1> QED
  BY <1>4, <1>5, <1>6 DEF BelievableInv

(* An earlier delivery is listed and in place.                               *)
LEMMA InitBelievable == Init => BelievableInv
<1> SUFFICES ASSUME Init PROVE BelievableInv
  OBVIOUS
<1>1. PICK L \in Delivered0 :
        /\ records = [a \in Artifact |-> IF a \in L THEN "published" ELSE "none"]
        /\ disk = [p \in Path |-> IF \E a \in L : PathOf[a] = p
                                   THEN CHOOSE a \in L : PathOf[a] = p
                                   ELSE Absent]
  BY DEF Init
<1>2. L \subseteq Artifact /\ \A a, b \in L : PathOf[a] = PathOf[b] => a = b
  BY CatalogAssumption, DeliveryAssumption, LibraryAssumption
<1>3. ASSUME NEW a \in Published(records) PROVE a \in Artifact /\ disk[PathOf[a]] = a
  <2>1. a \in L /\ PathOf[a] \in Path
    BY <1>1, <1>2, <1>3, CatalogAssumption DEF Published
  <2>2. disk[PathOf[a]] = CHOOSE b \in L : PathOf[b] = PathOf[a]
    BY <1>1, <2>1
  <2> QED
    BY <1>2, <2>1, <2>2
<1> QED
  BY <1>3, CatalogAssumption DEF BelievableInv, Overwritten, Readable

(* Between runs the invariant says what a reader of the catalog relies on.   *)
LEMMA Believable ==
  ASSUME RunInv, FilesInv, BelievableInv
  PROVE  CatalogBelievable
<1>1. PublishedStaysReadable
  BY DEF BelievableInv, PublishedStaysReadable
<1>2. ASSUME ~Resuming, NEW a \in Artifact
      PROVE  /\ records[a] = "published" => disk[PathOf[a]] = a \/ Covers[a] \cap damaged # {}
             /\ disk[PathOf[a]] = a => records[a] = "published"
  <2>1. SavedPlan = {}
    BY <1>2, OneSavedPlan DEF Resuming
  <2>2. Overwritten = {}
    BY <2>1, NothingReplaced DEF BelievableInv
  <2>3. records[a] # "publishing"
    BY <2>1 DEF RunInv, LedgerInv, LedgerInPlan
  <2>4. PathOf[a] \in Path
    BY CatalogAssumption
  <2> QED
    BY <2>2, <2>3, <2>4 DEF Overwritten, Published, FilesInv, Known
<1> QED
  BY <1>1, <1>2 DEF CatalogBelievable, CatalogMatchesDisk

(***************************************************************************)
(* Between runs what the catalog lists as published can be read, and, once *)
(* nothing is pending, is where the catalog says, with no other edition in *)
(* the directory, under the same hypothesis on the names of chapters.  An  *)
(* edition overwritten by an interrupted plan stays listed only while that *)
(* plan is saved and can still retire it.                                  *)
(***************************************************************************)
THEOREM CatalogIsBelievable ==
  ASSUME ChaptersKeepNames
  PROVE  Spec => []CatalogBelievable
<1>1. Init => DeliveryInv /\ BelievableInv
  BY InitDelivery, InitBelievable
<1>2. DeliveryInv /\ BelievableInv /\ [Next]_vars => (DeliveryInv /\ BelievableInv)'
  BY StepDelivery, StepBelievable
<1>3. DeliveryInv /\ BelievableInv => CatalogBelievable
  BY Believable DEF DeliveryInv
<1> QED
  BY <1>1, <1>2, <1>3, PTL DEF Spec

-----------------------------------------------------------------------------
(* What a run reports, and what it may touch.                               *)

(* How a run comes to its end, to its plan, and to its rest.                 *)
LEMMA Phases ==
  ASSUME [Next]_vars
  PROVE  /\ pc' = "plan" =>
               \/ Start \/ CompleteOlder \/ (pc = "plan" /\ UNCHANGED planVars /\ pending' \in {pending, {}})
         /\ pc' = "finish" =>
               \/ failed' \/ Complete
               \/ pc = "finish" /\ UNCHANGED <<planVars, records, failed>>
         /\ pc' = "idle" => attempt' = 1 \/ (pc = "idle" /\ UNCHANGED planVars)
         /\ pc' = "idle" \/ Start \/ UNCHANGED <<scope, selected>>
<1>1. CASE Start \/ Plan \/ Complete \/ CompleteOlder \/ Finish \/ \E L \in Libraries : Sync(L)
  BY <1>1 DEF Start, Begin, Plan, RefuseScope, DropCyclic, RefuseOrder, GiveUp, MakePlan, Save, Prepare,
     Complete, CompleteOlder, Finish, Forget, Sync, planVars
<1>2. CASE Deliver
  BY <1>2 DEF Deliver, AwaitsReplacement, SkipBlocked, IdentityFails, SkipUnchanged, Offer, Offered, Taken,
     CopyRefused, CopyUnneeded, Stage, Install, RecordPublished, EndDeliveries, NextAfterFailure, planVars, loopVars
<1>3. CASE Retire
  BY <1>3 DEF Retire, RetireInPlace, RetireRefused, RetireGone, RetireVerified, Remove, RemoveVanished,
     Supersede, EndRetirements, RetirementFailed, planVars, loopVars
<1>4. CASE FaultStep
  BY <1>4 DEF FaultStep, SaveFails, PrepareFails, CopyFails, InstallUnsynced, RemoveFails, SupersedeFails,
     Crash, OfferFails, Offered, Taken, GiveUp, Forget, NextAfterFailure, RetirementFailed, planVars
<1>5. CASE Edit \/ UNCHANGED vars
  BY <1>5 DEF Edit, UserEdit, vars, planVars, loopVars, catalogVars
<1> QED
  BY <1>1, <1>2, <1>3, <1>4, <1>5 DEF Next, RunStep

(* A run reports success only after the plan it selected is all in place.    *)
LEMMA StepSuccess ==
  ASSUME RunInv, FilesInv, SuccessInv, [Next]_vars
  PROVE  SuccessInv'
<1>1. ASSUME attempt' = 2, pc' = "plan" PROVE pending' = {}
  <2>1. CASE Start
    BY <1>1, <2>1 DEF Start, Begin, SuccessInv
  <2>2. CASE CompleteOlder
    BY <2>2 DEF CompleteOlder, Completed, RunInv, LedgerInv, PlanSaved, Executing
  <2>3. CASE pc = "plan" /\ UNCHANGED planVars /\ pending' \in {pending, {}}
    BY <1>1, <2>3 DEF SuccessInv, planVars
  <2> QED
    BY <1>1, <2>1, <2>2, <2>3, Phases
<1>2. ASSUME attempt' = 2, pc' \in Busy PROVE cands' = selected'
  <2>1. CASE MakePlan
    BY <1>2, <2>1 DEF MakePlan, Planned, Resuming, SuccessInv
  <2>2. CASE pc \in Busy /\ UNCHANGED planVars
    BY <1>2, <2>2 DEF Busy, SuccessInv, planVars
  <2> QED
    BY <1>2, <2>1, <2>2, BusyStays
<1>3. pc' = "idle" => attempt' = 1
  BY Phases DEF SuccessInv, planVars
<1>4. ASSUME pc' = "finish", ~failed', NEW c \in selected' PROVE records'[c] = "published" /\ InHold(c)'
  <2>1. CASE Complete
    <3>1. /\ pc = "complete" /\ cands = selected /\ UNCHANGED <<records, disk, damaged, selected>>
      BY <2>1 DEF Complete, SuccessInv, Executing, envVars, planVars
    <3>2. c \in delivered /\ delivered \subseteq Published(records)
      BY <1>4, <3>1 DEF RunInv, TransitionInv, Advanced, AfterDelivery, Executing, Carried
    <3>3. InHold(c)
      BY <3>1, <3>2 DEF FilesInv, There, Executing
    <3> QED
      BY <3>1, <3>2, <3>3 DEF Published, InHold
  <2>2. CASE pc = "finish" /\ UNCHANGED <<planVars, records, failed>>
    <3>1. c \in Artifact /\ c \in selected /\ ~failed
      BY <1>4, <2>2 DEF RunInv, TypeInv, TypeOK, MemoryOK, planVars
    <3>2. records[c] = "published" /\ InHold(c)
      BY <2>2, <3>1 DEF SuccessInv
    <3> QED
      BY <2>2, <3>1, <3>2, HoldStays
  <2> QED
    BY <1>4, <2>1, <2>2, Phases
<1> QED
  BY <1>1, <1>2, <1>3, <1>4 DEF SuccessInv, Busy

(***************************************************************************)
(* A run that reports no failure has published its own selection, and each *)
(* file is in place unless the user took it, also when the run first had to *)
(* complete the plan of an earlier one.                                    *)
(***************************************************************************)
THEOREM SuccessIsDelivery == Spec => SuccessMeansDelivered
<1>1. Init => RunInv /\ FilesInv /\ SuccessInv
  BY InitRun, InitFiles DEF Init, SuccessInv, Executing
<1>2. RunInv /\ FilesInv /\ SuccessInv /\ [Next]_vars => (RunInv /\ FilesInv /\ SuccessInv)'
  BY StepRun, StepFiles, StepSuccess
<1>3. RunInv /\ FilesInv /\ SuccessInv =>
        [pc = "finish" /\ ~failed /\ faults' = faults /\ pc' = "idle" =>
           \A c \in selected :
             /\ records[c] = "published"
             /\ disk[PathOf[c]] = c \/ Covers[c] \cap damaged # {}]_vars
  BY CatalogAssumption DEF RunInv, TypeInv, TypeOK, MemoryOK, SuccessInv, InHold
<1> QED
  BY <1>1, <1>2, <1>3, PTL DEF Spec, SuccessMeansDelivered

(* A saved plan is resumed only by a run that has all of its sources.        *)
LEMMA StepScope ==
  ASSUME ScopeInv, [Next]_vars
  PROVE  ScopeInv'
<1>1. ASSUME pc' # "idle" PROVE \A c \in selected' : SourceOf[c] \in scope'
  <2>1. CASE Start
    BY <2>1 DEF Start, Begin, InScope
  <2>2. CASE UNCHANGED <<scope, selected>> /\ pc # "idle"
    BY <2>2 DEF ScopeInv
  <2>3. pc = "idle" => Start
    BY <1>1 DEF Next, RunStep, Plan, RefuseScope, DropCyclic, RefuseOrder, GiveUp, MakePlan, Save, Prepare,
     Complete, CompleteOlder, Finish, Forget, Sync, Deliver, AwaitsReplacement, SkipBlocked, IdentityFails,
     SkipUnchanged, Offer, Offered, Taken, CopyRefused, CopyUnneeded, Stage, Install, RecordPublished,
     EndDeliveries, Retire, RetireInPlace, RetireRefused, RetireGone, RetireVerified, Remove, RemoveVanished,
     Supersede, EndRetirements, FaultStep, SaveFails, PrepareFails, CopyFails, InstallUnsynced, RemoveFails,
     SupersedeFails, Crash, OfferFails, Edit, UserEdit, vars
  <2> QED
    BY <1>1, <2>1, <2>2, <2>3, Phases
<1>2. ASSUME pc' \in Busy PROVE \A c \in cands' : SourceOf[c] \in scope'
  <2>1. CASE MakePlan
    <3>1. pc = "plan" /\ cands' = Planned /\ scope' = scope /\ ~PendingOutOfScope
      BY <2>1 DEF MakePlan
    <3>2. \A c \in selected : SourceOf[c] \in scope
      BY <3>1 DEF ScopeInv
    <3>3. Resuming => \A c \in SavedPlan : SourceOf[c] \in scope
      BY <3>1 DEF PendingOutOfScope, InScope
    <3> QED
      BY <3>1, <3>2, <3>3 DEF Planned
  <2>2. CASE pc \in Busy /\ UNCHANGED planVars
    BY <2>2 DEF Busy, ScopeInv, planVars
  <2> QED
    BY <1>2, <2>1, <2>2, BusyStays
<1> QED
  BY <1>1, <1>2 DEF ScopeInv, Busy

(* Each record and file a run touches is of a candidate or of what one replaces. *)
LEMMA ScopeKept ==
  ASSUME DeliveryInv, SourcesApart, ScopeInv, [Next]_vars, NEW a \in Artifact,
         pc # "idle", pc' # pc, SourceOf[a] \notin scope
  PROVE  /\ records'[a] = records[a]
         /\ disk[PathOf[a]] = a => disk'[PathOf[a]] = a
<1> USE DEF DeliveryInv
<1>1. /\ disk \in [Path -> Bytes] /\ PathOf \in [Artifact -> Path] /\ records \in Records
      /\ cands \subseteq Artifact /\ todo \subseteq cands
  BY CatalogAssumption DEF RunInv, TypeInv, TypeOK, MemoryOK
<1>2. pc \in Busy => \A c \in cands : SourceOf[c] \in scope
  BY DEF ScopeInv, Busy
(* What is retired shares a release with a candidate, and so its source.     *)
<1>3. ASSUME pc \in Retiring PROVE cur \in Wanted /\ SourceOf[cur] \in scope
  <2>1. cur \in Artifact /\ records[cur] = "published" /\ Covers[cur] \subseteq CoveredBy(cands)
    BY <1>3 DEF Retiring, RunInv, TransitionInv, Advanced, Executing, Carried, Retirable, Published
  <2>2. PICK d \in cands : Covers[cur] \cap Covers[d] # {}
    BY <2>1, CatalogAssumption DEF CoveredBy
  <2>3. cur \in Wanted /\ d \in Wanted /\ SourceOf[d] \in scope
    BY <1>2, <1>3, <2>1, <2>2 DEF WantedInv, Retiring, Busy, Executing
  <2> QED
    BY <2>2, <2>3 DEF SourcesApart
<1>4. pc \in Delivering => cur \in cands /\ cur \in Wanted /\ SourceOf[cur] \in scope
  BY <1>2 DEF RunInv, TypeInv, InHand, Delivering, Busy, Executing, WantedInv
<1>5. records'[a] = records[a]
  <2>1. CASE RecordPublished
    <3>1. pc \in Delivering /\ records' = [records EXCEPT ![cur] = "published"]
      BY <2>1 DEF RecordPublished, Delivering
    <3> QED
      BY <1>1, <1>4, <3>1 DEF Records
  <2>2. CASE Supersede
    <3>1. pc \in Retiring /\ records' = [records EXCEPT ![cur] = "superseded"]
      BY <2>2 DEF Supersede, Retiring
    <3> QED
      BY <1>1, <1>3, <3>1 DEF Records
  <2>3. ASSUME NEW c \in Artifact, Offer(c) PROVE records'[a] = records[a]
    <3>1. pc = "deliver" /\ c \in cands /\ records' = [records EXCEPT ![c] = "publishing"]
      BY <1>1, <2>3 DEF Offer, Offered, Taken
    <3> QED
      BY <1>1, <1>2, <3>1 DEF Records, Busy, Executing
  <2> QED
    BY <2>1, <2>2, <2>3, Changes
<1>6. ASSUME disk[PathOf[a]] = a, disk'[PathOf[a]] # a PROVE FALSE
  <2>1. a \in Wanted
    <3>1. records[a] \in {"published", "publishing"}
      BY <1>1, <1>6 DEF FilesInv, Known
    <3> QED
      BY <3>1 DEF WantedInv
  <2>2. ~Edit
    BY Changes
  <2>3. pc \in Delivering \cup Retiring /\ PathOf[a] = PathOf[cur]
    <3>1. CASE Install \/ InstallUnsynced
      BY <1>1, <1>6, <3>1 DEF Install, InstallUnsynced, Delivering
    <3>2. CASE Remove
      BY <1>1, <1>6, <3>2 DEF Remove, Retiring
    <3> QED
      BY <1>6, <2>2, <3>1, <3>2, Changes
  <2> QED
    BY <1>3, <1>4, <2>1, <2>3 DEF SourcesApart
<1> QED
  BY <1>5, <1>6

(***************************************************************************)
(* A run restricted to some sources changes no record and no file of the   *)
(* others, even when another run left a plan for them, as long as sources  *)
(* share neither paths nor releases.                                       *)
(***************************************************************************)
THEOREM ScopeIsRespected ==
  ASSUME SourcesApart
  PROVE  Spec => ScopeRespected
<1>1. Init => DeliveryInv /\ ScopeInv
  BY InitDelivery DEF Init, ScopeInv, Executing
<1>2. DeliveryInv /\ ScopeInv /\ [Next]_vars => (DeliveryInv /\ ScopeInv)'
  BY StepDelivery, StepScope
<1>3. DeliveryInv /\ ScopeInv /\ [Next]_vars =>
        [\A a \in Artifact : pc # "idle" /\ pc' # pc /\ SourceOf[a] \notin scope =>
            /\ records'[a] = records[a]
            /\ disk[PathOf[a]] = a => disk'[PathOf[a]] = a]_vars
  BY ScopeKept
<1> QED
  BY <1>1, <1>2, <1>3, PTL DEF Spec, ScopeRespected
=============================================================================
