---------------------------- MODULE VolumesProofs ----------------------------
(***************************************************************************)
(* Theorems about Volumes, for every library, configuration and bound.     *)
(***************************************************************************)
EXTENDS Volumes, WellFoundedInduction, TLAPS

Archived == [series : Series, text : Text, slot : Slot, legacy : BOOLEAN]

(* What the planner reads.                                                  *)
CatalogOK ==
    /\ config \in Configs
    /\ stored \in [Release -> Archived \cup {None}]
    /\ scope \subseteq Source

(* Natural numbers have a least one.                                        *)
LEMMA Least ==
  ASSUME NEW R, R # {}, NEW f \in [R -> Nat]
  PROVE  \E r \in R : \A q \in R : f[r] <= f[q]
<1> DEFINE N == {f[r] : r \in R}
           Less == {ss \in Nat \X Nat : ss[1] < ss[2]}
<1>1. N \subseteq Nat /\ N # {}
  OBVIOUS
<1>2. IsWellFoundedOn(Less, Nat)
  BY NatLessThanWellFounded, Zenon DEF OpToRel
<1>3. \A m, n \in Nat : m < n => <<m, n>> \in Less
  OBVIOUS
<1> HIDE DEF N, Less
<1>4. PICK n \in N : \A m \in N : ~ (<<m, n>> \in Less)
  BY <1>1, <1>2, WFMin
<1>5. ASSUME NEW m \in N PROVE n <= m
  <2>1. m \in Nat /\ n \in Nat /\ ~ (m < n)
    BY <1>1, <1>3, <1>4
  <2> QED
    BY <2>1
<1> QED
  BY <1>5 DEF N

(* What configuration gives.                                                *)
LEMMA Configured ==
  ASSUME CatalogOK
  PROVE  /\ config.slot \in [Release -> Slot]
         /\ \A s \in Series : config.output[s] \in Output
         /\ \A r \in Stored : stored[r] \in Archived /\ r \in Release /\ stored[r].slot \in Slot
                              /\ stored[r].text \in Text
BY VolumesAssumption DEF CatalogOK, Stored, Archived

(* A stored release has a place in its series.                              *)
LEMMA SequenceTypes ==
  ASSUME CatalogOK, NEW r \in Stored
  PROVE  /\ Sequence(r).book \in Book \cup {None}
         /\ Sequence(r).chapter \in Nat /\ Sequence(r).position \in Nat
BY Configured DEF Sequence, Slot

(* The chapters before a range are a number.                               *)
LEMMA RangeTypes ==
  ASSUME NEW n \in Nat \ {0}, NEW k \in Nat \ {0}
  PROVE  ((n - 1) \div k) * k \in Nat
<1>1. (n - 1) \div k \in Nat
  OBVIOUS
<1>2. \A a, b \in Nat : a * b \in Nat
  OBVIOUS
<1> QED
  BY <1>1, <1>2

(* A group is one, has members, all of them stored, and a range.            *)
LEMMA GroupTypes ==
  ASSUME CatalogOK, NEW s \in Series, NEW g \in Groups(s)
  PROVE  /\ g \in Group
         /\ MembersOf(s, g) # {} /\ MembersOf(s, g) \subseteq Stored /\ MembersOf(s, g) \subseteq Release
         /\ BoundsOf(s, g) \in Bounds
<1>1. PICK r \in Grouped(s) : g = GroupOf(s, r)
  BY DEF Groups
<1>2. Grouped(s) \subseteq Stored /\ Stored \subseteq Release
  BY DEF Grouped, Chapters, Candidates, Stored
<1>3. Sequence(r).book \in Book \cup {None} /\ Sequence(r).chapter \in Nat \ {0}
  BY <1>1, <1>2, SequenceTypes DEF Grouped
<1>4. config.output[s].size \in Nat \ {0} /\ config.output[s].final \in Nat /\ config.output[s].gaps \in SUBSET Nat
      /\ config.output[s].books \in [Book -> Bounds]
  BY Configured DEF Output
<1>5. FirstOf(s, Sequence(r).chapter) \in Nat
  BY <1>3, <1>4, RangeTypes DEF FirstOf
<1>6. LastOf(s, Sequence(r).chapter) \in Nat
  BY <1>4, <1>5 DEF LastOf
<1>7. g \in Group
  BY <1>1, <1>3, <1>5, <1>6 DEF GroupOf, Group
<1>8. BoundsOf(s, g) \in Bounds
  BY <1>4, <1>7 DEF BoundsOf, Bounds, Group
<1> QED
  BY <1>1, <1>2, <1>7, <1>8 DEF MembersOf

(* An edition is of the series and group it is made for, has the members of *)
(* the group, and belongs to the source of one of them.                     *)
LEMMA EditionTypes ==
  ASSUME CatalogOK, NEW s \in Series, NEW g \in Groups(s)
  PROVE  /\ IsEdition(EditionOf(s, g))
         /\ EditionOf(s, g).series = s /\ EditionOf(s, g).group = g
         /\ DOMAIN EditionOf(s, g).members = MembersOf(s, g)
         /\ EditionOf(s, g).source \in SourcesOf(EditionOf(s, g))
<1> DEFINE R == MembersOf(s, g)
           b == BoundsOf(s, g)
           e == EditionOf(s, g)
           number == [r \in R |-> Sequence(r).chapter]
<1>1. g \in Group /\ R # {} /\ R \subseteq Stored /\ R \subseteq Release /\ b \in Bounds
  BY GroupTypes
<1>2. Lowest(number) \in R
  <2>1. number \in [R -> Nat]
    BY <1>1, SequenceTypes
  <2>2. \E r \in R : \A q \in R : number[r] <= number[q]
    BY <1>1, <2>1, Least
  <2> QED
    BY <2>2 DEF Lowest
<1>3. e.series = s /\ e.group = g /\ e.source = SourceOf[Lowest(number)] /\ DOMAIN e.members = R
      /\ e.title = config.output[s].title /\ e.bounds.first = b.first
  BY DEF EditionOf
<1>4. e.source \in SourcesOf(e) /\ e.source \in Source
  <2>1. PICK low \in R : e.source = SourceOf[low]
    BY <1>2, <1>3
  <2> HIDE DEF e, R
  <2> QED
    BY <1>1, <1>3, <2>1, VolumesAssumption DEF SourcesOf
<1>5. e.bounds \in Bounds
  BY <1>1 DEF EditionOf, Bounds
<1>6. e.title \in Text
  BY <1>3, Configured DEF Output
<1>7. e.members \in [R -> Member]
  <2>1. ASSUME NEW r \in R
        PROVE  stored[r].text \in Text /\ Sequence(r).chapter \in Nat /\ Sequence(r).position \in Nat
    BY <1>1, SequenceTypes, Configured
  <2> QED
    BY <2>1 DEF EditionOf, Member
<1> QED
  BY <1>1, <1>3, <1>4, <1>5, <1>6, <1>7 DEF IsEdition

-----------------------------------------------------------------------------
(* Every variable keeps its type.                                           *)

(* What a plan makes and retires are editions.                              *)
LEMMA PlanTypes ==
  ASSUME TypeOK, NEW s \in Series
  PROVE  \A e \in PlanFor(s).new \cup PlanFor(s).gone : IsEdition(e)
<1>1. CatalogOK /\ \A e \in active : IsEdition(e)
  BY DEF TypeOK, CatalogOK, Archived
<1>2. NoPlan.new = {} /\ NoPlan.gone = {} /\ Refusal.new = {} /\ Refusal.gone = {}
  BY DEF NoPlan, Refusal
<1>3. \A e \in Unbundle(s).new \cup Unbundle(s).gone : IsEdition(e)
  <2>1. CASE kind = "sync"
    BY <1>2, <2>1 DEF Unbundle
  <2>2. CASE kind # "sync"
    BY <1>1, <2>2 DEF Unbundle, EditionsOf
  <2> QED
    BY <2>1, <2>2
<1>4. \A e \in Bundle(s).new \cup Bundle(s).gone : IsEdition(e)
  <2>1. \A e \in Bundle(s).new : \E g \in Groups(s) : e = EditionOf(s, g)
    BY DEF Bundle
  <2>2. Bundle(s).gone \subseteq active
    BY DEF Bundle, EditionsOf
  <2> QED
    BY <1>1, <2>1, <2>2, EditionTypes
<1> QED
  BY <1>2, <1>3, <1>4 DEF PlanFor

(* A rendering is what the catalog stores.                                  *)
LEMMA RenderedTypes ==
  ASSUME TypeOK, NEW r \in Release, NEW t \in Text
  PROVE  Rendered(r, t) \in Archived
<1>1. config.slot[r] \in Slot
  BY Configured DEF TypeOK, CatalogOK, Archived
<1>2. config.slot[r].series \in Series
  BY <1>1 DEF Slot
<1> QED
  BY <1>1, <1>2 DEF Rendered, Archived

(* Every step keeps the types.                                              *)
LEMMA StepTypes == TypeOK /\ [Next]_vars => TypeOK'
<1> SUFFICES ASSUME TypeOK, [Next]_vars PROVE TypeOK'
  OBVIOUS
<1> USE DEF catalogVars, diskVars, runVars
<1>0. /\ NoPlan.new = {} /\ NoPlan.gone = {}
      /\ stored \in [Release -> Archived \cup {None}] /\ None \notin Archived
  BY StoredAssumption DEF NoPlan, TypeOK, Archived
<1>1. ASSUME NEW sc \in Scopes, NEW listed \in SUBSET Release, Sync(sc, listed) PROVE TypeOK'
  <2>1. ASSUME NEW r \in Release PROVE stored'[r] \in Archived \cup {None}
    <3>1. CASE r \notin listed
      BY <1>0, <1>1, <3>1 DEF Sync
    <3>2. CASE r \in listed /\ r \in Stored /\ stored[r].legacy
      <4>1. stored'[r] = [stored[r] EXCEPT !.text = text[r]] /\ stored[r] \in Archived /\ text[r] \in Text
        BY <1>0, <1>1, <3>2 DEF Sync, Stored, TypeOK
      <4> QED
        BY <4>1 DEF Archived
    <3>3. CASE r \in listed /\ ~(r \in Stored /\ stored[r].legacy)
      <4>1. stored'[r] = Rendered(r, text[r]) /\ text[r] \in Text
        BY <1>1, <3>3 DEF Sync, TypeOK
      <4> QED
        BY <4>1, RenderedTypes
    <3> QED
      BY <3>1, <3>2, <3>3
  <2>2. stored' \in [Release -> Archived \cup {None}]
    BY <1>1, <2>1 DEF Sync
  <2>3. lost' \subseteq Stored'
    BY <1>1 DEF Sync, TypeOK, Stored
  <2>4. scope' \subseteq Source
    BY <1>1, VolumesAssumption DEF Sync
  <2> QED
    BY <1>0, <1>1, <2>2, <2>3, <2>4 DEF Sync, TypeOK, Archived
<1>2. ASSUME NEW sc \in Scopes, NEW fi \in Filters, NEW failing \in SUBSET Release, Rebuild(sc, fi, failing)
      PROVE  TypeOK'
  <2> DEFINE mine == {r \in Stored : /\ SourceOf[r] \in sc
                                     /\ {stored[r].series, config.slot[r].series} \cap fi # {}}
             done == mine \ (lost \cup failing)
  <2>1. /\ stored' = [r \in Release |-> IF r \in done THEN Rendered(r, stored[r].text) ELSE stored[r]]
        /\ blocked' = UNION {{stored[r].series, config.slot[r].series} : r \in mine \ done}
    BY <1>2 DEF Rebuild
  <2>2. \A r \in done : Rendered(r, stored[r].text) \in Archived
    BY RenderedTypes, Configured DEF TypeOK, CatalogOK, Archived
  <2>3. stored' \in [Release -> Archived \cup {None}] /\ Stored \subseteq Stored'
    BY <1>0, <2>1, <2>2 DEF Stored
  <2>4. blocked' \subseteq Series
    <3>1. \A r \in Stored : stored[r].series \in Series /\ config.slot[r].series \in Series
      BY Configured DEF TypeOK, CatalogOK, Archived, Slot
    <3> QED
      BY <2>1, <3>1
  <2>5. scope' \subseteq Source /\ filter' \subseteq Series /\ faults' \in 0..MaxFaults
    BY <1>2, VolumesAssumption DEF Rebuild, Fault, TypeOK
  <2> QED
    BY <1>0, <1>2, <2>3, <2>4, <2>5 DEF Rebuild, TypeOK, Archived
<1>3. ASSUME NEW s \in Series, SkipBlocked(s) \/ Refuse(s) \/ SkipUnchanged(s) PROVE TypeOK'
  BY <1>3 DEF SkipBlocked, Refuse, SkipUnchanged, Leaves, TypeOK, Stored
<1>4. ASSUME NEW s \in Series, Build(s) PROVE TypeOK'
  BY <1>4, PlanTypes DEF Build, Leaves, TypeOK, Stored
<1>5. ASSUME NEW s \in Series, BuildFails(s) PROVE TypeOK'
  BY <1>5, VolumesAssumption DEF BuildFails, Fault, Leaves, TypeOK, Stored
<1>6. CASE Store
  BY <1>0, <1>6 DEF Store, TypeOK, Stored
<1>7. CASE Finish \/ Crash
  <2>1. /\ Forget /\ UNCHANGED <<config, text, stored, active, lost, damaged, changes>>
        /\ quiet' \in BOOLEAN
    BY <1>7 DEF Finish, Crash, TypeOK
  <2>2. faults' \in 0..MaxFaults
    BY <1>7, VolumesAssumption DEF Finish, Crash, Fault, TypeOK
  <2> QED
    BY <1>0, <2>1, <2>2 DEF Forget, TypeOK, Stored
<1>8. CASE Reconfigure
  <2>1. /\ UNCHANGED <<text, stored, active, lost, damaged, runVars, faults>>
        /\ quiet' \in BOOLEAN /\ config' \in Configs
    BY <1>8 DEF Reconfigure, TypeOK
  <2>2. changes' \in 0..MaxChanges
    BY <1>8, VolumesAssumption DEF Reconfigure, Change, TypeOK
  <2> QED
    BY <2>1, <2>2 DEF TypeOK, Stored
<1>9. ASSUME NEW r \in Release, Correct(r) PROVE TypeOK'
  BY <1>9, VolumesAssumption DEF Correct, Change, TypeOK, Stored
<1>10. CASE Damage
  <2>1. /\ UNCHANGED <<config, text, stored, active, runVars, changes>>
        /\ quiet' \in BOOLEAN /\ lost' \subseteq Stored /\ damaged' \subseteq active \cup damaged
    BY <1>10 DEF Damage, TypeOK
  <2>2. faults' \in 0..MaxFaults
    BY <1>10, VolumesAssumption DEF Damage, Fault, TypeOK
  <2> QED
    BY <2>1, <2>2 DEF TypeOK, Stored
<1>11. CASE UNCHANGED vars
  BY <1>11 DEF vars, TypeOK, Stored
<1> QED
  BY <1>1, <1>2, <1>3, <1>4, <1>5, <1>6, <1>7, <1>8, <1>9, <1>10, <1>11 DEF Next, Start, RunStep

(* The types hold at first.                                                 *)
LEMMA InitTypes == Init => TypeOK
<1> SUFFICES ASSUME Init PROVE TypeOK
  OBVIOUS
<1>1. config.slot \in [Release -> Slot] /\ \A s \in Series : config.output[s].title \in Text
  BY VolumesAssumption DEF Init, Output
<1>2. ASSUME NEW r \in Release PROVE config.slot[r].series \in Series /\ text[r] \in Text
  <2>1. config.slot[r].series \in Series
    BY <1>1 DEF Slot
  <2>2. \E t \in Text : TRUE
    BY <1>1, <2>1
  <2> QED
    BY <2>1, <2>2 DEF Init
<1>3. stored \in [Release -> Archived \cup {None}]
  BY <1>1, <1>2 DEF Init, Archived
<1> QED
  <2>1. config \in Configs /\ text \in [Release -> Text]
    BY <1>2 DEF Init
  <2>2. lost \subseteq Stored /\ 0 \in 0..MaxChanges /\ 0 \in 0..MaxFaults
    BY VolumesAssumption DEF Init
  <2>3. \A e \in active \cup damaged \cup plan.new \cup plan.gone : IsEdition(e)
    BY DEF Init, NoPlan
  <2> QED
    BY <1>3, <2>1, <2>2, <2>3 DEF Init, TypeOK, Archived

(***************************************************************************)
(* Every variable keeps its type, whatever is stored, configured, damaged   *)
(* or interrupted; in particular each edition, planned or active, is one.   *)
(***************************************************************************)
THEOREM VolumesTypes == Spec => []TypeOK
BY InitTypes, StepTypes, PTL DEF Spec

-----------------------------------------------------------------------------
(* The archive of a series stays sound.                                     *)

Whole(e) ==
    /\ \A r, q \in DOMAIN e.members : e.members[r].chapter = e.members[q].chapter => r = q
    /\ (e.bounds.first..e.bounds.last) \ e.bounds.gaps \subseteq {e.members[r].chapter : r \in DOMAIN e.members}

Apart(e, f) == DOMAIN e.members \cap DOMAIN f.members = {}

SameGroup(e, f) == e.series = f.series /\ e.group = f.group

(* An edition is whole and listed under the source of one of its members.   *)
Proper(e) == Whole(e) /\ e.source \in SourcesOf(e)

(* What may take effect in one transaction: proper editions of one series,  *)
(* apart from each other and from all that stay beside them; in a normal    *)
(* run nothing goes and nothing is replaced.                                *)
Fits(p, s) ==
    /\ \A n \in p.new : n.series = s /\ Proper(n)
    /\ \A n, m \in p.new : n # m => Apart(n, m) /\ ~SameGroup(n, m)
    /\ \A e \in active \ p.gone : e.series = s =>
          \/ \E m \in p.new : SameGroup(m, e)
          \/ \A n \in p.new : Apart(n, e)
    /\ kind = "sync" => p.gone = {} /\ \A n \in p.new, e \in active : ~SameGroup(n, e)

(* Active editions are proper, one to a group, and disjoint within a series; *)
(* a plan about to take effect keeps them so.                               *)
ArchiveInv ==
    /\ \A e \in active : Proper(e)
    /\ \A e, f \in active : SameGroup(e, f) => e = f
    /\ SeriesVolumesDisjoint
    /\ pc # "idle" => kind # "none"
    /\ pc = "store" => Fits(plan, cur)

(* A complete group makes a whole edition.                                  *)
LEMMA CompleteIsWhole ==
  ASSUME CatalogOK, NEW s \in Series, NEW g \in Groups(s), Complete(s, g)
  PROVE  Proper(EditionOf(s, g))
<1> DEFINE R == MembersOf(s, g)
           b == BoundsOf(s, g)
           e == EditionOf(s, g)
<1>1. DOMAIN e.members = R /\ e.source \in SourcesOf(e)
  BY EditionTypes
<1>2. /\ \A r \in R : e.members[r].chapter = Sequence(r).chapter
      /\ e.bounds.first = b.first /\ e.bounds.last = b.last
      /\ e.bounds.gaps = {n \in b.gaps \cap (b.first..b.last) : \A r \in R : Sequence(r).chapter # n}
  BY DEF EditionOf
<1>3. /\ \A r, q \in R : Sequence(r).chapter = Sequence(q).chapter => r = q
      /\ \A n \in (b.first..b.last) \ b.gaps : \E r \in R : Sequence(r).chapter = n
  BY DEF Complete
<1> QED
  BY <1>1, <1>2, <1>3 DEF Proper, Whole

(* What bundling plans may take effect. The hard part is an edition that    *)
(* stays without being replaced: in a normal run its releases are left out  *)
(* of new groups; in a rebuild it is a kept one, whose members are those of *)
(* its group, or one of sources that are not in scope, which has no release *)
(* of a group that is, because a mixed series is refused.                   *)
LEMMA BundleFits ==
  ASSUME TypeOK, ArchiveInv, NEW s \in Series, ~Mixed(s), pc # "idle"
  PROVE  Fits(Bundle(s), s)
<1> DEFINE open == {g \in Groups(s) : ~Overlaps(s, g) /\ Selected(MembersOf(s, g))}
           foreign == {g \in open : Excluded(MembersOf(s, g))}
           complete == {g \in open \ foreign : Complete(s, g)}
           kept == {e \in EditionsOf(s) : e.group \in complete /\ Kept(e, EditionOf(s, e.group))}
<1>0. CatalogOK
  BY DEF TypeOK, CatalogOK, Archived
<1>6. kind \in {"sync", "rebuild"}
  BY DEF TypeOK, ArchiveInv
<1>1. ASSUME NEW n \in Bundle(s).new
      PROVE  /\ n.group \in complete /\ n = EditionOf(s, n.group) /\ n.series = s
             /\ DOMAIN n.members = MembersOf(s, n.group)
             /\ \A e \in kept : e.group # n.group
  <2>1. PICK h \in complete : n = EditionOf(s, h) /\ \A e \in kept : e.group # h
    BY DEF Bundle
  <2> QED
    BY <1>0, <2>1, EditionTypes
<1>2. \A n \in Bundle(s).new : Proper(n)
  BY <1>0, <1>1, CompleteIsWhole
<1>3. ASSUME NEW n \in Bundle(s).new, NEW m \in Bundle(s).new, n # m PROVE Apart(n, m) /\ ~SameGroup(n, m)
  <2>1. n.group # m.group
    BY <1>1, <1>3
  <2>2. DOMAIN n.members = MembersOf(s, n.group) /\ DOMAIN m.members = MembersOf(s, m.group)
    BY <1>1
  <2> QED
    BY <2>1, <2>2 DEF Apart, MembersOf, SameGroup
<1>4. ASSUME NEW e \in active \ Bundle(s).gone, e.series = s,
             \A m \in Bundle(s).new : ~SameGroup(m, e),
             NEW n \in Bundle(s).new
      PROVE  Apart(n, e)
  <2>1. n.group \in complete /\ DOMAIN n.members = MembersOf(s, n.group) /\ e.group # n.group
    BY <1>1, <1>4 DEF SameGroup
  <2>2. CASE kind = "sync"
    BY <1>4, <2>1, <2>2 DEF Overlaps, Apart
  <2>3. CASE kind = "rebuild" /\ e.group \notin complete
    <3>1. e.source \notin scope
      BY <1>4, <2>3 DEF Bundle, EditionsOf
    <3>2. e.source \in SourcesOf(e) /\ e \in EditionsOf(s)
      BY <1>4 DEF ArchiveInv, Proper, EditionsOf
    <3>3. SourcesOf(e) \cap scope = {}
      BY <2>3, <3>1, <3>2 DEF Mixed
    <3>4. \A r \in MembersOf(s, n.group) : SourceOf[r] \in scope
      BY <2>1 DEF Excluded
    <3> QED
      BY <2>1, <3>3, <3>4 DEF Apart, SourcesOf
  <2>4. CASE e.group \in complete
    <3>1. PICK k \in kept : k.group = e.group
      <4>1. SUFFICES ASSUME \A k \in kept : k.group # e.group PROVE FALSE
        OBVIOUS
      <4>2. EditionOf(s, e.group) \in Bundle(s).new
        BY <2>4, <4>1 DEF Bundle
      <4>3. SameGroup(EditionOf(s, e.group), e)
        BY <1>0, <1>4, <2>4, EditionTypes DEF SameGroup
      <4> QED
        BY <1>4, <4>2, <4>3
    <3>2. e = k
      BY <1>4, <3>1 DEF ArchiveInv, EditionsOf, SameGroup
    <3>3. kind = "rebuild" => e = EditionOf(s, e.group)
      BY <3>2 DEF Kept
    <3>4. kind = "rebuild" => DOMAIN e.members = MembersOf(s, e.group)
      BY <1>0, <2>4, <3>3, EditionTypes
    <3> QED
      BY <2>1, <2>2, <3>4, <1>6 DEF Apart, MembersOf
  <2> QED
    BY <1>6, <2>2, <2>3, <2>4
<1>5. ASSUME kind = "sync" PROVE Bundle(s).gone = {} /\ \A n \in Bundle(s).new, e \in active : ~SameGroup(n, e)
  <2>1. Bundle(s).gone = {}
    BY <1>5 DEF Bundle
  <2>2. ASSUME NEW n \in Bundle(s).new, NEW e \in active, SameGroup(n, e) PROVE FALSE
    <3>1. n.group \in complete /\ n.series = s /\ \A k \in kept : k.group # n.group
      BY <1>1
    <3>2. e \in kept
      BY <1>5, <2>2, <3>1 DEF SameGroup, Kept, EditionsOf
    <3> QED
      BY <2>2, <3>1, <3>2 DEF SameGroup
  <2> QED
    BY <2>1, <2>2
<1> QED
  BY <1>1, <1>2, <1>3, <1>4, <1>5 DEF Fits

(* So may whatever is planned, unless it is refused.                        *)
LEMMA PlanFits ==
  ASSUME TypeOK, ArchiveInv, NEW s \in Series, ~PlanFor(s).failed, pc # "idle"
  PROVE  Fits(PlanFor(s), s)
<1>1. Fits(NoPlan, s)
  BY DEF NoPlan, Fits
<1>2. Fits(Unbundle(s), s)
  <2>1. Unbundle(s).new = {} /\ (kind = "sync" => Unbundle(s).gone = {})
    BY DEF Unbundle, NoPlan
  <2> QED
    BY <2>1 DEF Fits
<1>3. Refusal.failed
  BY DEF Refusal
<1> QED
  BY <1>1, <1>2, <1>3, BundleFits DEF PlanFor

(* Storing a plan that fits leaves the archive sound.                       *)
LEMMA StoreSound == TypeOK /\ ArchiveInv /\ Store => ArchiveInv'
<1> SUFFICES ASSUME TypeOK, ArchiveInv, Store PROVE ArchiveInv'
  OBVIOUS
<1> DEFINE stay == {e \in active \ plan.gone : ~ \E n \in plan.new : n.series = e.series /\ n.group = e.group}
<1>1. /\ pc = "store" /\ pc' = "plan" /\ kind' = kind /\ active' = plan.new \cup stay /\ Fits(plan, cur)
  BY DEF Store, ArchiveInv
<1>2. /\ \A n \in plan.new : n.series = cur /\ Proper(n)
      /\ \A n, m \in plan.new : n # m => Apart(n, m) /\ ~SameGroup(n, m)
      /\ \A e \in stay : e \in active /\ \A n \in plan.new : ~SameGroup(n, e)
      /\ \A e \in stay : e.series = cur => \A n \in plan.new : Apart(n, e)
  BY <1>1 DEF Fits, SameGroup
<1>3. \A e \in active' : Proper(e)
  BY <1>1, <1>2 DEF ArchiveInv
<1>4. \A e, f \in active' : SameGroup(e, f) => e = f
  BY <1>1, <1>2 DEF ArchiveInv, SameGroup
<1>5. \A e, f \in active' : e.series = f.series /\ e # f => Apart(e, f)
  <2>1. \A e, f \in stay : e.series = f.series /\ e # f => Apart(e, f)
    BY <1>2 DEF ArchiveInv, SeriesVolumesDisjoint, Apart
  <2>2. \A n \in plan.new, e \in stay : e.series = n.series => Apart(n, e) /\ Apart(e, n)
    BY <1>2 DEF Apart
  <2> QED
    BY <1>1, <1>2, <2>1, <2>2
<1> QED
  BY <1>1, <1>3, <1>4, <1>5 DEF ArchiveInv, SeriesVolumesDisjoint, Apart, Proper, Whole, SourcesOf, SameGroup

(* Every step keeps the archive sound.                                      *)
LEMMA StepArchive == TypeOK /\ ArchiveInv /\ [Next]_vars => ArchiveInv'
<1> SUFFICES ASSUME TypeOK, ArchiveInv, [Next]_vars PROVE ArchiveInv'
  OBVIOUS
<1>1. ASSUME NEW s \in Series, Build(s) PROVE ArchiveInv'
  <2>1. pc = "plan" /\ cur' = s /\ plan' = PlanFor(s) /\ ~PlanFor(s).failed /\ UNCHANGED <<active, kind>>
    BY <1>1 DEF Build, catalogVars
  <2>2. Fits(PlanFor(s), s)
    BY <2>1, PlanFits
  <2>3. Fits(plan, cur)'
    BY <2>1, <2>2 DEF Fits, Proper, Whole, SourcesOf, Apart, SameGroup
  <2> QED
    BY <2>1, <2>3 DEF ArchiveInv, SeriesVolumesDisjoint
<1>2. CASE ~Store /\ \A s \in Series : ~Build(s)
  <2>1. /\ active' = active
        /\ pc' # "idle" => kind' # "none"
        /\ pc' = "store" => pc = "store" /\ UNCHANGED <<kind, plan, cur>>
    BY <1>2 DEF Next, Start, RunStep, Sync, Rebuild, SkipBlocked, Refuse, SkipUnchanged, Finish, Crash, BuildFails,
       Reconfigure, Damage, Correct, Forget, catalogVars, runVars, vars, ArchiveInv
  <2> QED
    BY <2>1 DEF ArchiveInv, SeriesVolumesDisjoint, Fits
<1> QED
  BY <1>1, <1>2, StoreSound

(* The archive is empty at first.                                           *)
LEMMA InitArchive == Init => ArchiveInv
BY DEF Init, ArchiveInv, SeriesVolumesDisjoint

-----------------------------------------------------------------------------
(***************************************************************************)
(* The planner's promise: every active edition has each chapter of its      *)
(* range once, less the gaps it states, and no release is in two active     *)
(* editions of one series, however series are regrouped, however runs are   *)
(* restricted, and whichever of them fail or die.                           *)
(***************************************************************************)
THEOREM ArchivesStaySound == Spec => []VolumesSound
<1>1. Init => TypeOK /\ ArchiveInv
  BY InitTypes, InitArchive
<1>2. TypeOK /\ ArchiveInv /\ [Next]_vars => (TypeOK /\ ArchiveInv)'
  BY StepTypes, StepArchive
<1>3. ArchiveInv => VolumesSound
  BY DEF ArchiveInv, VolumesSound, VolumesWhole, Proper, Whole
<1> QED
  BY <1>1, <1>2, <1>3, PTL DEF Spec

(***************************************************************************)
(* A normal run only adds: while one is under way no active edition is      *)
(* retired, replaced or rebuilt, whatever configuration has become.         *)
(***************************************************************************)
THEOREM FrozenVolumesStay == Spec => NormalRunsFreeze
<1>1. Init => TypeOK /\ ArchiveInv
  BY InitTypes, InitArchive
<1>2. TypeOK /\ ArchiveInv /\ [Next]_vars => (TypeOK /\ ArchiveInv)'
  BY StepTypes, StepArchive
<1>3. ArchiveInv /\ [Next]_vars => [kind = "sync" => active \subseteq active']_vars
  <2> SUFFICES ASSUME ArchiveInv, [Next]_vars, kind = "sync" PROVE active \subseteq active'
    OBVIOUS
  <2>1. CASE Store
    BY <2>1 DEF Store, ArchiveInv, Fits, SameGroup
  <2>2. CASE ~Store
    BY <2>2 DEF Next, Start, RunStep, Sync, Rebuild, SkipBlocked, Refuse, SkipUnchanged, Build, Finish, Crash,
       BuildFails, Reconfigure, Damage, Correct, catalogVars, vars
  <2> QED
    BY <2>1, <2>2
<1> QED
  BY <1>1, <1>2, <1>3, PTL DEF Spec, NormalRunsFreeze

-----------------------------------------------------------------------------
(* After a complete rebuild nothing is left to do.                          *)

(* Every stored release is rendered as the present configuration has it, so *)
(* that it has one sequence, whatever a run is restricted to.               *)
Current == \A r \in Stored : stored[r].slot = config.slot[r] /\ ~stored[r].legacy

Ready(s) == {g \in Groups(s) : Complete(s, g)}

(* Of the editions eds, those of a series are what would be made of it now. *)
Settled(s, eds, broken) ==
    /\ config.output[s].bundled =>
         /\ \A e \in eds : e.series = s =>
               e.group \in Ready(s) /\ e = EditionOf(s, e.group) /\ e \notin broken
         /\ \A g \in Ready(s) : \E e \in eds : e.series = s /\ e.group = g
    /\ ~config.output[s].bundled => \A e \in eds : e.series # s

(* What a plan leaves active.                                               *)
Outcome(p) ==
    p.new \cup {e \in active \ p.gone : ~ \E n \in p.new : n.series = e.series /\ n.group = e.group}

(* A complete rebuild that has met no failure.                              *)
Thorough == pc # "idle" /\ kind = "rebuild" /\ scope = Source /\ filter = Series /\ blocked = {}

QuietInv ==
    /\ quiet => Current /\ \A s \in Series : Settled(s, active, damaged)
    /\ pc = "store" => ~quiet /\ cur \in Series /\ \A e \in plan.gone : e.series = cur
    /\ Thorough =>
         /\ Current
         /\ \A s \in Series \ todo : (pc = "store" => s # cur) => Settled(s, active, damaged)
         /\ pc = "store" => Settled(cur, Outcome(plan), damaged)

(* What would be made of a series does not depend on the run then.          *)
LEMMA SameEditions ==
  ASSUME Current, UNCHANGED <<config, stored>>, NEW s \in Series
  PROVE  /\ Ready(s)' = Ready(s)
         /\ \A g \in Ready(s) : EditionOf(s, g)' = EditionOf(s, g)
<1>1. Stored' = Stored /\ Chapters(s)' = Chapters(s) /\ Chapters(s) \subseteq Stored
  BY DEF Stored, Chapters, Candidates
<1>2. \A r \in Stored : Sequence(r)' = Sequence(r)
  BY DEF Current, Sequence
<1>3. Grouped(s)' = Grouped(s) /\ Grouped(s) \subseteq Stored /\ Grouped(s) \subseteq Chapters(s)
  BY <1>1, <1>2 DEF Grouped
<1>4. \A r \in Stored : GroupOf(s, r)' = GroupOf(s, r)
  BY <1>2 DEF GroupOf, FirstOf, LastOf
<1>5. Groups(s)' = Groups(s)
  BY <1>3, <1>4 DEF Groups
<1>6. \A g : MembersOf(s, g)' = MembersOf(s, g) /\ MembersOf(s, g) \subseteq Stored
  BY <1>3, <1>4 DEF MembersOf
<1>7. \A g : BoundsOf(s, g)' = BoundsOf(s, g)
  BY DEF BoundsOf
<1>8. ASSUME NEW g \in Groups(s) PROVE Complete(s, g)' <=> Complete(s, g)
  <2> DEFINE R == MembersOf(s, g)
             b == BoundsOf(s, g)
  <2>1. R' = R /\ b' = b /\ R \subseteq Stored /\ \A r \in R : ~stored[r].legacy
    BY <1>6, <1>7 DEF Current
  <2>2. Complete(s, g) <=>
          /\ b.first <= b.last
          /\ \A r \in R : Sequence(r).position > 0 /\ stored[r].slot.format = "epub"
          /\ \A r, q \in R : Sequence(r).chapter = Sequence(q).chapter => r = q
          /\ \A n \in (b.first..b.last) \ b.gaps : \E r \in R : Sequence(r).chapter = n
          /\ g.book = None => \A r \in Chapters(s) : Sequence(r).book = None
    BY <2>1 DEF Complete
  <2>3. Complete(s, g)' <=>
          /\ b.first <= b.last
          /\ \A r \in R : Sequence(r)'.position > 0 /\ stored[r].slot.format = "epub"
          /\ \A r, q \in R : Sequence(r)'.chapter = Sequence(q)'.chapter => r = q
          /\ \A n \in (b.first..b.last) \ b.gaps : \E r \in R : Sequence(r)'.chapter = n
          /\ g.book = None => \A r \in Chapters(s) : Sequence(r)'.book = None
    BY <1>1, <2>1 DEF Complete
  <2> HIDE DEF R, b
  <2> QED
    BY <1>1, <1>2, <2>1, <2>2, <2>3
<1>9. ASSUME NEW g PROVE EditionOf(s, g)' = EditionOf(s, g)
  <2> DEFINE R == MembersOf(s, g)
             b == BoundsOf(s, g)
             number == [r \in R |-> Sequence(r).chapter]
             member == [r \in R |-> [text |-> stored[r].text, chapter |-> Sequence(r).chapter,
                                     position |-> Sequence(r).position]]
             gaps == {n \in b.gaps \cap (b.first..b.last) : \A r \in R : Sequence(r).chapter # n}
             made == [series |-> s, group |-> g, source |-> SourceOf[Lowest(number)],
                      bounds |-> [first |-> b.first, last |-> b.last, gaps |-> gaps],
                      title |-> config.output[s].title, members |-> member]
  <2>1. R' = R /\ b' = b /\ R \subseteq Stored
    BY <1>6, <1>7
  <2>2. number' = number /\ member' = member /\ gaps' = gaps
    BY <1>2, <2>1
  <2>3. EditionOf(s, g) = made
    BY DEF EditionOf
  <2>4. EditionOf(s, g)' = made'
    BY DEF EditionOf
  <2> HIDE DEF number, member, gaps, R, b
  <2>5. made' = made
    BY <2>1, <2>2
  <2> QED
    BY <2>3, <2>4, <2>5
<1> QED
  BY <1>5, <1>8, <1>9 DEF Ready

(* So a series that is settled stays so.                                    *)
LEMMA StaysSettled ==
  ASSUME Current, UNCHANGED <<config, stored>>, NEW s \in Series,
         Settled(s, active, damaged), {e \in active : e.series = s} = {e \in active' : e.series = s},
         damaged' \subseteq damaged
  PROVE  Settled(s, active, damaged)'
<1>1. Ready(s)' = Ready(s) /\ \A g \in Ready(s) : EditionOf(s, g)' = EditionOf(s, g)
  BY SameEditions
<1>2. \A e : e \in active' /\ e.series = s <=> e \in active /\ e.series = s
  OBVIOUS
<1>3. ASSUME config.output[s].bundled, NEW e \in active', e.series = s
      PROVE  e.group \in Ready(s)' /\ e = EditionOf(s, e.group)' /\ e \notin damaged'
  <2>1. e.group \in Ready(s) /\ e = EditionOf(s, e.group) /\ e \notin damaged
    BY <1>2, <1>3 DEF Settled
  <2> QED
    BY <1>1, <2>1
<1>4. ASSUME config.output[s].bundled, NEW g \in Ready(s)'
      PROVE  \E e \in active' : e.series = s /\ e.group = g
  BY <1>1, <1>2, <1>4 DEF Settled
<1>5. ASSUME ~config.output[s].bundled PROVE \A e \in active' : e.series # s
  BY <1>2, <1>5 DEF Settled
<1> QED
  BY <1>3, <1>4, <1>5 DEF Settled

(* A settled series is left alone, whatever the run is restricted to.       *)
LEMMA NothingToDo ==
  ASSUME TypeOK, ArchiveInv, Current, pc # "idle", NEW s \in Series, Settled(s, active, damaged)
  PROVE  PlanFor(s).new = {} /\ PlanFor(s).gone = {}
<1>1. NoPlan.new = {} /\ NoPlan.gone = {} /\ Refusal.new = {} /\ Refusal.gone = {}
  BY DEF NoPlan, Refusal
<1>2. kind \in {"sync", "rebuild"} /\ CatalogOK
  BY DEF TypeOK, ArchiveInv, CatalogOK, Archived
<1>3. ASSUME config.output[s].bundled, ~Mixed(s) PROVE Bundle(s).new = {} /\ Bundle(s).gone = {}
  <2> DEFINE open == {g \in Groups(s) : ~Overlaps(s, g) /\ Selected(MembersOf(s, g))}
             foreign == {g \in open : Excluded(MembersOf(s, g))}
             complete == {g \in open \ foreign : Complete(s, g)}
             kept == {e \in EditionsOf(s) : e.group \in complete /\ Kept(e, EditionOf(s, e.group))}
  <2>1. ASSUME NEW n \in Bundle(s).new PROVE FALSE
    <3>1. PICK g \in complete : \A e \in kept : e.group # g
      BY <2>1 DEF Bundle
    <3>2. PICK e \in active : e.series = s /\ e.group = g
      BY <1>3, <3>1 DEF Settled, Ready
    <3>3. e = EditionOf(s, e.group) /\ e \notin damaged
      BY <1>3, <3>2 DEF Settled
    <3>4. e \in kept
      BY <3>1, <3>2, <3>3 DEF EditionsOf, Kept
    <3> QED
      BY <3>1, <3>2, <3>4
  <2>2. ASSUME NEW e \in Bundle(s).gone PROVE FALSE
    <3>1. kind = "rebuild" /\ e \in EditionsOf(s) /\ e.group \notin complete /\ e.source \in scope
      BY <1>2, <2>2 DEF Bundle
    <3>2. e \in active /\ e.series = s /\ e.group \in Ready(s) /\ e = EditionOf(s, e.group)
      BY <1>3, <3>1 DEF EditionsOf, Settled
    <3>3. e.group \in Groups(s) /\ Complete(s, e.group) /\ ~Overlaps(s, e.group)
      BY <3>1, <3>2 DEF Ready, Overlaps
    <3>4. DOMAIN e.members = MembersOf(s, e.group) /\ e.source \in SourcesOf(e)
      BY <1>2, <3>2, <3>3, EditionTypes
    <3>5. Selected(MembersOf(s, e.group))
      BY <3>1, <3>4 DEF Selected, SourcesOf
    <3>6. SourcesOf(e) \subseteq scope
      BY <1>3, <3>1, <3>4 DEF Mixed
    <3>7. ~Excluded(MembersOf(s, e.group))
      BY <3>4, <3>6 DEF Excluded, SourcesOf
    <3> QED
      BY <3>1, <3>3, <3>5, <3>7
  <2> QED
    BY <2>1, <2>2
<1>4. ASSUME ~config.output[s].bundled PROVE Unbundle(s).new = {} /\ Unbundle(s).gone = {}
  BY <1>1, <1>4 DEF Unbundle, Settled, EditionsOf
<1> QED
  BY <1>1, <1>3, <1>4 DEF PlanFor

(* What a complete rebuild plans for a series settles it.                   *)
LEMMA ThoroughSettles ==
  ASSUME TypeOK, ArchiveInv, Current, Thorough, NEW s \in Series, ~PlanFor(s).failed
  PROVE  Settled(s, Outcome(PlanFor(s)), damaged \ PlanFor(s).new)
<1>0. CatalogOK /\ kind = "rebuild" /\ scope = Source /\ s \in filter
  BY DEF TypeOK, CatalogOK, Archived, Thorough
<1>1. \A e \in active : e.source \in Source /\ SourcesOf(e) \subseteq Source
  BY VolumesAssumption DEF TypeOK, IsEdition, SourcesOf
<1>2. ~Mixed(s)
  BY <1>0, <1>1 DEF Mixed, EditionsOf
<1>3. CASE ~SeriesInScope(s)
  <2>1. PlanFor(s).new = {} /\ PlanFor(s).gone = {}
    BY <1>3 DEF PlanFor, NoPlan
  <2>2. Chapters(s) = {} /\ \A e \in active : e.series # s
    BY <1>0, <1>1, <1>3, VolumesAssumption DEF SeriesInScope, EditionsOf, Chapters, Candidates, Stored
  <2>3. Ready(s) = {}
    BY <2>2 DEF Ready, Groups, Grouped
  <2>4. Outcome(PlanFor(s)) = active
    BY <2>1 DEF Outcome
  <2> QED
    BY <2>2, <2>3, <2>4 DEF Settled
<1>4. CASE SeriesInScope(s) /\ ~config.output[s].bundled
  <2> DEFINE mine == {e \in EditionsOf(s) : e.source \in scope}
             ready == {e \in mine : \A r \in DOMAIN e.members : r \in Candidates /\ SourceOf[r] \in scope}
  <2>1. PlanFor(s) = [new |-> {}, gone |-> ready, failed |-> ready # mine]
    BY <1>0, <1>2, <1>4 DEF PlanFor, Unbundle
  <2>2. PlanFor(s).new = {} /\ EditionsOf(s) \subseteq PlanFor(s).gone
    <3>1. mine = EditionsOf(s)
      BY <1>0, <1>1 DEF EditionsOf
    <3> HIDE DEF mine, ready
    <3>2. ready = mine
      <4> SUFFICES ASSUME ready # mine PROVE FALSE
        OBVIOUS
      <4>1. (ready # mine) = TRUE
        BY Zenon
      <4>2. PlanFor(s) = [new |-> {}, gone |-> ready, failed |-> TRUE]
        BY <2>1, <4>1, Zenon
      <4> QED
        BY <4>2
    <3> QED
      BY <2>1, <3>1, <3>2
  <2>3. \A e \in Outcome(PlanFor(s)) : e.series # s
    BY <2>2 DEF Outcome, EditionsOf
  <2> QED
    BY <1>4, <2>3 DEF Settled
<1>5. CASE SeriesInScope(s) /\ config.output[s].bundled
  <2> DEFINE open == {g \in Groups(s) : ~Overlaps(s, g) /\ Selected(MembersOf(s, g))}
             foreign == {g \in open : Excluded(MembersOf(s, g))}
             complete == {g \in open \ foreign : Complete(s, g)}
             kept == {e \in EditionsOf(s) : e.group \in complete /\ Kept(e, EditionOf(s, e.group))}
             p == Bundle(s)
  <2>1. PlanFor(s) = p
    BY <1>2, <1>5 DEF PlanFor
  <2>2. complete = Ready(s)
    <3>1. ASSUME NEW g \in Groups(s)
          PROVE  ~Overlaps(s, g) /\ Selected(MembersOf(s, g)) /\ ~Excluded(MembersOf(s, g))
      BY <1>0, GroupTypes, VolumesAssumption DEF Overlaps, Selected, Excluded
    <3> QED
      BY <3>1 DEF Ready
  <2>3. /\ p.new = {EditionOf(s, g) : g \in {h \in Ready(s) : \A e \in kept : e.group # h}}
        /\ p.gone = {e \in EditionsOf(s) : e.group \notin Ready(s) /\ e.source \in Source}
    BY <1>0, <2>2 DEF Bundle
  <2>4. \A g \in Ready(s) : EditionOf(s, g).series = s /\ EditionOf(s, g).group = g
    BY <1>0, EditionTypes DEF Ready
  <2>5. \A e \in kept : e \in active /\ e.series = s /\ e.group \in Ready(s)
                        /\ e = EditionOf(s, e.group) /\ e \notin damaged
    BY <1>0, <2>2 DEF Kept, EditionsOf
  <2>6. ASSUME NEW e \in Outcome(p), e.series = s
        PROVE  e.group \in Ready(s) /\ e = EditionOf(s, e.group) /\ e \notin damaged \ p.new
    <3>1. CASE e \in p.new
      BY <2>3, <2>4, <3>1
    <3>2. CASE e \notin p.new
      <4>1. e \in active /\ e \notin p.gone /\ \A n \in p.new : ~(n.series = e.series /\ n.group = e.group)
        BY <3>2 DEF Outcome
      <4>2. e.group \in Ready(s)
        BY <1>1, <2>3, <2>6, <4>1 DEF EditionsOf
      <4>3. PICK k \in kept : k.group = e.group
        BY <2>3, <2>4, <2>6, <4>1, <4>2
      <4>4. k = e
        BY <2>5, <2>6, <4>1, <4>3 DEF ArchiveInv, SameGroup
      <4> QED
        BY <2>5, <4>4
    <3> QED
      BY <3>1, <3>2
  <2>7. ASSUME NEW g \in Ready(s) PROVE \E e \in Outcome(p) : e.series = s /\ e.group = g
    <3>1. CASE \A k \in kept : k.group # g
      <4>1. EditionOf(s, g) \in p.new
        BY <2>3, <3>1
      <4> QED
        BY <2>4, <4>1 DEF Outcome
    <3>2. ASSUME NEW k \in kept, k.group = g PROVE \E e \in Outcome(p) : e.series = s /\ e.group = g
      <4>1. k \in active /\ k.series = s /\ k \notin p.gone
        BY <2>3, <2>5
      <4>2. \A n \in p.new : n.group # k.group
        BY <2>3, <2>4, <3>2
      <4> QED
        BY <3>2, <4>1, <4>2 DEF Outcome
    <3> QED
      BY <3>1, <3>2
  <2> HIDE DEF p
  <2> QED
    BY <1>5, <2>1, <2>6, <2>7 DEF Settled
<1> QED
  BY <1>3, <1>4, <1>5

(* What an outcome settles does not depend on the run either.               *)
LEMMA SameOutcome ==
  ASSUME Current, UNCHANGED <<config, stored>>, NEW s \in Series, NEW eds, NEW broken,
         Settled(s, eds, broken)
  PROVE  Settled(s, eds, broken)'
<1>1. Ready(s)' = Ready(s) /\ \A g \in Ready(s) : EditionOf(s, g)' = EditionOf(s, g)
  BY SameEditions
<1>2. ASSUME config.output[s].bundled, NEW e \in eds, e.series = s
      PROVE  e.group \in Ready(s)' /\ e = EditionOf(s, e.group)' /\ e \notin broken
  BY <1>1, <1>2 DEF Settled
<1>3. ASSUME config.output[s].bundled, NEW g \in Ready(s)' PROVE \E e \in eds : e.series = s /\ e.group = g
  BY <1>1, <1>3 DEF Settled
<1> QED
  BY <1>2, <1>3 DEF Settled

(* A settled archive stays so while nothing is stored or configured.        *)
LEMMA StaysQuiet ==
  ASSUME QuietInv, quiet, UNCHANGED <<config, stored, active>>, damaged' \subseteq damaged
  PROVE  (Current /\ \A s \in Series : Settled(s, active, damaged))'
<1>1. Current /\ Current'
  BY DEF QuietInv, Current, Stored
<1>2. \A s \in Series : Settled(s, active, damaged)'
  BY <1>1, StaysSettled DEF QuietInv
<1> QED
  BY <1>1, <1>2

(* A step of no thorough rebuild that plans nothing.                        *)
LEMMA Aside ==
  ASSUME QuietInv, pc' # "store", ~Thorough',
         quiet' => quiet /\ UNCHANGED <<config, stored, active>> /\ damaged' \subseteq damaged
  PROVE  QuietInv'
<1>1. quiet' => (Current /\ \A s \in Series : Settled(s, active, damaged))'
  BY StaysQuiet
<1> QED
  BY <1>1 DEF QuietInv

(* The rendering of a complete rebuild.                                     *)
LEMMA RebuildQuiet ==
  ASSUME TypeOK, QuietInv, NEW sc \in Scopes, NEW fi \in Filters, NEW failing \in SUBSET Release,
         Rebuild(sc, fi, failing)
  PROVE  QuietInv'
<1> DEFINE mine == {r \in Stored : /\ SourceOf[r] \in sc
                                   /\ {stored[r].series, config.slot[r].series} \cap fi # {}}
           done == mine \ (lost \cup failing)
<1>1. /\ stored' = [r \in Release |-> IF r \in done THEN Rendered(r, stored[r].text) ELSE stored[r]]
      /\ blocked' = UNION {{stored[r].series, config.slot[r].series} : r \in mine \ done}
      /\ pc' = "plan" /\ scope' = sc /\ filter' = fi /\ todo' = Series
      /\ UNCHANGED <<config, active, damaged>>
  BY DEF Rebuild, diskVars
<1>2. quiet' = (quiet /\ stored' = stored)
  BY DEF Rebuild
<1>3. quiet' => quiet /\ UNCHANGED stored
  BY <1>2, Zenon
<1>4. quiet' => (Current /\ \A s \in Series : Settled(s, active, damaged))'
  BY <1>1, <1>3, StaysQuiet
<1>5. ASSUME Thorough' PROVE Current'
  <2>1. sc = Source /\ fi = Series /\ blocked' = {}
    BY <1>1, <1>5 DEF Thorough
  <2>2. mine \subseteq done
    <3>1. \A r \in mine \ done : stored[r].series \in blocked'
      BY <1>1
    <3> QED
      BY <2>1, <3>1
  <2>3. \A r \in Stored : r \in Release /\ SourceOf[r] \in Source /\ config.slot[r].series \in Series
    BY Configured, VolumesAssumption DEF TypeOK, CatalogOK, Archived, Slot
  <2>4. \A r \in Stored : r \in mine
    BY <2>1, <2>3
  <2>5. \A r \in Release : r \in Stored \/ stored'[r] = None
    BY <1>1 DEF Stored
  <2>6. \A r \in Stored : stored'[r] = Rendered(r, stored[r].text)
    BY <1>1, <2>2, <2>3, <2>4
  <2>7. \A r \in Stored' : r \in Stored
    BY <2>5 DEF Stored
  <2>8. ASSUME NEW r \in Stored PROVE stored'[r].slot = config.slot[r] /\ ~stored'[r].legacy
    <3>1. PICK new : new = Rendered(r, stored[r].text)
      OBVIOUS
    <3>2. new.slot = config.slot[r] /\ ~new.legacy
      BY <3>1 DEF Rendered
    <3> QED
      BY <2>6, <3>1, <3>2
  <2> QED
    BY <1>1, <2>7, <2>8 DEF Current
<1> QED
  BY <1>1, <1>4, <1>5 DEF QuietInv

(* The building of what a series needs, and the transaction that follows.   *)
LEMMA BuildQuiet ==
  ASSUME TypeOK, ArchiveInv, QuietInv, NEW s \in Series, Build(s)
  PROVE  QuietInv'
<1>1. /\ pc = "plan" /\ s \in todo \ blocked /\ ~PlanFor(s).failed
      /\ cur' = s /\ plan' = PlanFor(s) /\ pc' = "store" /\ damaged' = damaged \ PlanFor(s).new
      /\ ~quiet' /\ todo' = todo \ {s}
      /\ UNCHANGED <<config, stored, active, kind, scope, filter, blocked>>
  BY DEF Build, Leaves, catalogVars
<1>2. \A e \in PlanFor(s).gone : e.series = s
  <2>1. NoPlan.gone = {} /\ Refusal.gone = {}
    BY DEF NoPlan, Refusal
  <2>2. \A e \in Bundle(s).gone : e.series = s
    BY DEF Bundle, EditionsOf
  <2>3. \A e \in Unbundle(s).gone : e.series = s
    BY <2>1 DEF Unbundle, EditionsOf
  <2> QED
    BY <2>1, <2>2, <2>3 DEF PlanFor
<1>3. ASSUME Thorough'
      PROVE  /\ Current'
             /\ \A t \in Series \ todo' : t # cur' => Settled(t, active, damaged)'
             /\ Settled(cur, Outcome(plan), damaged)'
  <2>1. Thorough /\ Current
    BY <1>1, <1>3 DEF Thorough, QuietInv
  <2>2. Current'
    BY <1>1, <2>1 DEF Current, Stored
  <2>3. ASSUME NEW t \in Series \ todo', t # s PROVE Settled(t, active, damaged)'
    <3>1. Settled(t, active, damaged)
      BY <1>1, <2>1, <2>3 DEF QuietInv
    <3> QED
      BY <1>1, <2>1, <3>1, StaysSettled
  <2>4. Settled(s, Outcome(PlanFor(s)), damaged \ PlanFor(s).new)
    BY <1>1, <2>1, ThoroughSettles
  <2>5. PICK eds, broken : eds = Outcome(PlanFor(s)) /\ broken = damaged \ PlanFor(s).new
    OBVIOUS
  <2>6. Settled(s, eds, broken)'
    BY <1>1, <2>1, <2>4, <2>5, SameOutcome
  <2>7. Outcome(plan)' = eds /\ damaged' = broken /\ cur' = s
    BY <1>1, <2>5 DEF Outcome
  <2> QED
    BY <1>1, <2>2, <2>3, <2>6, <2>7 DEF Settled
<1> QED
  BY <1>1, <1>2, <1>3 DEF QuietInv

(* The transaction settles the series it is about.                          *)
LEMMA StoreQuiet ==
  ASSUME TypeOK, ArchiveInv, QuietInv, Store
  PROVE  QuietInv'
<1>1. /\ pc = "store" /\ active' = Outcome(plan) /\ pc' = "plan"
      /\ UNCHANGED <<config, stored, damaged, kind, scope, filter, blocked, todo, quiet>>
  BY DEF Store, Outcome, diskVars
<1>2. ~quiet /\ ~quiet' /\ cur \in Series /\ \A e \in plan.gone : e.series = cur
  BY <1>1 DEF QuietInv
<1>3. \A n \in plan.new : n.series = cur
  BY <1>1 DEF ArchiveInv, Fits
<1>4. ASSUME Thorough' PROVE Current' /\ \A t \in Series \ todo' : Settled(t, active, damaged)'
  <2>1. Thorough /\ Current
    BY <1>1, <1>4 DEF Thorough, QuietInv
  <2>2. Current'
    BY <1>1, <2>1 DEF Current, Stored
  <2>3. ASSUME NEW s \in Series, s = cur PROVE Settled(s, active, damaged)'
    <3>1. PICK eds, broken : eds = Outcome(plan) /\ broken = damaged
      OBVIOUS
    <3>2. Settled(s, eds, broken)
      BY <1>1, <2>1, <2>3, <3>1 DEF QuietInv
    <3>3. Settled(s, eds, broken)'
      BY <1>1, <2>1, <3>2, SameOutcome
    <3> QED
      BY <1>1, <3>1, <3>3 DEF Settled
  <2>4. ASSUME NEW t \in Series \ todo', t # cur PROVE Settled(t, active, damaged)'
    <3>1. Settled(t, active, damaged)
      BY <1>1, <2>1, <2>4 DEF QuietInv
    <3>2. {e \in active : e.series = t} = {e \in active' : e.series = t}
      BY <1>1, <1>2, <1>3, <2>4 DEF Outcome
    <3> QED
      BY <1>1, <2>1, <3>1, <3>2, StaysSettled
  <2> QED
    BY <2>2, <2>3, <2>4
<1> QED
  BY <1>1, <1>2, <1>4 DEF QuietInv

(* Every step keeps what is settled.                                        *)
LEMMA StepQuiet == TypeOK /\ ArchiveInv /\ QuietInv /\ [Next]_vars => QuietInv'
<1> SUFFICES ASSUME TypeOK, ArchiveInv, QuietInv, [Next]_vars PROVE QuietInv'
  OBVIOUS
<1>1. ASSUME NEW sc \in Scopes, NEW listed \in SUBSET Release, Sync(sc, listed) PROVE QuietInv'
  <2>1. quiet' = (quiet /\ stored' = stored)
    BY <1>1 DEF Sync
  <2>2. quiet' => quiet /\ UNCHANGED stored
    BY <2>1, Zenon
  <2>3. pc' = "plan" /\ kind' = "sync" /\ UNCHANGED <<config, active, damaged>>
    BY <1>1 DEF Sync
  <2> QED
    BY <2>2, <2>3, Aside DEF Thorough
<1>2. ASSUME NEW sc \in Scopes, NEW fi \in Filters, NEW failing \in SUBSET Release, Rebuild(sc, fi, failing)
      PROVE  QuietInv'
  BY <1>2, RebuildQuiet
<1>3. ASSUME NEW s \in Series, SkipBlocked(s) \/ Refuse(s) \/ BuildFails(s) PROVE QuietInv'
  <2>1. /\ pc' = "plan" /\ s \in blocked' /\ damaged' \subseteq damaged
        /\ UNCHANGED <<config, stored, active, quiet>>
    BY <1>3 DEF SkipBlocked, Refuse, BuildFails, catalogVars, diskVars
  <2> QED
    BY <2>1, Aside DEF Thorough
<1>4. ASSUME NEW s \in Series, SkipUnchanged(s) PROVE QuietInv'
  <2>1. /\ pc = "plan" /\ PlanFor(s) = NoPlan /\ todo' = todo \ {s}
        /\ UNCHANGED <<config, stored, active, damaged, kind, pc, scope, filter, blocked, quiet>>
    BY <1>4 DEF SkipUnchanged, Leaves, catalogVars, diskVars
  <2>2. quiet' => (Current /\ \A t \in Series : Settled(t, active, damaged))'
    BY <2>1, StaysQuiet
  <2>3. ASSUME Thorough' PROVE (Current /\ \A t \in Series \ todo : Settled(t, active, damaged))'
    <3>1. Thorough /\ Current
      BY <2>1, <2>3 DEF Thorough, QuietInv
    <3>2. Current'
      BY <2>1, <3>1 DEF Current, Stored
    <3>3. Settled(s, active, damaged)
      <4>1. ~PlanFor(s).failed /\ PlanFor(s).new = {} /\ PlanFor(s).gone = {}
        BY <2>1 DEF NoPlan
      <4>2. Outcome(PlanFor(s)) = active /\ damaged \ PlanFor(s).new = damaged
        BY <4>1 DEF Outcome
      <4>3. Settled(s, Outcome(PlanFor(s)), damaged \ PlanFor(s).new)
        BY <3>1, <4>1, ThoroughSettles
      <4> QED
        BY <4>2, <4>3
    <3>4. ASSUME NEW t \in Series \ todo' PROVE Settled(t, active, damaged)'
      <4>1. Settled(t, active, damaged)
        BY <2>1, <3>1, <3>3, <3>4 DEF QuietInv
      <4> QED
        BY <2>1, <3>1, <4>1, StaysSettled
    <3> QED
      BY <3>2, <3>4
  <2> QED
    BY <2>1, <2>2, <2>3 DEF QuietInv
<1>5. ASSUME NEW s \in Series, Build(s) PROVE QuietInv'
  BY <1>5, BuildQuiet
<1>6. CASE Store
  BY <1>6, StoreQuiet
<1>7. CASE Finish
  <2>1. /\ pc = "plan" /\ todo = {} /\ pc' = "idle"
        /\ UNCHANGED <<config, stored, active, damaged>>
    BY <1>7 DEF Finish, Forget, catalogVars, diskVars
  <2>2. quiet' => quiet \/ Thorough
    BY <1>7, <2>1 DEF Finish, Thorough
  <2>3. CASE ~quiet /\ Thorough
    <3>1. Current /\ Current' /\ \A s \in Series : Settled(s, active, damaged)
      BY <2>1, <2>3 DEF QuietInv, Current, Stored
    <3>2. \A s \in Series : Settled(s, active, damaged)'
      BY <2>1, <3>1, StaysSettled
    <3> QED
      BY <2>1, <3>1, <3>2 DEF QuietInv, Thorough
  <2>4. CASE quiet
    BY <2>1, <2>4, Aside DEF Thorough
  <2>5. CASE ~quiet'
    BY <2>1, <2>5, Aside DEF Thorough
  <2> QED
    BY <2>2, <2>3, <2>4, <2>5
<1>8. CASE Crash
  <2>1. pc' = "idle" /\ UNCHANGED <<config, stored, active, damaged, quiet>>
    BY <1>8 DEF Crash, Forget, catalogVars, diskVars
  <2> QED
    BY <2>1, Aside DEF Thorough
<1>9. CASE Reconfigure \/ Damage
  <2>1. ~quiet' /\ pc' = "idle"
    BY <1>9 DEF Reconfigure, Damage, runVars
  <2> QED
    BY <2>1, Aside DEF Thorough
<1>10. ASSUME NEW r \in Release, Correct(r) PROVE QuietInv'
  <2>1. pc' = "idle" /\ UNCHANGED <<config, stored, active, damaged, quiet>>
    BY <1>10 DEF Correct, catalogVars, diskVars, runVars
  <2> QED
    BY <2>1, Aside DEF Thorough
<1>11. CASE UNCHANGED vars
  <2>1. UNCHANGED <<config, stored, active, damaged, kind, pc, scope, filter, blocked, todo, cur, plan, quiet>>
    BY <1>11 DEF vars, catalogVars, diskVars, runVars
  <2>2. quiet' => (Current /\ \A t \in Series : Settled(t, active, damaged))'
    BY <2>1, StaysQuiet
  <2>3. ASSUME Thorough'
        PROVE  /\ Current'
               /\ \A t \in Series \ todo' : (pc' = "store" => t # cur') => Settled(t, active, damaged)'
               /\ pc' = "store" => Settled(cur, Outcome(plan), damaged)'
    <3>1. Thorough /\ Current
      BY <2>1, <2>3 DEF Thorough, QuietInv
    <3>2. Current'
      BY <2>1, <3>1 DEF Current, Stored
    <3>3. ASSUME NEW t \in Series \ todo', pc' = "store" => t # cur' PROVE Settled(t, active, damaged)'
      <4>1. Settled(t, active, damaged)
        BY <2>1, <3>1, <3>3 DEF QuietInv
      <4> QED
        BY <2>1, <3>1, <4>1, StaysSettled
    <3>4. ASSUME pc' = "store" PROVE Settled(cur, Outcome(plan), damaged)'
      <4>1. cur \in Series /\ Settled(cur, Outcome(plan), damaged)
        BY <2>1, <3>1, <3>4 DEF QuietInv
      <4>2. PICK s, eds, broken : s \in Series /\ s = cur /\ eds = Outcome(plan) /\ broken = damaged
        BY <4>1
      <4>3. Settled(s, eds, broken)'
        BY <2>1, <3>1, <4>1, <4>2, SameOutcome
      <4>4. cur' = s /\ Outcome(plan)' = eds /\ damaged' = broken
        BY <2>1, <4>2 DEF Outcome
      <4> QED
        BY <2>1, <4>3, <4>4 DEF Settled
    <3> QED
      BY <3>2, <3>3, <3>4
  <2> QED
    BY <2>1, <2>2, <2>3 DEF QuietInv
<1> QED
  BY <1>1, <1>2, <1>3, <1>4, <1>5, <1>6, <1>7, <1>8, <1>9, <1>10, <1>11 DEF Next, Start, RunStep

(***************************************************************************)
(* The planner comes to rest: after a complete rebuild, with nothing stored *)
(* or changed since, no run, however restricted, and whatever interrupts    *)
(* it, finds anything to build or to retire.                                *)
(***************************************************************************)
THEOREM RebuildsSettle == Spec => []RebuildSettles
<1>1. Init => TypeOK /\ ArchiveInv /\ QuietInv
  BY InitTypes, InitArchive DEF Init, QuietInv, Thorough
<1>2. TypeOK /\ ArchiveInv /\ QuietInv /\ [Next]_vars => (TypeOK /\ ArchiveInv /\ QuietInv)'
  BY StepTypes, StepArchive, StepQuiet
<1>3. TypeOK /\ ArchiveInv /\ QuietInv => RebuildSettles
  <2> SUFFICES ASSUME TypeOK, ArchiveInv, QuietInv, pc = "plan", quiet, NEW s \in todo
               PROVE  PlanFor(s).new \cup PlanFor(s).gone = {}
    BY DEF RebuildSettles
  <2>1. s \in Series /\ Current /\ Settled(s, active, damaged)
    BY DEF TypeOK, QuietInv
  <2> QED
    BY <2>1, NothingToDo
<1> QED
  BY <1>1, <1>2, <1>3, PTL DEF Spec
==============================================================================
