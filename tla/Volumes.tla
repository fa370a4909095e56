-------------------------------- MODULE Volumes --------------------------------
(***************************************************************************)
(* The volume planner.  A run first brings the stored releases up to date  *)
(* (see Intake), then plans every series: releases are grouped by book or  *)
(* by chapter range, a complete group becomes a volume edition, a normal   *)
(* run leaves the editions that exist as they are, a rebuild replaces or   *)
(* removes them.  The editions of a series are built one after another and *)
(* take effect in one transaction.  What a run needs of other sources, or  *)
(* cannot read, blocks the series for the run.                             *)
(***************************************************************************)
EXTENDS Naturals, FiniteSets

CONSTANTS
    Release, Source, Series, Book, Text,
    SourceOf,       \* SourceOf[r]: the source of a release
    Configs,        \* the configurations: a slot per release, an output per series
    LegacyReleases, \* releases stored by an older version
    Scopes,         \* the source filters a run may be started with
    Filters,        \* the series filters a rebuild may be started with
    MaxChanges,     \* bound on corrections and configuration changes
    MaxFaults,      \* bound on crashes, failing builds, damage and losses
    None

(* Where configuration puts a release: book None and chapter 0 when it has *)
(* none, position 0 when the order within the series is not known, format  *)
(* "none" when it renders nothing.                                         *)
Slot == [series : Series, book : Book \cup {None}, chapter : Nat, position : Nat,
         single : BOOLEAN, format : {"epub", "other", "none"}]

Bounds == [first : Nat, last : Nat, gaps : SUBSET Nat]

Output == [bundled : BOOLEAN, size : Nat \ {0}, final : Nat, gaps : SUBSET Nat,
           title : Text, books : [Book -> Bounds]]

ASSUME VolumesAssumption ==
    /\ SourceOf \in [Release -> Source]
    /\ Configs # {} /\ Configs \subseteq [slot : [Release -> Slot], output : [Series -> Output]]
    /\ LegacyReleases \subseteq Release
    /\ Scopes \subseteq SUBSET Source /\ Filters \subseteq SUBSET Series
    /\ None \notin Book
    /\ MaxChanges \in Nat /\ MaxFaults \in Nat

VARIABLES
    config, text,   \* configuration; what the provider says now
    stored,         \* releases in the catalog: series, text, archived slot, legacy
    lost,           \* releases whose retained raw payload cannot be read
    active,         \* the active volume editions
    damaged,        \* editions whose archived file is missing or changed
    kind, pc,       \* the run there is, and where it is
    scope, filter,  \* its sources and series
    blocked, todo,  \* series it must leave alone; series not yet planned
    cur, plan,      \* the series in hand and its plan
    quiet,          \* a complete rebuild has run and nothing has changed since
    changes, faults

catalogVars == <<stored, active>>
diskVars == <<lost, damaged>>
runVars == <<kind, pc, scope, filter, blocked, todo, cur, plan>>
vars == <<config, text, catalogVars, diskVars, runVars, quiet, changes, faults>>

ASSUME StoredAssumption ==
    None \notin [series : Series, text : Text, slot : Slot, legacy : BOOLEAN]

Stored == {r \in Release : stored[r] # None}

(* ListPublishCandidates: the releases that have a canonical artifact. *)
Candidates == {r \in Stored : stored[r].slot.format # "none"}

(*-------------------------------- grouping --------------------------------*)
(* The sequence of a release outside the run's sources is the one archived *)
(* with its rendering.                                                     *)
Sequence(r) == IF SourceOf[r] \in scope THEN config.slot[r] ELSE stored[r].slot

Chapters(s) == {r \in Candidates : stored[r].series = s}
Grouped(s) == {r \in Chapters(s) : Sequence(r).chapter > 0 /\ ~Sequence(r).single}

FirstOf(s, n) == LET size == config.output[s].size IN 1 + ((n - 1) \div size) * size

LastOf(s, n) ==
    LET first == FirstOf(s, n)
        last == first + config.output[s].size - 1
        final == config.output[s].final
    IN  IF final \in first..(last - 1) THEN final ELSE last

(* The group a release belongs to. *)
GroupOf(s, r) ==
    LET q == Sequence(r) IN
    IF q.book # None THEN [book |-> q.book, first |-> 0, last |-> 0]
    ELSE [book |-> None, first |-> FirstOf(s, q.chapter), last |-> LastOf(s, q.chapter)]

Groups(s) == {GroupOf(s, r) : r \in Grouped(s)}
MembersOf(s, g) == {r \in Grouped(s) : GroupOf(s, r) = g}

(* The chapters a group is expected to have, and those it may lack. *)
BoundsOf(s, g) ==
    IF g.book # None THEN config.output[s].books[g.book]
    ELSE [first |-> g.first, last |-> g.last, gaps |-> config.output[s].gaps]

(* Mutant: a member of a frozen volume may join another one. *)
OverlapsIgnored(s, g) == FALSE

(* A normal run does not regroup what a frozen volume contains. *)
Overlaps(s, g) ==
    /\ kind = "sync"
    /\ \E e \in active : /\ e.series = s /\ e.group # g
                         /\ DOMAIN e.members \cap MembersOf(s, g) # {}

Selected(R) == \E r \in R : SourceOf[r] \in scope
Excluded(R) == \E r \in R : SourceOf[r] \notin scope

Complete(s, g) ==
    LET R == MembersOf(s, g)   b == BoundsOf(s, g) IN
    /\ b.first <= b.last
    /\ \A r \in R : Sequence(r).position > 0 /\ stored[r].slot.format = "epub"
    /\ \A r, q \in R : Sequence(r).chapter = Sequence(q).chapter => r = q
    /\ \A n \in (b.first..b.last) \ b.gaps : \E r \in R : Sequence(r).chapter = n
    /\ kind = "sync" => \A r \in R : ~stored[r].legacy
    /\ g.book = None => \A r \in Chapters(s) : Sequence(r).book = None

(*-------------------------------- planning --------------------------------*)
(* The first of some chapters, whose numbers are given. *)
Lowest(number) == CHOOSE r \in DOMAIN number : \A q \in DOMAIN number : number[r] <= number[q]

(* The edition a complete group makes: members with the texts and positions *)
(* they have now; its source is that of its first chapter.                  *)
EditionOf(s, g) ==
    LET R == MembersOf(s, g)   b == BoundsOf(s, g)
    IN [series  |-> s,
        group   |-> g,
        source  |-> SourceOf[Lowest([r \in R |-> Sequence(r).chapter])],
        bounds  |-> [first |-> b.first, last |-> b.last,
                     gaps |-> {n \in b.gaps \cap (b.first..b.last) :
                                   \A r \in R : Sequence(r).chapter # n}],
        title   |-> config.output[s].title,
        members |-> [r \in R |-> [text |-> stored[r].text,
                                  chapter |-> Sequence(r).chapter,
                                  position |-> Sequence(r).position]]]

EditionsOf(s) == {e \in active : e.series = s}
SourcesOf(e) == {SourceOf[r] : r \in DOMAIN e.members}

(* Mutant: a run keeps an edition only while it is up to date. *)
KeptIfCurrent(e, new) == e = new /\ e \notin damaged

(* An existing edition of the group stays in a normal run, whatever has     *)
(* changed, and in a rebuild when the same edition would be made and its    *)
(* file is intact.                                                          *)
Kept(e, new) == kind = "sync" \/ (e = new /\ e \notin damaged)

SeriesInScope(s) ==
    /\ s \in filter
    /\ \/ kind = "sync" /\ scope = Source
       \/ \E r \in Chapters(s) : SourceOf[r] \in scope
       \/ \E e \in EditionsOf(s) : e.source \in scope

(* "replacement needs excluded sources" *)
Mixed(s) ==
    /\ kind = "rebuild"
    /\ \E e \in EditionsOf(s) : SourcesOf(e) \cap scope # {} /\ ~(SourcesOf(e) \subseteq scope)

NoPlan == [new |-> {}, gone |-> {}, failed |-> FALSE]
Refusal == [new |-> {}, gone |-> {}, failed |-> TRUE]

(* Bundling is off: a rebuild gives the editions up when it can make every *)
(* single, a normal run leaves them.                                       *)
Unbundle(s) ==
    LET mine == {e \in EditionsOf(s) : e.source \in scope}
        ready == {e \in mine : \A r \in DOMAIN e.members :
                     r \in Candidates /\ SourceOf[r] \in scope}
    IN IF kind = "sync" THEN NoPlan
       ELSE [new |-> {}, gone |-> ready, failed |-> ready # mine]

Bundle(s) ==
    LET open == {g \in Groups(s) : ~Overlaps(s, g) /\ Selected(MembersOf(s, g))}
        foreign == {g \in open : Excluded(MembersOf(s, g))}
        complete == {g \in open \ foreign : Complete(s, g)}
        kept == {e \in EditionsOf(s) : e.group \in complete /\ Kept(e, EditionOf(s, e.group))}
        new == {EditionOf(s, g) : g \in {h \in complete : \A e \in kept : e.group # h}}
    IN [new    |-> new,
        gone   |-> IF kind = "sync" THEN {}
                   ELSE {e \in EditionsOf(s) : /\ e.group \notin complete
                                               /\ e.source \in scope},
        failed |-> foreign # {}]

(* planSeriesVolumes *)
PlanFor(s) ==
    IF ~SeriesInScope(s) THEN NoPlan
    ELSE IF Mixed(s) THEN Refusal
    ELSE IF config.output[s].bundled THEN Bundle(s)
    ELSE Unbundle(s)

(*---------------------------------- runs ----------------------------------*)
Fault == faults < MaxFaults /\ faults' = faults + 1

Forget ==
    /\ kind' = "none" /\ pc' = "idle" /\ scope' = {} /\ filter' = {}
    /\ blocked' = {} /\ todo' = {} /\ cur' = None /\ plan' = NoPlan

Init ==
    /\ config \in Configs
    /\ text = [r \in Release |-> CHOOSE t \in Text : TRUE]
    /\ stored = [r \in Release |->
          IF r \in LegacyReleases
          THEN [series |-> config.slot[r].series, text |-> text[r],
                slot |-> config.slot[r], legacy |-> TRUE]
          ELSE None]
    /\ lost = {} /\ active = {} /\ damaged = {}
    /\ kind = "none" /\ pc = "idle" /\ scope = {} /\ filter = {}
    /\ blocked = {} /\ todo = {} /\ cur = None /\ plan = NoPlan
    /\ quiet = FALSE /\ changes = 0 /\ faults = 0

Rendered(r, t) == [series |-> config.slot[r].series, text |-> t,
                   slot |-> config.slot[r], legacy |-> FALSE]

(* A sync stores what the provider lists; legacy output keeps its series    *)
(* and its rendering.                                                       *)
Sync(sc, listed) ==
    /\ pc = "idle" /\ sc \in Scopes
    /\ \A r \in listed : SourceOf[r] \in sc
    /\ stored' = [r \in Release |->
          IF r \notin listed THEN stored[r]
          ELSE IF r \in Stored /\ stored[r].legacy THEN [stored[r] EXCEPT !.text = text[r]]
          ELSE Rendered(r, text[r])]
    /\ kind' = "sync" /\ pc' = "plan"
    /\ scope' = sc /\ filter' = Series /\ blocked' = {} /\ todo' = Series
    /\ cur' = None /\ plan' = NoPlan
    /\ quiet' = (quiet /\ stored' = stored)
    /\ lost' = {r \in lost : stored'[r] = stored[r]}
    /\ UNCHANGED <<config, text, active, damaged, changes, faults>>

(* A rebuild renders the stored releases again under the present            *)
(* configuration.  One whose payload cannot be read, or that fails, blocks  *)
(* its old and its new series.                                              *)
Rebuild(sc, fi, failing) ==
    LET mine == {r \in Stored : /\ SourceOf[r] \in sc
                                /\ {stored[r].series, config.slot[r].series} \cap fi # {}}
        done == mine \ (lost \cup failing)
    IN  /\ pc = "idle" /\ sc \in Scopes /\ fi \in Filters
        /\ failing \subseteq mine \ lost
        /\ IF failing = {} THEN UNCHANGED faults ELSE Fault
        /\ stored' = [r \in Release |->
              IF r \in done THEN Rendered(r, stored[r].text) ELSE stored[r]]
        /\ kind' = "rebuild" /\ pc' = "plan"
        /\ scope' = sc /\ filter' = fi /\ todo' = Series
        /\ blocked' = UNION {{stored[r].series, config.slot[r].series} : r \in mine \ done}
        /\ cur' = None /\ plan' = NoPlan
        /\ quiet' = (quiet /\ stored' = stored)
        /\ UNCHANGED <<config, text, active, diskVars, changes>>

Leaves(s) == todo' = todo \ {s}

(* evaluateVolumes comes to a series the run must leave alone, or whose     *)
(* plan failed: the editions it has stay.                                   *)
SkipBlocked(s) ==
    /\ pc = "plan" /\ s \in todo /\ s \in blocked
    /\ Leaves(s)
    /\ UNCHANGED <<config, text, catalogVars, diskVars, kind, pc, scope, filter, blocked,
                   cur, plan, quiet, changes, faults>>

Refuse(s) ==
    /\ pc = "plan" /\ s \in todo \ blocked
    /\ PlanFor(s).failed
    /\ Leaves(s) /\ blocked' = blocked \cup {s}
    /\ UNCHANGED <<config, text, catalogVars, diskVars, kind, pc, scope, filter,
                   cur, plan, quiet, changes, faults>>

SkipUnchanged(s) ==
    /\ pc = "plan" /\ s \in todo \ blocked
    /\ PlanFor(s) = NoPlan
    /\ Leaves(s)
    /\ UNCHANGED <<config, text, catalogVars, diskVars, kind, pc, scope, filter, blocked,
                   cur, plan, quiet, changes, faults>>

(* activateVolumes: build the files one after another ... *)
Build(s) ==
    LET p == PlanFor(s) IN
    /\ pc = "plan" /\ s \in todo \ blocked
    /\ ~p.failed /\ p.new \cup p.gone # {}
    /\ cur' = s /\ plan' = p /\ pc' = "store"
    /\ damaged' = damaged \ p.new
    /\ quiet' = FALSE
    /\ Leaves(s)
    /\ UNCHANGED <<config, text, catalogVars, lost, kind, scope, filter, blocked,
                   changes, faults>>

BuildFails(s) ==
    LET p == PlanFor(s) IN
    /\ pc = "plan" /\ s \in todo \ blocked
    /\ ~p.failed /\ p.new # {}
    /\ Fault
    /\ \E done \in SUBSET p.new : done # p.new /\ damaged' = damaged \ done
    /\ Leaves(s) /\ blocked' = blocked \cup {s}
    /\ UNCHANGED <<config, text, catalogVars, lost, kind, pc, scope, filter, cur, plan,
                   quiet, changes>>

(* Mutant: the groups a rebuild gives up are not deactivated. *)
StoreNewOnly ==
    /\ pc = "store"
    /\ active' = plan.new \cup
          {e \in active : ~ \E n \in plan.new : n.series = e.series /\ n.group = e.group}
    /\ pc' = "plan" /\ cur' = None /\ plan' = NoPlan
    /\ UNCHANGED <<config, text, stored, diskVars, kind, scope, filter, blocked, todo,
                   quiet, changes, faults>>

(* ... then ReplaceVolumes, one transaction: deactivate the groups that go  *)
(* and those that are replaced, insert the new editions.                    *)
Store ==
    /\ pc = "store"
    /\ active' = plan.new \cup
          {e \in active \ plan.gone :
              ~ \E n \in plan.new : n.series = e.series /\ n.group = e.group}
    /\ pc' = "plan" /\ cur' = None /\ plan' = NoPlan
    /\ UNCHANGED <<config, text, stored, diskVars, kind, scope, filter, blocked, todo,
                   quiet, changes, faults>>

(* The planning is over; Delivery takes the candidates from here. *)
Finish ==
    /\ pc = "plan" /\ todo = {}
    /\ quiet' = (quiet \/ (kind = "rebuild" /\ scope = Source /\ filter = Series
                           /\ blocked = {}))
    /\ Forget
    /\ UNCHANGED <<config, text, catalogVars, diskVars, changes, faults>>

Crash ==
    /\ pc # "idle" /\ Fault
    /\ Forget
    /\ UNCHANGED <<config, text, catalogVars, diskVars, quiet, changes>>

(*----------------------------- the surroundings ---------------------------*)
Change == changes < MaxChanges /\ changes' = changes + 1

Reconfigure ==
    /\ pc = "idle" /\ Change
    /\ config' \in Configs \ {config}
    /\ quiet' = FALSE
    /\ UNCHANGED <<text, catalogVars, diskVars, runVars, faults>>

Correct(r) ==
    /\ pc = "idle" /\ Change
    /\ \E t \in Text \ {text[r]} : text' = [text EXCEPT ![r] = t]
    /\ UNCHANGED <<config, catalogVars, diskVars, runVars, quiet, faults>>

(* A file of the archive, or the inputs of a release, cannot be read. *)
Damage ==
    /\ pc = "idle" /\ Fault
    /\ \/ \E e \in active \ damaged : damaged' = damaged \cup {e} /\ UNCHANGED lost
       \/ \E r \in Stored \ lost : lost' = lost \cup {r} /\ UNCHANGED damaged
    /\ quiet' = FALSE
    /\ UNCHANGED <<config, text, catalogVars, runVars, changes>>

Start ==
    \/ \E sc \in Scopes : \E listed \in SUBSET Release : Sync(sc, listed)
    \/ \E sc \in Scopes, fi \in Filters : \E failing \in SUBSET Release :
          Cardinality(failing) <= 1 /\ Rebuild(sc, fi, failing)

RunStep ==
    \/ \E s \in Series : SkipBlocked(s) \/ Refuse(s) \/ SkipUnchanged(s) \/ Build(s)
    \/ Store \/ Finish

Next ==
    \/ Start \/ RunStep \/ Crash \/ \E s \in Series : BuildFails(s)
    \/ Reconfigure \/ Damage \/ \E r \in Release : Correct(r)

Spec == Init /\ [][Next]_vars

(*-------------------------------- properties ------------------------------*)
Group == [book : Book \cup {None}, first : Nat, last : Nat]
Member == [text : Text, chapter : Nat, position : Nat]

IsEdition(e) ==
    /\ e.series \in Series /\ e.group \in Group /\ e.source \in Source
    /\ e.bounds \in Bounds /\ e.title \in Text
    /\ DOMAIN e.members \subseteq Release /\ e.members \in [DOMAIN e.members -> Member]

(* Ranges of the variables. *)
TypeOK ==
    /\ config \in Configs /\ text \in [Release -> Text]
    /\ stored \in [Release ->
          [series : Series, text : Text, slot : Slot, legacy : BOOLEAN] \cup {None}]
    /\ lost \subseteq Stored
    /\ \A e \in active \cup damaged \cup plan.new \cup plan.gone : IsEdition(e)
    /\ kind \in {"none", "sync", "rebuild"} /\ pc \in {"idle", "plan", "store"}
    /\ scope \subseteq Source /\ filter \subseteq Series
    /\ blocked \subseteq Series /\ todo \subseteq Series
    /\ cur \in Series \cup {None}
    /\ quiet \in BOOLEAN /\ changes \in 0..MaxChanges /\ faults \in 0..MaxFaults

(* Within a series no release is in two active volumes, however groupings  *)
(* change between normal runs and restricted rebuilds.                     *)
SeriesVolumesDisjoint ==
    \A e, f \in active : e.series = f.series /\ e # f =>
        DOMAIN e.members \cap DOMAIN f.members = {}

(* An active volume has exactly one chapter for every number of its range  *)
(* and an intentional gap for every other, however late chapters, renumbered *)
(* ones and changed ranges arrive after it was frozen.                     *)
VolumesWhole ==
    \A e \in active :
        /\ \A r, q \in DOMAIN e.members :
              e.members[r].chapter = e.members[q].chapter => r = q
        /\ (e.bounds.first..e.bounds.last) \ e.bounds.gaps
              \subseteq {e.members[r].chapter : r \in DOMAIN e.members}

(* The archive of a series is sound: its volumes are whole and share nothing. *)
VolumesSound == SeriesVolumesDisjoint /\ VolumesWhole

(* A completed volume is frozen: no normal run, complete or interrupted,   *)
(* alters or drops an edition, whatever was corrected or reconfigured.     *)
NormalRunsFreeze == [][kind = "sync" => active \subseteq active']_vars

(* After a complete rebuild, with nothing stored or changed since, neither *)
(* another rebuild nor a sync, restricted or not, touches any volume.      *)
RebuildSettles ==
    pc = "plan" /\ quiet => \A s \in todo : PlanFor(s).new \cup PlanFor(s).gone = {}

(* "Never silently widen the requested scope": a rebuild restricted to some *)
(* sources neither replaces nor drops an edition made of others.           *)
RebuildStaysInScope ==
    [][\A e \in active \ active' : SourcesOf(e) \subseteq scope]_vars

(* "do not also bundle frozen members into overlapping new volumes": no     *)
(* release is in two active volumes.                                       *)
FrozenMembersNotRebundled ==
    \A e, f \in active : e # f => DOMAIN e.members \cap DOMAIN f.members = {}
===============================================================================
