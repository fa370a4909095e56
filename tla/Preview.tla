-------------------------------- MODULE Preview --------------------------------
(***************************************************************************)
(* What a configuration would do to a library, and under which names.  An  *)
(* operator compares a drafted configuration with the deployed one against *)
(* the stored catalog and the delivered files, promotes it and rebuilds;   *)
(* normal runs go on in between.  Every delivery names all chapters of the *)
(* catalog anew, so that one that arrives later may rename an earlier one. *)
(* There is one source, one destination, chapters and no volumes, and a    *)
(* plan is carried out in one step or fails after a part of it (the steps  *)
(* themselves are in Delivery).                                            *)
(***************************************************************************)
EXTENDS Naturals, FiniteSets

CONSTANTS
    Release,
    Decision,   \* what configuration may make of a release: series, name, copy
    Fold,       \* a name in lower case
    Kinds,      \* the destinations: "filesystem", "drop", "exec" (version 1)
    MaxEdits,   \* bound on edits of the draft
    MaxFaults,  \* bound on failed deliveries and damage
    None

VARIABLES
    kind,       \* the destination of this behaviour
    deployed,   \* the configuration runs use
    draft,      \* the one under trial
    stored,     \* releases
    unreadable, \* those whose retained document is lost
    catalog,    \* their canonical artifacts
    library,    \* published records, and what the destination holds
    pending,    \* the candidates of a saved plan
    verdict,    \* what the last comparison said
    settled,    \* the last delivery left nothing undone
    edits, faults

vars == <<kind, deployed, draft, stored, unreadable, catalog, library, pending,
          verdict, settled, edits, faults>>

Artifact == [of : Release, is : Decision, legacy : BOOLEAN]
Name == [series : {d.series : d \in Decision}, file : {d.name : d \in Decision},
         suffix : Release \cup {None}]
Delivered == [art : Artifact, name : Name]

(* A failing call, or damage. *)
Fault == faults < MaxFaults /\ faults' = faults + 1

-----------------------------------------------------------------------------
(* Mutant: names that differ in case do not collide. *)
KeyAsWritten(art) == <<art.is.series, art.is.name>>

(* Names.  Chapters whose names differ in case at most all get a suffix.   *)
Key(art) == <<art.is.series, Fold[art.is.name]>>

Named(cat) ==
    LET arts == {cat[r] : r \in {q \in Release : cat[q] # None}} IN
    {[art  |-> a,
      name |-> [series |-> a.is.series, file |-> a.is.name,
                suffix |-> IF \E b \in arts \ {a} : Key(b) = Key(a)
                           THEN a.of ELSE None]] : a \in arts}

(* A hook of version 1 can retire nothing: a chapter it has keeps its name. *)
RenamesForHook(sel) == kind = "exec" /\ \E c \in sel, o \in library.records :
    o.art.of = c.art.of /\ o.name # c.name

(* Legacy output is renamed by a rebuild, or when a saved plan says so.    *)
RenamesFrozen(sel) == kind # "drop" /\ \E c \in sel, o \in library.records :
    /\ c.art.legacy /\ (pending # None => c \notin pending)
    /\ o.art = c.art /\ o.name # c.name

Refuses(sel, rebuild) == RenamesForHook(sel) \/ (~rebuild /\ RenamesFrozen(sel))

-----------------------------------------------------------------------------
(* Planning one destination.  A planned copy has no bytes to compare.      *)
Intact(lib, c) == kind = "filesystem" => c \in lib.holds

Action(lib, c, planned) ==
    IF kind = "drop" THEN
        IF ~\E o \in lib.records : o.art.of = c.art.of THEN "add"
        ELSE IF ~planned /\ \E o \in lib.records : o.art = c.art
             THEN "unchanged" ELSE "held"
    ELSE IF ~planned /\ c \in lib.records
         THEN IF Intact(lib, c) THEN "unchanged" ELSE "repair"
    ELSE IF \E o \in lib.records : o.name = c.name THEN "replace" ELSE "add"

(* Published under another name, or with other bytes, and covered anew. *)
Retired(lib, sel, desired) ==
    IF kind # "filesystem" THEN {}
    ELSE {o \in lib.records \ desired : \E c \in sel : c.art.of = o.art.of}

(* Carrying it out.  The command keeps what it was ever given, and its     *)
(* record of an artifact is overwritten; a file is written over.           *)
Work(lib, sel) == {c \in sel : Action(lib, c, FALSE) \in {"add", "replace", "repair"}}

Put(lib, done) ==
    [records |-> done \cup (IF kind # "exec" THEN lib.records
                 ELSE {o \in lib.records : \A c \in done : c.art # o.art}),
     holds   |-> done \cup (IF kind # "filesystem" THEN lib.holds
                 ELSE {f \in lib.holds : \A c \in done : c.name # f.name})]

Finish(lib, sel) ==
    LET new == Put(lib, Work(lib, sel))
        gone == Retired(lib, sel, sel)
    IN [records |-> new.records \ gone,
        holds   |-> {f \in new.holds : \/ \E c \in sel : c.name = f.name
                                       \/ ~\E o \in gone : o.name = f.name}]

(* A saved plan comes first; when a delivery fails, its plan stays saved.  *)
Delivers(sel) ==
    LET first == IF pending = None THEN sel ELSE pending
        half == IF first = sel THEN library ELSE Finish(library, first)
    IN \/ /\ library' = Finish(half, sel)
          /\ pending' = None /\ settled' = (sel = Named(catalog'))
          /\ UNCHANGED faults
       \/ \E plan \in {<<library, first>>, <<half, sel>>} :
             /\ Fault
             /\ \E done \in SUBSET Work(plan[1], plan[2]) \ {Work(plan[1], plan[2])} :
                   library' = Put(plan[1], done)
             /\ pending' = plan[2] /\ settled' = FALSE

Publish(sel, rebuild) ==
    IF ~Refuses(sel, rebuild) THEN Delivers(sel)
    ELSE settled' = FALSE /\ UNCHANGED <<library, pending, faults>>

-----------------------------------------------------------------------------
(* What a configuration makes of a release. *)
Materializable(cfg, r) == cfg.rule[r] # None
Wanted(cfg, r) == IF Materializable(cfg, r)
                  THEN [of |-> r, is |-> cfg.rule[r], legacy |-> FALSE] ELSE None

(* A normal run takes the listed releases, and leaves legacy output alone. *)
(* It retains the document of what has changed.                            *)
Captured(listed) == [r \in Release |->
    IF r \notin listed \/ (catalog[r] # None /\ catalog[r].legacy)
    THEN catalog[r] ELSE Wanted(deployed, r)]

Run(listed) ==
    /\ listed # {} => deployed.on
    /\ stored' = stored \cup listed
    /\ catalog' = Captured(listed)
    /\ unreadable' = {r \in unreadable : catalog'[r] = catalog[r]}
    /\ Publish(Named(catalog'), FALSE)
    /\ verdict' = None
    /\ UNCHANGED <<kind, deployed, draft, edits>>

(* A rebuild takes every stored release.  One whose document is lost, or   *)
(* that cannot be rendered, is reported, and its series are not delivered. *)
Rebuilt(failing) == [r \in Release |->
    IF r \in stored \ failing THEN Wanted(deployed, r) ELSE catalog[r]]

BlockedSeries(cfg, failing) ==
    {cfg.rule[r].series : r \in {q \in failing : Materializable(cfg, q)}}
    \cup {catalog[r].is.series : r \in {q \in failing : catalog[q] # None}}

Selected(cat, blocked) == {c \in Named(cat) : c.art.is.series \notin blocked}

Rebuild(failing) ==
    /\ deployed.on /\ unreadable \subseteq failing
    /\ failing \subseteq unreadable \cup {r \in stored : Materializable(deployed, r)}
    /\ catalog' = Rebuilt(failing)
    /\ Publish(Selected(catalog', BlockedSeries(deployed, failing)), TRUE)
    /\ verdict' = None
    /\ UNCHANGED <<kind, deployed, draft, stored, unreadable, edits>>

-----------------------------------------------------------------------------
(* The preview of a rebuild under a configuration: the chapters as they    *)
(* would be, of which some are yet to be rendered.                         *)
PreviewRebuild(cfg) ==
    LET cat == [r \in Release |->
                   IF r \in stored \ unreadable THEN Wanted(cfg, r) ELSE catalog[r]]
        sel == Selected(cat, BlockedSeries(cfg, unreadable))
        Planned(c) == catalog[c.art.of] # c.art
        acts == {c \in sel : Action(library, c, Planned(c)) # "unchanged"}
        (* a planned chapter goes by the artifact there is *)
        desired == {IF Planned(c) THEN [c EXCEPT !.art = catalog[c.art.of]]
                    ELSE c : c \in sel}
    IN IF RenamesForHook(sel)
       THEN [blocked |-> TRUE, acts |-> {}, retires |-> {}]
       ELSE [blocked |-> unreadable # {}, acts |-> {c.name : c \in acts},
             retires |-> Retired(library, sel, desired)]

(* What is disabled keeps what it has delivered. *)
AppliedLibraryPlan(cfg) ==
    IF cfg.on THEN PreviewRebuild(cfg)
    ELSE [blocked |-> FALSE, acts |-> {}, retires |-> {}]

(* The releases both configurations decide: all that are stored of sources *)
(* either of them names.                                                   *)
Corpus == stored

(* A release has another classification, output or source state.           *)
DecidedAnew(r) == draft.rule[r] # deployed.rule[r] \/ draft.on # deployed.on

(* Mutant: the plan for the library is left out of the answer. *)
RequiresByRules(plan) == draft.on /\ \E r \in Corpus : DecidedAnew(r)

(* Whether the draft takes a rebuild: a decision differs, or there is      *)
(* something to write or to retire.                                        *)
RequiresRebuild(plan) ==
    \/ draft.on /\ \E r \in Corpus : DecidedAnew(r)
    \/ plan.acts # {} \/ plan.retires # {}

Compare ==
    /\ verdict = None /\ Corpus # {}
    /\ LET plan == AppliedLibraryPlan(draft) IN
       verdict' = [for |-> draft, requires |-> RequiresRebuild(plan),
                   resumes |-> pending # None, plan |-> plan]
    /\ UNCHANGED <<kind, deployed, draft, stored, unreadable, catalog, library,
                   pending, settled, edits, faults>>

(* The draft is edited, and becomes the file that runs read. *)
EditDraft ==
    /\ edits < MaxEdits /\ edits' = edits + 1
    /\ \/ draft' = [draft EXCEPT !.on = ~@]
       \/ \E r \in Release, d \in Decision \cup {None} :
             d # draft.rule[r] /\ draft' = [draft EXCEPT !.rule[r] = d]
    /\ verdict' = None
    /\ UNCHANGED <<kind, deployed, stored, unreadable, catalog, library, pending,
                   settled, faults>>

Promote ==
    /\ deployed # draft /\ deployed' = draft
    /\ UNCHANGED <<kind, draft, stored, unreadable, catalog, library, pending,
                   verdict, settled, edits, faults>>

(* A retained document or a delivered file is lost. *)
LoseInputs(r) ==
    /\ r \in stored \ unreadable /\ Fault
    /\ unreadable' = unreadable \cup {r}
    /\ verdict' = None
    /\ UNCHANGED <<kind, deployed, draft, stored, catalog, library, pending,
                   settled, edits>>

LoseFile(c) ==
    /\ kind = "filesystem" /\ c \in library.holds /\ Fault
    /\ library' = [library EXCEPT !.holds = @ \ {c}]
    /\ verdict' = None /\ settled' = FALSE
    /\ UNCHANGED <<kind, deployed, draft, stored, unreadable, catalog, pending, edits>>

(* Possibly an older version has stored and delivered a release. *)
Init ==
    /\ kind \in Kinds
    /\ deployed \in {[rule |-> rule, on |-> TRUE] : rule \in [Release -> Decision]}
    /\ draft = deployed
    /\ stored \in {{}} \cup {{r} : r \in Release}
    /\ unreadable = {}
    /\ catalog = [r \in Release |-> IF r \notin stored THEN None
                  ELSE [of |-> r, is |-> deployed.rule[r], legacy |-> TRUE]]
    /\ library = [records |-> Named(catalog),
                  holds |-> Named(catalog)]
    /\ pending = None /\ verdict = None /\ settled = TRUE
    /\ edits = 0 /\ faults = 0

Next ==
    \/ \E listed \in SUBSET Release : Run(listed)
    \/ \E failing \in SUBSET stored : Rebuild(failing)
    \/ Compare \/ EditDraft \/ Promote
    \/ \E r \in Release : LoseInputs(r)
    \/ \E c \in library.holds : LoseFile(c)

Spec == Init /\ [][Next]_vars

-----------------------------------------------------------------------------
(* "Incremental discovery, reversed discovery, and a fresh offline rebuild *)
(* of the same catalog must converge on identical paths", and "files never *)
(* overwrite each other": when a delivery is through, the catalogued       *)
(* chapters are at the names the catalog alone determines, each intact,    *)
(* and no two of these differ in case only.                                *)
Catalogued(o) == catalog[o.art.of] # None

NamesConverge ==
    settled /\ kind = "filesystem" =>
        {o \in library.records : Catalogued(o)} = Named(catalog)

NoneOverwritten ==
    settled /\ kind = "filesystem" => \A c, o \in library.holds :
        /\ Catalogued(c) => c \in Named(catalog)
        /\ Catalogued(c) /\ Catalogued(o) /\ c # o =>
              <<c.name.series, Fold[c.name.file], c.name.suffix>>
                # <<o.name.series, Fold[o.name.file], o.name.suffix>>

(* "If resolving a collision would rename a frozen volume or a legacy      *)
(* artifact awaiting migration, report a blocked collision until explicit  *)
(* rebuild": a normal run gives delivered legacy output no other name,     *)
(* unless it completes what a rebuild has begun.                           *)
FrozenKeepNames == [][\A o \in library.records, n \in library'.records :
    /\ kind # "drop" /\ pending = None /\ o.art = n.art /\ o.art.legacy
    /\ catalog[o.art.of] = o.art /\ o.name # n.name /\ n \notin library.records
    => \E failing \in SUBSET stored : Rebuild(failing)]_vars

NamesHold == [](NamesConverge /\ NoneOverwritten) /\ FrozenKeepNames

(* The comparison of a promoted draft told the truth about the rebuild     *)
(* that follows it: blocked if and only if the rebuild refuses or leaves   *)
(* out a release; nothing written or retired that was not announced; and   *)
(* when it said that no rebuild is required, and no saved plan waits, the  *)
(* library stays as it is.                                                 *)
Foretold == verdict # None /\ verdict.for = deployed

ForetoldHolds == [][
    Foretold /\ ~verdict.resumes /\ Rebuild(unreadable) /\ faults' = faults =>
         /\ verdict.plan.blocked <=> ~settled' \/ unreadable # {}
         /\ \A n \in (library'.records \ library.records)
                     \cup (library'.holds \ library.holds) :
               n.name \in verdict.plan.acts
         /\ \A o \in library.records \ library'.records :
               o \in verdict.plan.retires \/ o.name \in verdict.plan.acts
         /\ ~verdict.requires => library' = library]_vars

(* "a required rename/retirement with one of these hooks fails before      *)
(* replacement delivery": a hook of version 1 is never given a chapter     *)
(* under a second name.                                                    *)
HookNamesOnce == kind = "exec" =>
    \A c, o \in library.holds : c.art.of = o.art.of => c.name = o.name

(* The comparison "says which changes need run --rebuild to take effect":  *)
(* after a rebuild that left nothing undone, one of a configuration with   *)
(* itself asks for none.                                                   *)
RebuildQuiet == [][
    /\ stored # {} /\ Rebuild({}) /\ settled' /\ draft = deployed
    => ~RequiresRebuild(AppliedLibraryPlan(draft))']_vars

(* "files never overwrite each other": the file of a published record is   *)
(* its own, or missing, also when its release renders nothing any more.    *)
RetainedOwnFile == settled /\ kind = "filesystem" =>
    \A o \in library.records, f \in library.holds : f.name = o.name => f = o
===============================================================================
