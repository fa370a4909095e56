------------------------------ MODULE MCAuthoring ------------------------------
(***************************************************************************)
(* What the captured posts mean: how their chapters are numbered, which    *)
(* rule of a configuration decides them, which series they propose, and    *)
(* what a drafted configuration would make of a library.  The four share   *)
(* nothing, so a behaviour is one of them and its first state says which.  *)
(***************************************************************************)
EXTENDS Numbering

CONSTANTS
    Authorable, Post, Labels, MaxEntries,
    Posts, Version, Window, First, Config, MaxChanges, MaxDismissals,
    Chapter, Decision, Fold, Kinds, MaxEdits, MaxFaults, None

VARIABLES
    subject,
    authored,
    site, stored, config, candidates, run, dismissals, changes,
    kind, deployed, draft, held, unreadable, catalog, library, pending,
    verdict, settled, edits, faults

R == INSTANCE Classify
D == INSTANCE Candidates WITH table <- candidates
P == INSTANCE Preview WITH Release <- Chapter, stored <- held

\* What operators write is typed and no override; posts have ids.
ASSUME AuthoringAssumption ==
    /\ \A input \in Authorable : input \in R!Rule /\ ~R!Overriding(input)
    /\ \A post \in Post :
          /\ post.id \in Nat \ {0} /\ post.body \in Nat
          /\ post.files \in Seq([name : STRING, kind : STRING, here : BOOLEAN])
    /\ Labels \in Seq([number : Nat, label : R!Mark])

\* A sync sees some posts.
ASSUME DiscoveryAssumption == Posts \in Nat /\ Window \in 1..Posts

discovery == <<site, stored, config, candidates, run, dismissals, changes>>
previewed == <<kind, deployed, draft, held, unreadable, catalog, library, pending,
               verdict, settled, edits, faults>>

Deciding == subject = "rules" /\ UNCHANGED <<subject, vars, discovery, previewed>>
Discovering == subject = "candidates" /\ UNCHANGED <<subject, vars, authored, previewed>>
Counting == subject = "numbers" /\ UNCHANGED <<subject, authored, discovery, previewed>>
Drafting == subject = "drafts" /\ UNCHANGED <<subject, vars, authored, discovery>>

\* A subject that is left alone has one initial state.
Settled(in, s, x) == subject # in => s = x

MCFirstSettled == CHOOSE first \in First : TRUE
MCRuleSettled == [r \in Chapter |-> CHOOSE d \in Decision : TRUE]

MCInit ==
    /\ subject \in {"numbers", "rules", "candidates", "drafts"}
    /\ Init /\ R!Init /\ D!Init /\ P!Init
    /\ Settled("numbers", table, <<>>)
    /\ Settled("rules", <<authored.min, authored.series[2].books>>, <<R!NoMin, <<>>>>)
    /\ Settled("candidates", [m \in 1..Posts |-> site[m].is], MCFirstSettled)
    /\ Settled("drafts", <<kind, deployed.rule, held>>, <<"drop", MCRuleSettled, {}>>)

MCNext ==
    \/ Counting /\ Publish
    \/ Deciding /\ R!Entries < MaxEntries /\ \E input \in Authorable : R!AddRule(input)
    \/ Deciding /\ R!Entries < MaxEntries /\ \E input \in Authorable : R!AddReview(input)
    \/ Deciding /\ R!Entries < MaxEntries
         /\ \E input \in Authorable, i \in 1..2 : R!AddInput(i, input)
    \/ Deciding /\ R!Entries < MaxEntries
         /\ \E post \in Post, to \in {"s1", R!Unmatched} : R!AddOverride(post.id, to)
    \/ \E k \in {1, Posts + 1 - Window} : \E last \in {k - 1, k, Posts} :
         Discovering /\ D!Sync(k, last)
    \/ Discovering /\ D!Judge
    \/ Discovering /\ D!Save
    \/ Discovering /\ D!GiveUp
    \/ \E i \in DOMAIN candidates : Discovering /\ D!Dismiss(i)
    \/ \E m \in 1..Posts, v \in Version : Discovering /\ D!Edit(m, v)
    \/ \E cfg \in Config : Discovering /\ D!Configure(cfg)
    \/ \E listed \in SUBSET Chapter : Drafting /\ P!Run(listed)
    \/ \E failing \in SUBSET held : Drafting /\ P!Rebuild(failing)
    \/ Drafting /\ P!Compare
    \/ Drafting /\ P!EditDraft
    \/ Drafting /\ P!Promote
    \/ \E r \in held : Drafting /\ P!LoseInputs(r)
    \/ \E c \in library.holds : Drafting /\ P!LoseFile(c)

MCSpec == MCInit /\ [][MCNext]_<<subject, vars, authored, discovery, previewed>>

-----------------------------------------------------------------------------
(* The properties of the instances.                                        *)

\* Numbering!PositionsFollowBooks and ReadsInOrder: positions are those the
\* books give, and sorting by them reads in order.
NumbersHold == PositionsFollowBooks /\ ReadsInOrder

\* Classify!OverridesPin, ContentPinned and WarningsHold: an override decides
\* its release and no other, a rule that matched files takes one of those,
\* and what is said to match nothing decides nothing.
RulesHold == subject = "rules" => R!OverridesPin /\ R!ContentPinned /\ R!WarningsHold

\* Candidates!IdsUnique and DismissalKept: what was dismissed stays so, and
\* no two candidates share an identity.
DismissalKept == subject = "candidates" => D!IdsUnique /\ D!DismissalKept

\* Candidates!EvidenceKept: older versions of a post take no evidence away.
EvidenceKept == D!EvidenceKept

\* Preview!NamesHold: deliveries converge on the names the catalog alone
\* determines, no file takes another's place, and frozen names stay.
NamesHold == P!NamesHold

\* Preview!ForetoldHolds: a rebuild does what the comparison announced.
ForetoldHolds == P!ForetoldHolds

-----------------------------------------------------------------------------
(* What the documents say and the code does not do, each shown violated by *)
(* a configuration of its own.                                             *)

\* Classify!EarlierWins: of two identical inputs the earlier one decides.
EarlierWins == subject = "rules" => R!EarlierWins

\* Candidates!DismissalAlwaysKept: also one given while a run is going on.
DismissalAlwaysKept == subject = "candidates" => D!DismissalAlwaysKept

\* Candidates!DismissedEverywhere: also under another identity.
DismissedEverywhere == subject = "candidates" => D!DismissedEverywhere

\* Preview!HookNamesOnce: a version 1 hook gets a chapter under one name.
HookNamesOnce == subject = "drafts" => P!HookNamesOnce

\* Preview!RetainedOwnFile: a retained file is not written over.
RetainedOwnFile == subject = "drafts" => P!RetainedOwnFile

\* Preview!RebuildQuiet: after a rebuild nothing asks for one.
RebuildQuiet == P!RebuildQuiet

-----------------------------------------------------------------------------
(* The instances.                                                          *)

\* Titles with chapters, books, markers, labels of their own, and parts.
MCTitle == {
    Plain,
    [Plain EXCEPT !.chapter = 1], [Plain EXCEPT !.chapter = 2],
    [Plain EXCEPT !.book = 1, !.chapter = 2], [Plain EXCEPT !.book = 2, !.chapter = 1],
    [Plain EXCEPT !.book = 2, !.chapter = 3],
    [Plain EXCEPT !.marker = 2], [Plain EXCEPT !.marker = 2, !.marked = 2],
    [Plain EXCEPT !.marker = 2, !.marked = 1, !.label = "half", !.whole = 1, !.fraction = 5],
    [Plain EXCEPT !.label = "half", !.whole = 1, !.fraction = 5],
    [Plain EXCEPT !.label = "dotted", !.whole = 2, !.fraction = 1],
    [Plain EXCEPT !.label = "letter", !.whole = 2],
    [Plain EXCEPT !.part = 1], [Plain EXCEPT !.part = 2]}
BookOf(n, first, last, start) == [number |-> n, first |-> first, last |-> last, start |-> start]
B1 == {BookOf(n, f, l, s) : n \in 1..2, f \in 1..2, l \in {0, 2}, s \in {0, 2}}
B2 == {BookOf(2, f, l, s) : f \in 1..2, l \in {0, 1}, s \in {0, 3}}
MCTables == {<<>>} \cup {<<a, b>> : a \in B1, b \in B2}
MCRelease ==
    {[title |-> t, file |-> Plain] : t \in MCTitle}
    \cup {[title |-> t, file |-> [Plain EXCEPT !.part = 1]] :
            t \in {[Plain EXCEPT !.chapter = 1], [Plain EXCEPT !.book = 1, !.chapter = 2]}}
    \cup {[title |-> [Plain EXCEPT !.book = 2], file |-> [Plain EXCEPT !.chapter = 2]]}

\* Inputs of both forms, with guards, priorities, files and fallbacks.
Tag == <<"tag", "t">>
Title == <<"title", "w">>
File == <<"file", "f">>
Draft == <<"tag", "draft">>
Single == [series |-> "unmatched", book |-> 0, grouped |-> FALSE, marks |-> {},
           fallback |-> FALSE, min |-> -1, unless |-> {}, strategy |-> "text",
           glob |-> {}, prefer |-> <<>>, priority |-> 0, release |-> 0]
Grouped == [Single EXCEPT !.grouped = TRUE]
Fallback == [Single EXCEPT !.fallback = TRUE]
MCAuthorable == {
    [Grouped EXCEPT !.marks = {Tag}],
    [Grouped EXCEPT !.marks = {Title}, !.min = 0],
    [Grouped EXCEPT !.marks = {Title}, !.unless = {Draft}, !.min = 0, !.priority = 5],
    [Grouped EXCEPT !.marks = {Title, File}, !.min = 0, !.strategy = "preferred", !.prefer = <<"pdf">>],
    [Single EXCEPT !.marks = {Tag}, !.priority = 5],
    [Single EXCEPT !.marks = {File}, !.strategy = "attachment", !.glob = {"f"}],
    Fallback,
    [Fallback EXCEPT !.priority = 5],
    [Fallback EXCEPT !.min = 0],
    [Fallback EXCEPT !.unless = {Draft}, !.priority = 5]}
Attached == {
    <<>>,
    <<[name |-> "f", kind |-> "epub", here |-> FALSE]>>,
    <<[name |-> "g", kind |-> "pdf", here |-> TRUE], [name |-> "f", kind |-> "epub", here |-> TRUE]>>}
PostOf(i, body, marks, files) ==
    [id |-> i, body |-> body, files |-> files,
     marks |-> marks \cup {<<"file", files[k].name>> : k \in DOMAIN files}]
MCPost ==
    {PostOf(1, b, marks, <<>>) : b \in 0..1, marks \in SUBSET {Tag, Title, Draft}}
    \cup {PostOf(2, 1, marks, files) : marks \in {{}, {Title}}, files \in Attached}
MCLabels == <<[number |-> 1, label |-> Tag]>>

\* Chapters of two families, a labelled post and one that says nothing.
Said(family, chapter, labels, text) ==
    [family |-> family, chapter |-> chapter, labels |-> labels, text |-> text]
F1 == Said("f", 1, {}, "a")
F2 == Said("f", 2, {}, "b")
G1 == Said("g", 1, {"l"}, "c")
Labelled == Said("none", 0, {"l"}, "d")
Silent == Said("none", 0, {}, "e")
MCVersion == {F1, F2, G1, Labelled, Silent}
MCFirst == {<<F1, F2, F2>>, <<F1, Labelled, G1>>, <<G1, Labelled, Silent>>}
Explains(mapped, known, ignored, pinned) ==
    [mapped |-> mapped, known |-> known, ignored |-> ignored, pinned |-> pinned]
MCConfig == {
    Explains({}, {}, {}, {}), Explains({"f"}, {"l"}, {}, {}), Explains({}, {}, {"l"}, {2})}

\* Two chapters whose names differ in case, in one series or in two.
MCChapter == {"p", "q"}
MCDecision == {[series |-> "s", name |-> "tale", copy |-> 1],
               [series |-> "s", name |-> "Tale", copy |-> 1],
               [series |-> "t", name |-> "tale", copy |-> 1]}
MCFold == [n \in {"tale", "Tale"} |-> "tale"]
MCKinds == {"filesystem", "drop", "exec"}
================================================================================
