-------------------------------- MODULE Classify --------------------------------
(***************************************************************************)
(* From an authored configuration to the decision about one post: the rule *)
(* set of a source in its order of evaluation (Compiled), the first rule   *)
(* that selects a post and whose guards pass (Winner), the content it      *)
(* names (Content), and what the configuration's warnings say of it.       *)
(*                                                                         *)
(* A mark is one thing a selector can look for: a collection, a tag, a     *)
(* title pattern or a file name pattern, <<kind, value>>; a post carries   *)
(* the marks that match it, its files their own.  Rules of other sources   *)
(* take no part.  Lengths of bodies count in units of the default minimum. *)
(***************************************************************************)
EXTENDS Integers, Sequences, SequencesExt, FiniteSetsExt, Functions

CONSTANTS
    Authorable,    \* the inputs an operator writes
    Post,          \* the posts of the source
    Labels,        \* the books of the second series, with the label of each
    MaxEntries     \* bound: entries of a configuration

VARIABLE authored  \* the configuration so far

NoMin == -1
DefaultMin == 1      \* MinBodyCharsDefault
NoBook == 0
Unmatched == "unmatched"

\* An authored input.  Grouped selectors are alternatives; the other form
\* names one mark, or is a fallback that selects everything.
Input == [series |-> Unmatched, book |-> NoBook, grouped |-> FALSE, marks |-> {},
          fallback |-> FALSE, min |-> NoMin, unless |-> {},
          strategy |-> "text", glob |-> {}, prefer |-> <<>>,
          priority |-> 0, release |-> 0]

Overriding(rule) == rule.release # 0

\* What entries and rules are.  text_plus_attachments takes the body, as
\* text does.
SeriesId == {"s1", "s2", Unmatched}
Strategy == {"text", "manual", "preferred", "attachment"}
Mark == STRING \X STRING
Rule == [series : SeriesId, book : Nat, grouped : BOOLEAN, marks : SUBSET Mark,
         fallback : BOOLEAN, min : Nat \cup {NoMin}, unless : SUBSET Mark,
         strategy : Strategy, glob : SUBSET STRING, prefer : Seq(STRING),
         priority : Int, release : Nat]

-----------------------------------------------------------------------------
(* The rule set: ruleset.go, authoring.go.                                 *)

\* A default applies where the input says nothing; grouped selectors always
\* have a minimum.
Inherited(cfg, rule) ==
    [rule EXCEPT !.min = CASE rule.min # NoMin -> rule.min
                           [] cfg.min # NoMin -> cfg.min
                           [] rule.grouped -> DefaultMin
                           [] OTHER -> NoMin]

ByPosition(inputs) ==
    [i \in DOMAIN inputs |->
        [inputs[i] EXCEPT !.priority = IF @ = 0 THEN 10 * i ELSE @]]

\* The labels of a series' books come before its inputs.
SeriesRules(cfg, series) ==
    LET labels == [i \in DOMAIN series.books |->
            [Input EXCEPT !.book = series.books[i].number, !.grouped = TRUE,
                          !.marks = {series.books[i].label}, !.priority = 10]]
        inputs == labels \o ByPosition(series.inputs)
    IN [i \in DOMAIN inputs |-> Inherited(cfg, [inputs[i] EXCEPT !.series = series.id])]

\* A review has a minimum only if it asks for one.
ReviewRules(cfg) ==
    LET reviews == ByPosition(cfg.review)
    IN [i \in DOMAIN reviews |->
          [Inherited(cfg, reviews[i]) EXCEPT !.min = reviews[i].min, !.strategy = "manual"]]

OverrideRules(cfg) ==
    [i \in DOMAIN cfg.overrides |->
        [Input EXCEPT !.release = cfg.overrides[i].release,
                      !.series = cfg.overrides[i].series, !.priority = 10,
                      !.strategy = IF cfg.overrides[i].series = Unmatched THEN "manual" ELSE @]]

Authored(cfg) ==
    LET legacy == [i \in DOMAIN cfg.rules |-> Inherited(cfg, cfg.rules[i])]
        series == [i \in DOMAIN cfg.series |-> SeriesRules(cfg, cfg.series[i])]
    IN legacy \o FlattenSeq(series) \o ReviewRules(cfg) \o OverrideRules(cfg)

\* Mutant: the priority of an override counts like any other.
Precedence(a, b) == a.priority < b.priority

\* Overrides first, then by priority; equals in the order they were authored.
Precedes(a, b) ==
    IF Overriding(a) # Overriding(b) THEN Overriding(a) ELSE a.priority < b.priority

Before(rules, i, j) ==
    Precedes(rules[i], rules[j]) \/ (~Precedes(rules[j], rules[i]) /\ i < j)

\* The rule at position k has k - 1 before it.
Sorted(rules) ==
    [k \in DOMAIN rules |-> rules[CHOOSE i \in DOMAIN rules :
        Cardinality({j \in DOMAIN rules : Before(rules, j, i)}) = k - 1]]

Compiled(cfg) == Sorted(Authored(cfg))

-----------------------------------------------------------------------------
(* The decision: classify.go, selectors.go.                                *)

Selects(rule, post) ==
    IF Overriding(rule) THEN rule.release = post.id
    ELSE rule.fallback \/ rule.marks \cap post.marks # {}

Guarded(rule, post) ==
    /\ post.body >= rule.min
    /\ rule.unless \cap post.marks = {}

Matches(rule, post) == Selects(rule, post) /\ Guarded(rule, post)

\* The position of the rule that decides, or 0.
Winner(rules, post) ==
    LET matching == {i \in DOMAIN rules : Matches(rules[i], post)}
    IN IF matching = {} THEN 0 ELSE Min(matching)

Review == [Input EXCEPT !.strategy = "manual"]
Deciding(rules, post) ==
    IF Winner(rules, post) = 0 THEN Review ELSE rules[Winner(rules, post)]

\* Of the files a rule admits the first of the kind it prefers, else the
\* first; 0 if there is none.
Selected(rule, files, admitted) ==
    LET candidates == {i \in admitted : rule.glob = {} \/ files[i].name \in rule.glob}
        preferred == {k \in DOMAIN rule.prefer :
                        \E i \in candidates : files[i].kind = rule.prefer[k]}
        first == IF preferred = {} THEN candidates
                 ELSE {i \in candidates : files[i].kind = rule.prefer[Min(preferred)]}
    IN IF candidates = {} THEN 0 ELSE Min(first)

\* The files a rule matched by their names.
Named(rule, post) ==
    {i \in DOMAIN post.files : <<"file", post.files[i].name>> \in rule.marks}

\* Mutant: the files it matched are forgotten.
OfferedAll(rule, post) == DOMAIN post.files

\* It is held to them.
Offered(rule, post) ==
    IF Named(rule, post) = {} THEN DOMAIN post.files ELSE Named(rule, post)

\* 0 is the body, -1 nothing, any other number a file.
Body == 0
Nothing == -1
Content(rules, post) ==
    LET rule == Deciding(rules, post)
        file == Selected(rule, post.files, Offered(rule, post))
        preferred == rule.strategy = "preferred" /\ Named(rule, post) = {}
    IN IF rule.strategy = "text" \/ (preferred /\ (file = 0 \/ ~post.files[file].here))
         THEN Body
       ELSE IF rule.strategy = "manual" \/ file = 0 THEN Nothing
       ELSE file

-----------------------------------------------------------------------------
(* Warnings: validation.go.                                                *)

\* Mutant: a fallback with guards shadows, too.
ShadowsAnyway(rule) == ~Overriding(rule) /\ rule.fallback

Shadows(rule) ==
    ~Overriding(rule) /\ rule.fallback /\ rule.min = NoMin /\ rule.unless = {}

\* Rules said to be unreachable, and pairs said to have the earlier one win.
Shadowed(rules) ==
    {i \in DOMAIN rules : ~Overriding(rules[i]) /\ \E j \in 1..(i - 1) : Shadows(rules[j])}
Duplicated(rules) ==
    {p \in (DOMAIN rules) \X (DOMAIN rules) :
        LET a == rules[p[1]]
            b == rules[p[2]]
        IN /\ p[1] < p[2] /\ ~Overriding(a) /\ ~Overriding(b)
           /\ a.marks = b.marks /\ a.fallback = b.fallback /\ a.grouped = b.grouped}

-----------------------------------------------------------------------------
(* A configuration is written entry by entry.                              *)

Series(id, books) == [id |-> id, books |-> books, inputs |-> <<>>]
Init ==
    authored \in {[min |-> min, rules |-> <<>>, review |-> <<>>, overrides |-> <<>>,
                   series |-> <<Series("s1", <<>>), Series("s2", books)>>] :
                      min \in {NoMin, DefaultMin}, books \in {<<>>, Labels}}

Entries ==
    Len(authored.rules) + Len(authored.review) + Len(authored.overrides)
    + Len(authored.series[1].inputs) + Len(authored.series[2].inputs)

\* Every rule of the old form routes to a series, too.
AddRule(input) ==
    /\ ~input.grouped
    /\ authored' = [authored EXCEPT !.rules = Append(@, [input EXCEPT !.series = "s1"])]
AddInput(i, input) ==
    authored' = [authored EXCEPT !.series[i].inputs = Append(@, input)]
AddReview(input) ==
    authored' = [authored EXCEPT !.review = Append(@, input)]

\* One override for a release, to a series or to review.
Pinned == {authored.overrides[i].release : i \in DOMAIN authored.overrides}
AddOverride(release, series) ==
    /\ release \notin Pinned
    /\ authored' = [authored EXCEPT
                       !.overrides = Append(@, [release |-> release, series |-> series])]

Next ==
    /\ Entries < MaxEntries
    /\ \/ \E input \in Authorable :
             AddRule(input) \/ AddReview(input) \/ \E i \in 1..2 : AddInput(i, input)
       \/ \E post \in Post, series \in {"s1", Unmatched} : AddOverride(post.id, series)

Spec == Init /\ [][Next]_authored

-----------------------------------------------------------------------------
\* An override decides its release, and only it: every other post goes where
\* it went before.
OverridesPin ==
    LET rules == Compiled(authored)
        free == Compiled([authored EXCEPT !.overrides = <<>>])
    IN \A post \in Post :
         LET rule == Deciding(rules, post)
         IN IF post.id \in Pinned
              THEN \E i \in DOMAIN authored.overrides :
                     /\ authored.overrides[i].release = post.id
                     /\ rule.release = post.id /\ rule.series = authored.overrides[i].series
              ELSE rule = Deciding(free, post)

\* What is said to follow a fallback and to match nothing decides no post,
\* whatever the defaults, priorities and kinds of the entries.
WarningsHold ==
    LET rules == Compiled(authored)
    IN \A post \in Post : Winner(rules, post) \notin Shadowed(rules)

\* A rule that matched files by their names never takes another one.
ContentPinned ==
    LET rules == Compiled(authored)
    IN \A post \in Post :
         Named(Deciding(rules, post), post) # {} =>
            \/ Deciding(rules, post).strategy = "text"
            \/ Content(rules, post) \in {Nothing} \cup Named(Deciding(rules, post), post)

\* "The earlier input wins": not if a guard of its own rejects the post.
EarlierWins ==
    LET rules == Compiled(authored)
    IN \A post \in Post : ~\E p \in Duplicated(rules) : Winner(rules, post) = p[2]
================================================================================
