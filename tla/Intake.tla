-------------------------------- MODULE Intake --------------------------------
(***************************************************************************)
(* The intake of one source.  A sync lists the posts of the provider's     *)
(* feed back to a cursor, decides a track for each, and brings the catalog *)
(* up to date post by post; a rebuild does the same offline for the        *)
(* releases the catalog already has.  Both write retained inputs and a     *)
(* capture to disk and then one transaction to the catalog.  Around them:  *)
(* a provider that publishes, edits and deletes, an operator who edits the *)
(* configuration, damage to files, failing calls and crashes.  Posts are   *)
(* numbered in the order of their publication.                             *)
(***************************************************************************)
EXTENDS Naturals, FiniteSets

CONSTANTS
    LastPost,       \* bound on the posts ever published
    Text,           \* the contents a post may have
    Route,          \* the decisions configuration may reach for a post
    Track,          \* the series
    TrackOf,        \* the series of a decision
    CopyOf,         \* what a decision makes of a text: equal bytes and name, or None
    Curation,       \* the publication metadata configuration may select
    Lookback,       \* posts listed before a known one ends the listing
    Keep,           \* posts a cursor remembers
    OldPosts,       \* how many posts an older version has stored
    Scopes,         \* the series filters a rebuild may be started with
    Damageable,     \* what may be damaged from outside
    MaxChanges,     \* bound on edits, deletions and configuration changes
    MaxFaults,      \* bound on crashes, failing calls and damage
    None

Post == 1..LastPost

ASSUME IntakeAssumption ==
    /\ LastPost \in Nat /\ OldPosts \in 0..LastPost
    /\ Lookback \in Nat \ {0} /\ Keep \in Nat \ {0}
    /\ Text # {} /\ Route # {} /\ Curation # {}
    /\ TrackOf \in [Route -> Track]
    /\ DOMAIN CopyOf = Route
    /\ \E r \in Route : CopyOf[r] # None
    /\ Scopes \subseteq SUBSET Track
    /\ Damageable \subseteq {"sidecars", "copy", "normalized", "raw"}
    /\ MaxChanges \in Nat /\ MaxFaults \in Nat

VARIABLES
    published,      \* the number of posts published so far
    feed,           \* those that have not been deleted
    text,           \* what each post says at the moment
    route, curation,\* the configuration
    cursor,         \* sources.sync_cursor: the posts it remembers, {} when empty
    release,        \* releases: the stored text and series of each post
    art,            \* artifacts: the canonical artifact of each release
    normalized,     \* readable normalized payload files
    raw, torn,      \* raw payload files, and those of them that are cut short
    captures,       \* captures whose sidecars are readable
    copies,         \* intact reading copies
    kind,           \* which run there is
    pc,             \* where it is
    base,           \* the cursor it has read
    docs,           \* the posts it has listed
    got,            \* their texts
    scope,          \* the series a rebuild is restricted to
    todo,           \* posts not yet handled
    plan,           \* what is to become of the post in hand
    harmed,         \* posts of which a catalogued file was damaged from outside
    quiet,          \* runs that find a post as they or their like left it
    changes, faults \* changes and failures so far

worldVars == <<published, feed, text>>
configVars == <<route, curation>>
storeVars == <<cursor, release, art>>
diskVars == <<normalized, raw, torn, captures, copies>>
runVars == <<kind, pc, base, docs, got, scope, todo, plan>>
auxVars == <<harmed, quiet, changes, faults>>
vars == <<worldVars, configVars, storeVars, diskVars, runVars, auxVars>>

Release == [text : Text, track : Track]
Capture == [post : Post, text : Text, route : Route, curation : Curation,
            legacy : BOOLEAN]
Payload == [post : Post, track : Track, text : Text]
Plan == [post : Post, text : Text, track : Track,
         art : Capture \cup {None}, action : {"build", "keep"}, torn : BOOLEAN]

ASSUME NoneAssumption ==
    None \notin Text /\ None \notin Release /\ None \notin Capture

(* The reading copy of a capture: equal bytes under equal names are one file. *)
CopyIn(c) == [post |-> c.post, text |-> c.text, copy |-> CopyOf[c.route],
              curation |-> c.curation, legacy |-> c.legacy]

(* Where the inputs retained for a release are. *)
PayloadOf(p) == [post |-> p, track |-> release[p].track, text |-> release[p].text]

Stored == {p \in Post : release[p] # None}

(*--------------------------- listing the feed ----------------------------*)
From(S, p) == {q \in S : q >= p}

(* Known posts at which a listing, newest post first, may end. *)
Stops(S, known) == {p \in S \cap known : Cardinality(From(S, p)) >= Lookback}

(* What a sync lists: the feed back to the first of them, or all of it. *)
Window(S, known) == {q \in S : \A s \in Stops(S, known) : s <= q}

(* What the cursor built from a listing remembers. *)
Newest(S) == {p \in S : Cardinality(From(S, p)) <= Keep}

(*------------------------- assessing one release -------------------------*)
Readable(p) == art[p] # None /\ art[p] \in captures
Blocked(p) == art[p] # None /\ art[p] \notin captures
Intact(p) == art[p] # None /\ CopyIn(art[p]) \in copies

(* Mutant: any output of a sync is treated as legacy output. *)
FrozenAlways(p) == kind = "sync" /\ Readable(p)

(* Mutant: the metadata is kept only while the copy is in place. *)
PinnedWhenIntact(p) == kind = "sync" /\ Readable(p) /\ ~art[p].legacy /\ Intact(p)

(* A sync keeps legacy output as it is, and the metadata of other output. *)
Frozen(p) == kind = "sync" /\ Readable(p) /\ art[p].legacy
Pinned(p) == kind = "sync" /\ Readable(p) /\ ~art[p].legacy

Materializable(p) == CopyOf[route[p]] # None
Unchanged(p) == release[p] # None /\ release[p].text = got[p]

Wanted(p) == [post |-> p, text |-> got[p], route |-> route[p],
              curation |-> IF Pinned(p) THEN art[p].curation ELSE curation,
              legacy |-> FALSE]

Current(p) == Unchanged(p) /\ Readable(p) /\ art[p] = Wanted(p)

(* The actions of a plan that write nothing. *)
BlockedAction(p) == kind = "sync" /\ Blocked(p)
LegacyAction(p) == Frozen(p) /\ Unchanged(p)

(* Mutant: a release that renders nothing is never up to date. *)
NoopActionRendered(p) ==
    /\ ~Frozen(p) /\ ~BlockedAction(p) /\ Unchanged(p)
    /\ \/ Current(p) /\ Intact(p)
       \/ /\ Materializable(p) /\ kind = "sync"
          /\ Intact(p) /\ CopyIn(art[p]) = CopyIn(Wanted(p))

NoopAction(p) ==
    /\ ~Frozen(p) /\ ~BlockedAction(p) /\ Unchanged(p)
    /\ \/ Current(p) /\ Intact(p)
       \/ ~Materializable(p) /\ art[p] = None
       \/ /\ Materializable(p) /\ kind = "sync"
          /\ Intact(p) /\ CopyIn(art[p]) = CopyIn(Wanted(p))
NothingToDo(p) == BlockedAction(p) \/ LegacyAction(p) \/ NoopAction(p)

Assessed(p) ==
    LET builds == ~Frozen(p) /\ Materializable(p) IN
    [post   |-> p,
     text   |-> got[p],
     track  |-> IF Frozen(p) THEN release[p].track ELSE TrackOf[route[p]],
     art    |-> IF builds THEN Wanted(p) ELSE IF Frozen(p) THEN art[p] ELSE None,
     action |-> IF builds THEN "build" ELSE "keep",
     torn   |-> kind = "rebuild" /\ PayloadOf(p) \in torn]

PlannedPayload == [post |-> plan.post, track |-> plan.track, text |-> plan.text]

(*---------------------------------- runs ---------------------------------*)
Fault == faults < MaxFaults /\ faults' = faults + 1

Init ==
    /\ published = OldPosts /\ feed = 1..OldPosts
    /\ \E t \in Text : text = [p \in Post |-> t]
    /\ route \in [Post -> {r \in Route : CopyOf[r] # None}]
    /\ curation \in Curation
    /\ cursor \in {{}, Newest(feed)}
    /\ release = [p \in Post |-> IF p > OldPosts THEN None
                  ELSE [text |-> text[p], track |-> TrackOf[route[p]]]]
    /\ art = [p \in Post |-> IF p > OldPosts THEN None
              ELSE [post |-> p, text |-> text[p], route |-> route[p],
                    curation |-> curation, legacy |-> TRUE]]
    /\ normalized = {PayloadOf(p) : p \in 1..OldPosts}
    /\ raw = normalized /\ torn = {}
    /\ captures = {art[p] : p \in 1..OldPosts}
    /\ copies = {CopyIn(art[p]) : p \in 1..OldPosts}
    /\ kind = "none" /\ pc = "idle" /\ base = {} /\ docs = {}
    /\ got = [p \in Post |-> None] /\ scope = {} /\ todo = {} /\ plan = None
    /\ harmed = {} /\ quiet = [p \in Post |-> {}] /\ changes = 0 /\ faults = 0

Forget ==
    /\ kind' = "none" /\ pc' = "idle" /\ base' = {} /\ docs' = {}
    /\ got' = [p \in Post |-> None] /\ scope' = {} /\ todo' = {} /\ plan' = None

Still == UNCHANGED <<worldVars, configVars, changes>>

(* A sync reads the source's row and lists the feed. *)
StartSync ==
    /\ pc = "idle"
    /\ kind' = "sync" /\ pc' = "fetch"
    /\ base' = cursor
    /\ docs' = Window(feed, cursor) /\ todo' = docs'
    /\ UNCHANGED <<got, scope, plan, storeVars, diskVars, harmed, quiet, faults>>
    /\ Still

(* Two workers fetch the posts; one that is gone fails the whole listing. *)
Fetch ==
    /\ pc = "fetch" /\ docs \subseteq feed
    /\ got' = [p \in Post |-> IF p \in docs THEN text[p] ELSE None]
    /\ pc' = "decide"
    /\ UNCHANGED <<kind, base, docs, scope, todo, plan, storeVars, diskVars,
                   harmed, quiet, faults>>
    /\ Still

(* Mutant: the listing is repeated until the post is there again. *)
PostGoneWaits == pc = "fetch" /\ ~(docs \subseteq feed) /\ UNCHANGED vars

PostGone ==
    /\ pc = "fetch" /\ ~(docs \subseteq feed)
    /\ Forget
    /\ UNCHANGED <<storeVars, diskVars, harmed, quiet, faults>>
    /\ Still

(* A rebuild takes every stored release, as retained. *)
StartRebuild ==
    /\ pc = "idle"
    /\ \E s \in Scopes : scope' = s
    /\ kind' = "rebuild" /\ pc' = "decide"
    /\ base' = cursor
    /\ docs' = {} /\ todo' = Stored
    /\ got' = [p \in Post |-> IF p \in Stored THEN release[p].text ELSE None]
    /\ UNCHANGED <<plan, storeVars, diskVars, harmed, quiet, faults>>
    /\ Still

(* Decisions depend on the whole history of the source, so every retained  *)
(* normalized payload is read first.                                       *)
HistoryReadable == \A p \in Stored : PayloadOf(p) \in normalized

Decide ==
    /\ pc = "decide" /\ HistoryReadable
    /\ pc' = "next"
    /\ UNCHANGED <<kind, base, docs, got, scope, todo, plan, storeVars, diskVars,
                   harmed, quiet, faults>>
    /\ Still

HistoryUnavailable ==
    /\ pc = "decide" /\ ~HistoryReadable
    /\ Forget
    /\ UNCHANGED <<storeVars, diskVars, harmed, quiet, faults>>
    /\ Still
(* Posts are handled newest first. *)
InHand(p) == pc = "next" /\ p \in todo /\ \A q \in todo : q <= p

(* Which runs would now find nothing to do for a post that was handled. *)
Settled(p) == (IF kind = "rebuild" THEN {"rebuild"} ELSE {})
              \cup (IF got[p] = text[p] THEN {"sync"} ELSE {})

InScope(p) == kind = "rebuild" =>
    TrackOf[route[p]] \in scope \/ release[p].track \in scope

InputsReadable(p) == PayloadOf(p) \in normalized \cap raw

OutOfScope(p) ==
    /\ InHand(p) /\ ~InScope(p)
    /\ todo' = todo \ {p}
    /\ UNCHANGED <<kind, pc, base, docs, got, scope, plan, storeVars, diskVars,
                   harmed, quiet, faults>>
    /\ Still

(* A rebuild reports a release whose retained inputs it cannot read. *)
InputsMissing(p) ==
    /\ InHand(p) /\ InScope(p)
    /\ kind = "rebuild" /\ ~InputsReadable(p)
    /\ todo' = todo \ {p}
    /\ UNCHANGED <<kind, pc, base, docs, got, scope, plan, storeVars, diskVars,
                   harmed, quiet, faults>>
    /\ Still

Handled(p) == InHand(p) /\ InScope(p) /\ (kind = "rebuild" => InputsReadable(p))

Skip(p) ==
    /\ Handled(p) /\ NothingToDo(p)
    /\ todo' = todo \ {p}
    /\ quiet' = [quiet EXCEPT ![p] = @ \cup Settled(p)]
    /\ UNCHANGED <<kind, pc, base, docs, got, scope, plan, storeVars, diskVars,
                   harmed, faults>>
    /\ Still

(* Payload files are truncated and written in place, the normalized one    *)
(* first; their directory is named for series, post and text.  A rebuild   *)
(* writes the raw bytes it has read, whether they are whole or not.        *)
Apply(p) ==
    /\ Handled(p) /\ ~NothingToDo(p)
    /\ plan' = Assessed(p)
    /\ normalized' = normalized \ {PlannedPayload'}
    /\ pc' = "normalized"
    /\ quiet' = [quiet EXCEPT ![p] = {}]
    /\ UNCHANGED <<kind, base, docs, got, scope, todo, storeVars, raw, torn,
                   captures, copies, harmed, faults>>
    /\ Still

WriteNormalized ==
    /\ pc = "normalized"
    /\ normalized' = normalized \cup {PlannedPayload}
    /\ raw' = raw \cup {PlannedPayload}
    /\ torn' = torn \cup {PlannedPayload}
    /\ pc' = "raw"
    /\ UNCHANGED <<kind, base, docs, got, scope, todo, plan, storeVars, captures,
                   copies, harmed, quiet, faults>>
    /\ Still

WriteRaw ==
    /\ pc = "raw"
    /\ torn' = IF plan.torn THEN torn ELSE torn \ {PlannedPayload}
    /\ pc' = IF plan.action = "build" THEN "copy" ELSE "save"
    /\ UNCHANGED <<kind, base, docs, got, scope, todo, plan, storeVars, normalized,
                   raw, captures, copies, harmed, quiet, faults>>
    /\ Still

(* Mutant: the artifact is catalogued before its sidecars are written. *)
InstallCopyOnly ==
    /\ pc = "copy"
    /\ copies' = copies \cup {CopyIn(plan.art)}
    /\ pc' = "save"
    /\ UNCHANGED <<kind, base, docs, got, scope, todo, plan, storeVars, normalized,
                   raw, torn, captures, harmed, quiet, faults>>
    /\ Still

(* Materialize and Restore: the copy is renamed into place, then the       *)
(* directory of sidecars; either is left alone when it is already right.   *)
InstallCopy ==
    /\ pc = "copy"
    /\ copies' = copies \cup {CopyIn(plan.art)}
    /\ pc' = "capture"
    /\ UNCHANGED <<kind, base, docs, got, scope, todo, plan, storeVars, normalized,
                   raw, torn, captures, harmed, quiet, faults>>
    /\ Still

InstallCapture ==
    /\ pc = "capture"
    /\ captures' = captures \cup {plan.art}
    /\ pc' = "save"
    /\ UNCHANGED <<kind, base, docs, got, scope, todo, plan, storeVars, normalized,
                   raw, torn, copies, harmed, quiet, faults>>
    /\ Still

(* One transaction: the source's row, written without a cursor, the        *)
(* release with its series, and its canonical artifact or none.            *)
SaveSyncSnapshot ==
    /\ pc = "save"
    /\ LET p == plan.post IN
       /\ cursor' = {}
       /\ release' = [release EXCEPT ![p] = [text |-> plan.text, track |-> plan.track]]
       /\ art' = [art EXCEPT ![p] = plan.art]
       /\ quiet' = [quiet EXCEPT ![p] = Settled(p)]
       /\ harmed' = IF plan.action = "build" THEN harmed \ {p} ELSE harmed
       /\ todo' = todo \ {p}
    /\ pc' = "next" /\ plan' = None
    /\ UNCHANGED <<kind, base, docs, got, scope, diskVars, faults>>
    /\ Still

(* Mutant: a sync, like a rebuild, goes on after a release that failed. *)
FailsGoingOn ==
    /\ pc \notin {"idle", "fetch", "decide"} /\ Fault
    /\ \E p \in todo :
          /\ IF pc = "next" THEN Handled(p) ELSE p = plan.post
          /\ todo' = todo \ {p} /\ pc' = "next" /\ plan' = None
    /\ UNCHANGED <<kind, base, docs, got, scope, storeVars, diskVars, harmed, quiet>>
    /\ Still

(* A call fails: the sync ends, a rebuild reports the release and goes on. *)
Fails ==
    /\ pc \notin {"idle", "fetch", "decide"} /\ Fault
    /\ \E p \in todo :
          /\ IF pc = "next" THEN Handled(p) ELSE p = plan.post
          /\ IF kind = "sync" THEN Forget ELSE
                /\ todo' = todo \ {p} /\ pc' = "next" /\ plan' = None
                /\ UNCHANGED <<kind, base, docs, got, scope>>
    /\ UNCHANGED <<storeVars, diskVars, harmed, quiet>>
    /\ Still

(* The process dies, or a call fails that ends the whole run. *)
Crash ==
    /\ pc # "idle" /\ Fault
    /\ Forget
    /\ UNCHANGED <<storeVars, diskVars, harmed, quiet>>
    /\ Still

(* A sync stores its cursor at the very end, a rebuild the one it has read. *)
EndSync ==
    /\ pc = "next" /\ kind = "sync" /\ todo = {}
    /\ cursor' = Newest(docs)
    /\ Forget
    /\ UNCHANGED <<release, art, diskVars, harmed, quiet, faults>>
    /\ Still

EndRebuild ==
    /\ pc = "next" /\ kind = "rebuild" /\ todo = {}
    /\ cursor' = base
    /\ Forget
    /\ UNCHANGED <<release, art, diskVars, harmed, quiet, faults>>
    /\ Still

(*------------------------------ the surroundings -------------------------*)
Change == changes < MaxChanges /\ changes' = changes + 1

Publish ==
    /\ published < LastPost
    /\ published' = published + 1
    /\ feed' = feed \cup {published + 1}
    /\ UNCHANGED <<text, configVars, storeVars, diskVars, runVars, auxVars>>

Edit(p) ==
    /\ p \in feed /\ Change
    /\ \E t \in Text \ {text[p]} : text' = [text EXCEPT ![p] = t]
    /\ quiet' = [quiet EXCEPT ![p] = @ \ {"sync"}]
    /\ UNCHANGED <<published, feed, configVars, storeVars, diskVars, runVars,
                   harmed, faults>>

Delete(p) ==
    /\ p \in feed /\ Change
    /\ feed' = feed \ {p}
    /\ UNCHANGED <<published, text, configVars, storeVars, diskVars, runVars,
                   harmed, quiet, faults>>

(* Configuration is read when a process starts. *)
Reroute(p) ==
    /\ pc = "idle" /\ Change
    /\ \E r \in Route \ {route[p]} : route' = [route EXCEPT ![p] = r]
    /\ quiet' = [quiet EXCEPT ![p] = {}]
    /\ UNCHANGED <<worldVars, curation, storeVars, diskVars, runVars, harmed, faults>>

Curate ==
    /\ pc = "idle" /\ Change
    /\ curation' \in Curation \ {curation}
    /\ quiet' = [p \in Post |-> quiet[p] \ {"rebuild"}]
    /\ UNCHANGED <<worldVars, route, storeVars, diskVars, runVars, harmed, faults>>

Damage(p) ==
    /\ pc = "idle" /\ release[p] # None /\ Fault
    /\ \E what \in Damageable :
          /\ what \in {"sidecars", "copy"} => art[p] # None
          /\ captures' = IF what = "sidecars" THEN captures \ {art[p]} ELSE captures
          /\ copies' = IF what = "copy" THEN copies \ {CopyIn(art[p])} ELSE copies
          /\ normalized' = IF what = "normalized" THEN normalized \ {PayloadOf(p)}
                           ELSE normalized
          /\ raw' = IF what = "raw" THEN raw \ {PayloadOf(p)} ELSE raw
          /\ torn' = torn \cap raw'
    /\ harmed' = harmed \cup {p}
    /\ quiet' = [quiet EXCEPT ![p] = {}]
    /\ UNCHANGED <<worldVars, configVars, storeVars, runVars, changes>>

Surroundings ==
    \/ Publish \/ Curate
    \/ \E p \in Post : Edit(p) \/ Delete(p) \/ Reroute(p) \/ Damage(p)

RunStep ==
    \/ StartSync \/ Fetch \/ PostGone \/ Decide \/ HistoryUnavailable
    \/ \E p \in Post : OutOfScope(p) \/ InputsMissing(p) \/ Skip(p) \/ Apply(p)
    \/ WriteNormalized \/ WriteRaw \/ InstallCopy \/ InstallCapture
    \/ SaveSyncSnapshot \/ EndSync \/ EndRebuild

Next ==
    \/ RunStep \/ StartRebuild \/ Fails \/ Crash \/ Surroundings

Spec == Init /\ [][Next]_vars

(* A run does not wait, and the daemon starts one sync after another,      *)
(* whenever no other run is active.                                        *)
FairSpec == Spec /\ WF_vars(RunStep) /\ SF_vars(StartSync)

(*-------------------------------- properties -----------------------------*)
(* Ranges of the variables. *)
TypeOK ==
    /\ published \in 0..LastPost /\ feed \subseteq 1..published
    /\ text \in [Post -> Text]
    /\ route \in [Post -> Route] /\ curation \in Curation
    /\ cursor \subseteq Post
    /\ release \in [Post -> Release \cup {None}]
    /\ art \in [Post -> Capture \cup {None}]
    /\ normalized \subseteq Payload /\ raw \subseteq Payload /\ torn \subseteq Payload
    /\ captures \subseteq Capture
    /\ copies \subseteq {CopyIn(c) : c \in Capture}
    /\ kind \in {"none", "sync", "rebuild"}
    /\ pc \in {"idle", "fetch", "decide", "next", "normalized", "raw", "copy",
               "capture", "save"}
    /\ base \subseteq Post /\ docs \subseteq Post /\ todo \subseteq Post
    /\ got \in [Post -> Text \cup {None}]
    /\ scope \subseteq Track
    /\ plan \in Plan \cup {None}
    /\ harmed \subseteq Post
    /\ quiet \in [Post -> SUBSET {"sync", "rebuild"}]
    /\ changes \in 0..MaxChanges /\ faults \in 0..MaxFaults

(* Wherever a sync, a rebuild or a crash leaves the cursor, a post of the  *)
(* feed that the next listing would leave out is in the catalog.  This is  *)
(* why snapshots empty the cursor and only a finished sync sets it.        *)
NothingSkipped ==
    \A p \in feed \ Window(feed, cursor) : release[p] # None

(* The canonical artifact of a release has readable sidecars and an intact *)
(* copy on disk, unless somebody else damaged them: files first, catalog   *)
(* last, and a repair undoes the damage.                                   *)
CataloguedReadable ==
    \A p \in Post \ harmed : art[p] # None => Readable(p) /\ Intact(p)

(* Release and canonical artifact belong together: no release is listed    *)
(* with the rendering of another text, except legacy output that waits for *)
(* a rebuild.                                                              *)
ArtMatchesRelease ==
    \A p \in Post : art[p] # None =>
        /\ release[p] # None /\ art[p].post = p
        /\ ~art[p].legacy => art[p].text = release[p].text

(* A run that comes to a post its predecessor has handled, with nothing    *)
(* changed since, plans no write.  A sync is quiet after a rebuild, too,   *)
(* and stays so when the metadata selection changes.                       *)
RepeatIsQuiet ==
    \A p \in Post : InHand(p) /\ kind \in quiet[p] => ~InScope(p) \/ NothingToDo(p)

(* A sync never replaces legacy output or output it cannot verify, nor     *)
(* moves a legacy release to another series, nor exchanges the metadata an *)
(* existing capture was made with.                                         *)
SyncKeepsChoices == [][kind = "sync" => \A p \in Post : art[p] # None =>
    /\ (~Readable(p) \/ art[p].legacy) => art'[p] = art[p]
    /\ art[p].legacy => release'[p].track = release[p].track
    /\ art'[p] # None => art'[p].curation = art[p].curation]_vars

(* A release that has a rendering keeps one, unless configuration has come *)
(* to a decision that renders nothing for it.                              *)
RunsKeepRenderings == [][\A p \in Post :
    art[p] # None /\ art'[p] = None => ~Materializable(p)]_vars

(* No run takes output away: a sync what was chosen before, a rebuild what *)
(* is still asked for.                                                     *)
OutputKept == SyncKeepsChoices /\ RunsKeepRenderings

(* However syncs are interrupted, every post that stays in the feed is     *)
(* stored at last, and an edit of one of the Lookback newest posts reaches *)
(* the catalog.                                                            *)
PostsArrive == \A p \in Post :
    /\ (p \in feed) ~> (p \notin feed \/ release[p] # None)
    /\ \A t \in Text :
         <>[](/\ p \in feed /\ text[p] = t
              /\ Cardinality(From(feed, p)) <= Lookback)
            => <>[](release[p] # None /\ release[p].text = t)

(* "run --rebuild is the operator path for replacing damaged sidecars from *)
(* retained release inputs": what is retained for a stored release is      *)
(* whole, if nobody else damaged it.                                       *)
RetainedInputsIntact == \A p \in Stored \ harmed :
    pc = "idle" => InputsReadable(p) /\ PayloadOf(p) \notin torn

(* "Missing inputs are reported by release/path [...] and continue         *)
(* independent work": a rebuild that returns has handled every release in  *)
(* scope whose own inputs are readable.                                    *)
IndependentWorkContinues == [][
    kind = "rebuild" /\ pc' = "idle" /\ faults' = faults =>
        \A p \in todo : ~InScope(p) \/ ~InputsReadable(p)]_vars

===============================================================================
