----------------------------- MODULE IntakeProofs -----------------------------
(***************************************************************************)
(* Theorems about Intake, for every feed, configuration and bound.         *)
(***************************************************************************)
EXTENDS Intake, TLAPS

Writing == {"normalized", "raw", "copy", "capture", "save"}

(* What a run has in its hands, and what an idle process has not.          *)
InRun ==
    /\ kind = "none" <=> pc = "idle"
    /\ pc = "fetch" => kind = "sync" /\ todo = docs
    /\ pc \notin {"idle", "fetch"} => \A p \in todo : got[p] \in Text
    /\ pc \in Writing => /\ plan \in Plan /\ plan.post \in todo
                         /\ plan.action = "build" => plan.art \in Capture
    /\ pc \in {"copy", "capture"} => plan.action = "build"

(* Only releases have renderings. *)
Rendered == \A p \in Post : art[p] # None => release[p] # None

TypeInv == TypeOK /\ InRun /\ Rendered

(* Everything up to a post of a cursor is stored: the cursor in the        *)
(* catalog, the one the run has read, and the one it is about to make.     *)
Covers(known) == \A k \in known, q \in feed : q <= k => release[q] # None

CursorInv ==
    /\ cursor \subseteq 1..published /\ Covers(cursor)
    /\ base \subseteq 1..published /\ Covers(base)
    /\ docs \subseteq 1..published
    /\ kind # "sync" => docs = {}
    /\ \A k \in docs, q \in feed : q <= k => q \in todo \/ release[q] # None

(* The files of a plan in hand, and what it keeps when it builds nothing.  *)
PlanInv ==
    pc \in Writing =>
        /\ plan.action = "build" => plan.art.post = plan.post /\ plan.art.text = plan.text
        /\ plan.action = "keep" /\ plan.art # None =>
              plan.art = art[plan.post] /\ plan.art.legacy
        /\ plan.action = "build" /\ pc \in {"capture", "save"} => CopyIn(plan.art) \in copies
        /\ plan.action = "build" /\ pc = "save" => plan.art \in captures

FileInv == PlanInv /\ ArtMatchesRelease /\ CataloguedReadable

USE IntakeAssumption, NoneAssumption

LEMMA InitTypes == Init => TypeInv
<1> SUFFICES ASSUME Init PROVE TypeInv
  OBVIOUS
<1> USE DEF Init
<1>1. PICK t \in Text : text = [p \in Post |-> t]
  OBVIOUS
<1>2. 1..OldPosts \subseteq Post /\ published \in 0..LastPost /\ feed \subseteq 1..published
  BY DEF Post
<1>3. route \in [Post -> Route] /\ curation \in Curation /\ text \in [Post -> Text]
  BY <1>1
<1>4. cursor \subseteq Post
  BY <1>2 DEF Newest
<1>5. release \in [Post -> Release \cup {None}]
  BY <1>3 DEF Release
<1>6. /\ \A p \in 1..OldPosts : art[p] \in Capture
      /\ art \in [Post -> Capture \cup {None}]
  BY <1>2, <1>3 DEF Capture
<1>7. normalized \subseteq Payload
  <2> SUFFICES ASSUME NEW p \in 1..OldPosts PROVE PayloadOf(p) \in Payload
    OBVIOUS
  <2>1. p \in Post /\ ~(p > OldPosts)
    BY <1>2 DEF Post
  <2>2. release[p] = [text |-> text[p], track |-> TrackOf[route[p]]]
    BY <2>1
  <2> QED
    BY <2>1, <2>2, <1>3 DEF PayloadOf, Payload
<1>8. captures \subseteq Capture /\ copies \subseteq {CopyIn(c) : c \in Capture}
  <2>1. captures = {art[p] : p \in 1..OldPosts}
        /\ copies = {CopyIn(art[p]) : p \in 1..OldPosts}
    OBVIOUS
  <2> HIDE DEF Init
  <2> QED
    BY <2>1, <1>6
<1>9. quiet \in [Post -> SUBSET {"sync", "rebuild"}]
  OBVIOUS
<1>10. got \in [Post -> Text \cup {None}]
  OBVIOUS
<1>11. Rendered
  <2> SUFFICES ASSUME NEW p \in Post, art[p] # None PROVE release[p] # None
    BY DEF Rendered
  <2>1. ~(p > OldPosts)
    OBVIOUS
  <2>2. release[p] = [text |-> text[p], track |-> TrackOf[route[p]]]
    BY <2>1
  <2>3. release[p] \in Release
    BY <2>2, <1>3 DEF Release
  <2> QED
    BY <2>3
<1>12. InRun
  BY DEF InRun, Writing
<1>13. /\ kind \in {"none", "sync", "rebuild"}
       /\ pc \in {"idle", "fetch", "decide", "next", "normalized", "raw", "copy",
                  "capture", "save"}
       /\ base \subseteq Post /\ docs \subseteq Post /\ todo \subseteq Post
       /\ scope \subseteq Track /\ plan \in Plan \cup {None} /\ harmed \subseteq Post
       /\ changes \in 0..MaxChanges /\ faults \in 0..MaxFaults
       /\ raw \subseteq Payload /\ torn \subseteq Payload
  BY <1>7
<1>14. TypeOK
  BY <1>13, <1>2, <1>3, <1>4, <1>5, <1>6, <1>7, <1>8, <1>9, <1>10 DEF TypeOK
<1> QED
  BY <1>11, <1>12, <1>14 DEF TypeInv

(* What assess makes of a release in hand is a plan for it.                 *)
LEMMA AssessedPlan ==
    ASSUME TypeInv, NEW p \in Post, pc = "next", p \in todo
    PROVE  /\ Assessed(p) \in Plan
           /\ Assessed(p).post = p
           /\ Assessed(p).action = "build" => Assessed(p).art \in Capture
<1>1. got[p] \in Text /\ route[p] \in Route /\ curation \in Curation
      /\ art[p] \in Capture \cup {None} /\ release[p] \in Release \cup {None}
  BY DEF TypeInv, TypeOK, InRun
<1>2. Pinned(p) => art[p] \in Capture
  BY <1>1 DEF Pinned, Readable
<1>3. Frozen(p) => art[p] \in Capture /\ release[p] \in Release
  BY <1>1 DEF Frozen, Readable, TypeInv, Rendered
<1>4. Wanted(p) \in Capture
  BY <1>1, <1>2 DEF Wanted, Capture
<1>5. TrackOf[route[p]] \in Track
  BY <1>1
<1>6. (IF Frozen(p) THEN release[p].track ELSE TrackOf[route[p]]) \in Track
  BY <1>3, <1>5 DEF Release
<1>7. (kind = "rebuild" /\ PayloadOf(p) \in torn) \in BOOLEAN
  OBVIOUS
<1> QED
  BY <1>1, <1>3, <1>4, <1>6, <1>7 DEF Assessed, Plan

LEMMA ListedPosts == TypeOK => feed \subseteq Post /\ Window(feed, cursor) \subseteq feed
<1> SUFFICES ASSUME TypeOK PROVE feed \subseteq Post
  BY DEF Window
<1> QED
  BY DEF TypeOK, Post

LEMMA ForgetTypes == Forget =>
    /\ InRun'
    /\ kind' \in {"none", "sync", "rebuild"} /\ pc' = "idle"
    /\ base' \subseteq Post /\ docs' \subseteq Post /\ todo' \subseteq Post
    /\ got' \in [Post -> Text \cup {None}] /\ scope' \subseteq Track
    /\ plan' \in Plan \cup {None}
  BY DEF Forget, InRun, Writing

LEMMA RunTypes == TypeInv /\ RunStep => TypeInv'
<1> SUFFICES ASSUME TypeInv, RunStep PROVE TypeInv'
  OBVIOUS
<1> USE DEF TypeInv, TypeOK, InRun, Rendered, Writing, Still,
            worldVars, configVars, storeVars, diskVars, runVars, auxVars
<1>1. CASE StartSync
  BY <1>1, ListedPosts DEF StartSync
<1>2. CASE Fetch
  BY <1>2 DEF Fetch
<1>3. CASE PostGone
  BY <1>3, ForgetTypes DEF PostGone
<1>4. CASE Decide
  BY <1>4 DEF Decide
<1>5. CASE HistoryUnavailable
  BY <1>5, ForgetTypes DEF HistoryUnavailable
<1>6. ASSUME NEW p \in Post, OutOfScope(p) PROVE TypeInv'
  BY <1>6 DEF OutOfScope, InHand
<1>7. ASSUME NEW p \in Post, InputsMissing(p) PROVE TypeInv'
  BY <1>7 DEF InputsMissing, InHand
<1>8. ASSUME NEW p \in Post, Skip(p) PROVE TypeInv'
  BY <1>8 DEF Skip, Handled, InHand, Settled
<1>9. ASSUME NEW p \in Post, Apply(p) PROVE TypeInv'
  BY <1>9, AssessedPlan DEF Apply, Handled, InHand
<1>10. CASE WriteNormalized
  BY <1>10 DEF WriteNormalized, PlannedPayload, Plan, Payload
<1>11. CASE WriteRaw
  BY <1>11 DEF WriteRaw, PlannedPayload, Plan, Payload
<1>12. CASE InstallCopy
  BY <1>12 DEF InstallCopy, Plan
<1>13. CASE InstallCapture
  BY <1>13 DEF InstallCapture, Plan
<1>14. CASE SaveSyncSnapshot
  <2>1. plan \in Plan /\ plan.post \in todo /\ plan.post \in Post
    BY <1>14 DEF SaveSyncSnapshot
  <2>2. [text |-> plan.text, track |-> plan.track] \in Release
    BY <2>1 DEF Plan, Release
  <2>3. release' \in [Post -> Release \cup {None}]
        /\ art' \in [Post -> Capture \cup {None}] /\ Rendered'
    BY <1>14, <2>1, <2>2 DEF SaveSyncSnapshot, Plan
  <2>4. quiet' \in [Post -> SUBSET {"sync", "rebuild"}]
    BY <1>14, <2>1 DEF SaveSyncSnapshot, Settled
  <2> QED
    BY <1>14, <2>3, <2>4 DEF SaveSyncSnapshot
<1>15. CASE EndSync
  BY <1>15, ForgetTypes DEF EndSync, Newest
<1>16. CASE EndRebuild
  BY <1>16, ForgetTypes DEF EndRebuild
<1> QED
  BY <1>1, <1>2, <1>3, <1>4, <1>5, <1>6, <1>7, <1>8, <1>9, <1>10, <1>11, <1>12,
     <1>13, <1>14, <1>15, <1>16 DEF RunStep

LEMMA OtherTypes ==
    TypeInv /\ (StartRebuild \/ Fails \/ Crash \/ Surroundings) => TypeInv'
<1> SUFFICES ASSUME TypeInv, StartRebuild \/ Fails \/ Crash \/ Surroundings
             PROVE  TypeInv'
  OBVIOUS
<1> USE DEF TypeInv, TypeOK, InRun, Rendered, Writing, Still, Fault, Change,
            worldVars, configVars, storeVars, diskVars, runVars, auxVars
<1>1. CASE StartRebuild
  BY <1>1 DEF StartRebuild, Stored, Release
<1>2. CASE Fails
  BY <1>2, ForgetTypes DEF Fails, Forget
<1>3. CASE Crash
  BY <1>3, ForgetTypes DEF Crash
<1>4. CASE Publish
  BY <1>4 DEF Publish
<1>5. CASE Curate
  BY <1>5 DEF Curate
<1>6. ASSUME NEW p \in Post, Edit(p) PROVE TypeInv'
  BY <1>6 DEF Edit
<1>7. ASSUME NEW p \in Post, Delete(p) PROVE TypeInv'
  BY <1>7 DEF Delete
<1>8. ASSUME NEW p \in Post, Reroute(p) PROVE TypeInv'
  BY <1>8 DEF Reroute
<1>9. ASSUME NEW p \in Post, Damage(p) PROVE TypeInv'
  BY <1>9 DEF Damage
<1> QED
  BY <1>1, <1>2, <1>3, <1>4, <1>5, <1>6, <1>7, <1>8, <1>9 DEF Surroundings

LEMMA TypesAlways == Spec => []TypeInv
<1>1. TypeInv /\ [Next]_vars => TypeInv'
  <2>1. TypeInv /\ UNCHANGED vars => TypeInv'
    BY DEF TypeInv, TypeOK, InRun, Rendered, Writing, vars, worldVars, configVars,
           storeVars, diskVars, runVars, auxVars
  <2> QED
    BY <2>1, RunTypes, OtherTypes DEF Next
<1> QED
  BY InitTypes, <1>1, PTL DEF Spec

(* The variables of the intake keep their types, whatever happens.         *)
THEOREM IntakeTypes == Spec => []TypeOK
<1>1. TypeInv => TypeOK
  BY DEF TypeInv
<1> QED
  BY TypesAlways, <1>1, PTL

(*------------------------- no post is left behind ------------------------*)
LEMMA InitCursor == Init => CursorInv
<1> SUFFICES ASSUME Init PROVE CursorInv
  OBVIOUS
<1>1. feed = 1..published /\ cursor \subseteq feed
  BY DEF Init, Newest
<1>2. \A q \in feed : q \in Post /\ ~(q > OldPosts)
  BY <1>1 DEF Init, Post
<1>3. \A q \in feed : release[q] # None
  <2> SUFFICES ASSUME NEW q \in feed PROVE release[q] # None
    OBVIOUS
  <2>1. release[q] = [text |-> text[q], track |-> TrackOf[route[q]]]
    BY <1>2 DEF Init
  <2>2. text[q] \in Text /\ TrackOf[route[q]] \in Track
    BY <1>2 DEF Init
  <2> QED
    BY <2>1, <2>2 DEF Release
<1> QED
  BY <1>1, <1>3 DEF CursorInv, Covers, Init

(* What the next listing leaves out is older than a post of the cursor.    *)
LEMMA LeftOut ==
    ASSUME NEW known, Covers(known), NEW q \in feed, q \notin Window(feed, known),
           \A p, s \in feed : ~(s <= p) => p <= s
    PROVE  release[q] # None
<1>1. PICK s \in Stops(feed, known) : ~(s <= q)
  BY DEF Window
<1>2. s \in feed /\ s \in known
  BY DEF Stops
<1> QED
  BY <1>1, <1>2 DEF Covers

LEMMA FeedOrder == TypeOK => \A p, s \in feed : ~(s <= p) => p <= s
  BY DEF TypeOK

(* A sync passes over a post without a write only if it is stored.         *)
LEMMA SkippedIsStored ==
    ASSUME TypeInv, NEW p \in Post, NothingToDo(p) PROVE release[p] # None
  BY DEF NothingToDo, BlockedAction, Blocked, LegacyAction, NoopAction, Unchanged,
         TypeInv, Rendered

LEMMA RunCursor == TypeInv /\ CursorInv /\ RunStep => CursorInv'
<1> SUFFICES ASSUME TypeInv, CursorInv, RunStep PROVE CursorInv'
  OBVIOUS
<1> USE DEF CursorInv, Covers, Still, worldVars, configVars, storeVars, diskVars
<1>0. TypeOK /\ InRun
  BY DEF TypeInv
<1>1. CASE StartSync
  <2>1. \A q \in feed : q \in Window(feed, cursor) \/ release[q] # None
    BY <1>0, FeedOrder, LeftOut
  <2>2. Window(feed, cursor) \subseteq 1..published
    BY <1>0, ListedPosts DEF TypeOK
  <2> QED
    BY <1>1, <2>1, <2>2 DEF StartSync
<1>2. CASE Fetch
  BY <1>2 DEF Fetch
<1>3. CASE PostGone
  BY <1>3 DEF PostGone, Forget
<1>4. CASE Decide
  BY <1>4 DEF Decide
<1>5. CASE HistoryUnavailable
  BY <1>5 DEF HistoryUnavailable, Forget
<1>6. ASSUME NEW p \in Post, OutOfScope(p) PROVE CursorInv'
  BY <1>6 DEF OutOfScope, InScope
<1>7. ASSUME NEW p \in Post, InputsMissing(p) PROVE CursorInv'
  BY <1>7 DEF InputsMissing
<1>8. ASSUME NEW p \in Post, Skip(p) PROVE CursorInv'
  BY <1>8, SkippedIsStored DEF Skip
<1>9. ASSUME NEW p \in Post, Apply(p) PROVE CursorInv'
  BY <1>9 DEF Apply
<1>10. CASE WriteNormalized
  BY <1>10 DEF WriteNormalized
<1>11. CASE WriteRaw
  BY <1>11 DEF WriteRaw
<1>12. CASE InstallCopy
  BY <1>12 DEF InstallCopy
<1>13. CASE InstallCapture
  BY <1>13 DEF InstallCapture
<1>14. CASE SaveSyncSnapshot
  <2>1. plan \in Plan /\ plan.post \in Post
    BY <1>0, <1>14 DEF SaveSyncSnapshot, InRun, TypeOK, Writing
  <2>2. [text |-> plan.text, track |-> plan.track] # None
    BY <2>1 DEF Plan, Release
  <2>3. \A q \in Post : release'[q] # None <=> release[q] # None \/ q = plan.post
    BY <1>0, <1>14, <2>1, <2>2 DEF SaveSyncSnapshot, TypeOK
  <2>4. feed \subseteq Post
    BY <1>0, ListedPosts
  <2> QED
    BY <1>14, <2>3, <2>4 DEF SaveSyncSnapshot
<1>15. CASE EndSync
  <2>1. Newest(docs) \subseteq docs
    BY DEF Newest
  <2> QED
    BY <1>15, <2>1 DEF EndSync, Forget
<1>16. CASE EndRebuild
  BY <1>16 DEF EndRebuild, Forget
<1> QED
  BY <1>1, <1>2, <1>3, <1>4, <1>5, <1>6, <1>7, <1>8, <1>9, <1>10, <1>11, <1>12,
     <1>13, <1>14, <1>15, <1>16 DEF RunStep

LEMMA OtherCursor ==
    TypeInv /\ CursorInv /\ (StartRebuild \/ Fails \/ Crash \/ Surroundings)
        => CursorInv'
<1> SUFFICES ASSUME TypeInv, CursorInv, StartRebuild \/ Fails \/ Crash \/ Surroundings
             PROVE  CursorInv'
  OBVIOUS
<1> USE DEF CursorInv, Covers, Still, worldVars, configVars, storeVars, diskVars,
            runVars, auxVars
<1>0. TypeOK /\ InRun
  BY DEF TypeInv
<1>1. CASE StartRebuild
  BY <1>1 DEF StartRebuild
<1>2. CASE Fails
  <2>1. CASE kind = "sync"
    BY <1>2, <2>1 DEF Fails, Forget
  <2>2. CASE kind # "sync"
    BY <1>2, <2>2 DEF Fails
  <2> QED
    BY <2>1, <2>2
<1>3. CASE Crash
  BY <1>3 DEF Crash, Forget
<1>4. CASE Publish
  <2>1. published' \in Nat /\ published' = published + 1 /\ published \in Nat
        /\ feed' = feed \cup {published + 1}
    BY <1>0, <1>4 DEF Publish, TypeOK
  <2>2. \A k \in 1..published, q \in feed' : q <= k => q \in feed
    BY <2>1
  <2>3. 1..published \subseteq 1..published'
    BY <2>1
  <2>4. /\ cursor' = cursor /\ base' = base /\ docs' = docs
        /\ todo' = todo /\ release' = release /\ kind' = kind
    BY <1>4 DEF Publish
  <2> QED
    BY <2>2, <2>3, <2>4
<1>5. CASE Curate
  BY <1>5 DEF Curate
<1>6. ASSUME NEW p \in Post, Edit(p) PROVE CursorInv'
  BY <1>6 DEF Edit
<1>7. ASSUME NEW p \in Post, Delete(p) PROVE CursorInv'
  BY <1>7 DEF Delete
<1>8. ASSUME NEW p \in Post, Reroute(p) PROVE CursorInv'
  BY <1>8 DEF Reroute
<1>9. ASSUME NEW p \in Post, Damage(p) PROVE CursorInv'
  BY <1>9 DEF Damage
<1> QED
  BY <1>1, <1>2, <1>3, <1>4, <1>5, <1>6, <1>7, <1>8, <1>9 DEF Surroundings

(* Wherever syncs, rebuilds, failures and crashes leave the cursor, what   *)
(* the next listing leaves out is in the catalog.                          *)
THEOREM NoPostLeftBehind == Spec => []NothingSkipped
<1>1. TypeInv /\ CursorInv /\ [Next]_vars => CursorInv'
  <2>1. CursorInv /\ UNCHANGED vars => CursorInv'
    BY DEF CursorInv, Covers, vars, worldVars, storeVars, runVars
  <2> QED
    BY <2>1, RunCursor, OtherCursor DEF Next
<1>2. TypeInv /\ CursorInv => NothingSkipped
  BY FeedOrder, LeftOut DEF TypeInv, CursorInv, NothingSkipped
<1> QED
  BY TypesAlways, InitCursor, <1>1, <1>2, PTL DEF Spec

(*------------------------ the catalog and its files ----------------------*)
LEMMA InitFiles == Init => FileInv
<1> SUFFICES ASSUME Init PROVE FileInv
  OBVIOUS
<1>1. PlanInv
  BY DEF Init, PlanInv, Writing
<1>2. ASSUME NEW p \in Post, art[p] # None
      PROVE  /\ release[p] # None /\ art[p].post = p /\ art[p].legacy
             /\ art[p] \in captures /\ CopyIn(art[p]) \in copies
  <2>1. ~(p > OldPosts) /\ TypeInv
    BY <1>2, InitTypes DEF Init
  <2>2. art[p] = [post |-> p, text |-> text[p], route |-> route[p],
                  curation |-> curation, legacy |-> TRUE]
    BY <2>1 DEF Init
  <2>3. p \in 1..OldPosts
    BY <2>1 DEF Post
  <2> QED
    BY <1>2, <2>1, <2>2, <2>3 DEF Init, TypeInv, Rendered
<1> QED
  BY <1>1, <1>2 DEF FileInv, ArtMatchesRelease, CataloguedReadable, Readable, Intact

(* A plan in hand satisfies PlanInv when assess has made it.               *)
LEMMA AssessedFiles ==
    ASSUME TypeInv, FileInv, NEW p \in Post
    PROVE  /\ Assessed(p).action = "build" =>
                Assessed(p).art.post = p /\ Assessed(p).art.text = Assessed(p).text
           /\ Assessed(p).action = "keep" /\ Assessed(p).art # None =>
                Assessed(p).art = art[p] /\ art[p].legacy
<1>1. Frozen(p) => art[p].legacy
  BY DEF Frozen
<1>2. Wanted(p).post = p /\ Wanted(p).text = got[p]
  BY DEF Wanted
<1> QED
  BY <1>1, <1>2 DEF Assessed

(* Nothing that leaves catalog and plan alone and only adds files hurts.   *)
LEMMA FilesKept ==
    ASSUME FileInv, UNCHANGED <<release, art, harmed>>,
           captures \subseteq captures', copies \subseteq copies',
           pc' \notin Writing
    PROVE  FileInv'
  BY DEF FileInv, PlanInv, ArtMatchesRelease, CataloguedReadable, Readable, Intact, CopyIn

LEMMA RunFiles == TypeInv /\ FileInv /\ RunStep => FileInv'
<1> SUFFICES ASSUME TypeInv, FileInv, RunStep PROVE FileInv'
  OBVIOUS
<1> USE DEF Still, worldVars, configVars, storeVars, diskVars, Writing
<1>1. CASE StartSync
  BY <1>1, FilesKept DEF StartSync
<1>2. CASE Fetch
  BY <1>2, FilesKept DEF Fetch
<1>3. CASE PostGone
  BY <1>3, FilesKept DEF PostGone, Forget
<1>4. CASE Decide
  BY <1>4, FilesKept DEF Decide
<1>5. CASE HistoryUnavailable
  BY <1>5, FilesKept DEF HistoryUnavailable, Forget
<1>6. ASSUME NEW p \in Post, OutOfScope(p) PROVE FileInv'
  BY <1>6, FilesKept DEF OutOfScope, InHand
<1>7. ASSUME NEW p \in Post, InputsMissing(p) PROVE FileInv'
  BY <1>7, FilesKept DEF InputsMissing, InHand
<1>8. ASSUME NEW p \in Post, Skip(p) PROVE FileInv'
  BY <1>8, FilesKept DEF Skip, Handled, InHand
<1>9. ASSUME NEW p \in Post, Apply(p) PROVE FileInv'
  <2>1. pc' = "normalized" /\ plan' = Assessed(p) /\ p \in todo /\ pc = "next"
        /\ UNCHANGED <<release, art, harmed, captures, copies>>
    BY <1>9 DEF Apply, Handled, InHand
  <2>2. Assessed(p).post = p
    BY <2>1, AssessedPlan
  <2>3. PlanInv'
    BY <2>1, <2>2, AssessedFiles DEF PlanInv
  <2>4. ArtMatchesRelease' /\ CataloguedReadable'
    BY <2>1 DEF FileInv, ArtMatchesRelease, CataloguedReadable, Readable, Intact, CopyIn
  <2> QED
    BY <2>3, <2>4 DEF FileInv
<1>10. CASE WriteNormalized
  BY <1>10 DEF WriteNormalized, FileInv, PlanInv, ArtMatchesRelease,
               CataloguedReadable, Readable, Intact, CopyIn
<1>11. CASE WriteRaw
  BY <1>11 DEF WriteRaw, FileInv, PlanInv, ArtMatchesRelease,
               CataloguedReadable, Readable, Intact, CopyIn
<1>12. CASE InstallCopy
  BY <1>12 DEF InstallCopy, FileInv, PlanInv, ArtMatchesRelease,
               CataloguedReadable, Readable, Intact, CopyIn
<1>13. CASE InstallCapture
  BY <1>13 DEF InstallCapture, FileInv, PlanInv, ArtMatchesRelease,
               CataloguedReadable, Readable, Intact, CopyIn
<1>14. CASE SaveSyncSnapshot
  <2> DEFINE p == plan.post
  <2>1. plan \in Plan /\ p \in Post
    BY <1>14 DEF SaveSyncSnapshot, TypeInv, InRun, TypeOK
  <2>2. /\ release' = [release EXCEPT ![p] = [text |-> plan.text, track |-> plan.track]]
        /\ art' = [art EXCEPT ![p] = plan.art]
        /\ harmed' = IF plan.action = "build" THEN harmed \ {p} ELSE harmed
        /\ UNCHANGED <<captures, copies>>
        /\ pc = "save" /\ pc' = "next"
    BY <1>14 DEF SaveSyncSnapshot
  <2>3. release \in [Post -> Release \cup {None}] /\ art \in [Post -> Capture \cup {None}]
    BY DEF TypeInv, TypeOK
  <2>4. ASSUME NEW q \in Post, q # p, art'[q] # None
        PROVE  /\ release'[q] # None /\ art'[q].post = q
               /\ ~art'[q].legacy => art'[q].text = release'[q].text
               /\ q \notin harmed' => art'[q] \in captures' /\ CopyIn(art'[q]) \in copies'
    BY <2>1, <2>2, <2>3, <2>4 DEF FileInv, ArtMatchesRelease, CataloguedReadable,
                                  Readable, Intact
  <2>5. release'[p] # None /\ release'[p].text = plan.text /\ art'[p] = plan.art
    BY <2>1, <2>2, <2>3 DEF Plan, Release
  <2>6. CASE plan.action = "build"
    BY <2>1, <2>2, <2>4, <2>5, <2>6 DEF FileInv, PlanInv, ArtMatchesRelease,
                                       CataloguedReadable, Readable, Intact, CopyIn
  <2>7. CASE plan.action = "keep"
    BY <2>1, <2>2, <2>4, <2>5, <2>7 DEF FileInv, PlanInv, ArtMatchesRelease,
                                       CataloguedReadable, Readable, Intact, CopyIn
  <2> QED
    BY <2>1, <2>6, <2>7 DEF Plan
<1>15. CASE EndSync
  BY <1>15, FilesKept DEF EndSync, Forget
<1>16. CASE EndRebuild
  BY <1>16, FilesKept DEF EndRebuild, Forget
<1> QED
  BY <1>1, <1>2, <1>3, <1>4, <1>5, <1>6, <1>7, <1>8, <1>9, <1>10, <1>11, <1>12,
     <1>13, <1>14, <1>15, <1>16 DEF RunStep

LEMMA OtherFiles ==
    TypeInv /\ FileInv /\ (StartRebuild \/ Fails \/ Crash \/ Surroundings) => FileInv'
<1> SUFFICES ASSUME TypeInv, FileInv, StartRebuild \/ Fails \/ Crash \/ Surroundings
             PROVE  FileInv'
  OBVIOUS
<1> USE DEF Still, worldVars, configVars, storeVars, diskVars, runVars, auxVars
<1>0. ASSUME UNCHANGED <<storeVars, diskVars, harmed, pc, plan>> PROVE FileInv'
  BY <1>0 DEF FileInv, PlanInv, ArtMatchesRelease, CataloguedReadable, Readable,
              Intact, CopyIn
<1>1. CASE StartRebuild
  BY <1>1, FilesKept DEF StartRebuild, Writing
<1>2. CASE Fails
  <2>1. pc' \notin Writing
    BY <1>2 DEF Fails, Forget, Writing
  <2> QED
    BY <1>2, <2>1, FilesKept DEF Fails
<1>3. CASE Crash
  BY <1>3, FilesKept DEF Crash, Forget, Writing
<1>4. CASE Publish
  BY <1>4, <1>0 DEF Publish
<1>5. CASE Curate
  BY <1>5, <1>0 DEF Curate
<1>6. ASSUME NEW p \in Post, Edit(p) PROVE FileInv'
  BY <1>6, <1>0 DEF Edit
<1>7. ASSUME NEW p \in Post, Delete(p) PROVE FileInv'
  BY <1>7, <1>0 DEF Delete
<1>8. ASSUME NEW p \in Post, Reroute(p) PROVE FileInv'
  BY <1>8, <1>0 DEF Reroute
<1>9. ASSUME NEW p \in Post, Damage(p) PROVE FileInv'
  <2>1. /\ captures \ {art[p]} \subseteq captures'
        /\ copies \ {CopyIn(art[p])} \subseteq copies'
        /\ art[p] = None => UNCHANGED <<captures, copies>>
        /\ harmed' = harmed \cup {p}
        /\ pc' \notin Writing /\ UNCHANGED <<release, art>>
    BY <1>9 DEF Damage, Writing
  <2>2. ASSUME NEW q \in Post, q # p, art[q] # None, art[p] # None
        PROVE  art[q] # art[p] /\ CopyIn(art[q]) # CopyIn(art[p])
    BY <2>2 DEF FileInv, ArtMatchesRelease, CopyIn
  <2>3. CataloguedReadable'
    <3> SUFFICES ASSUME NEW q \in Post, q \notin harmed', art'[q] # None
                 PROVE  art'[q] \in captures' /\ CopyIn(art'[q]) \in copies'
      BY DEF CataloguedReadable, Readable, Intact, CopyIn
    <3>1. q # p /\ art'[q] = art[q] /\ art[q] \in captures /\ CopyIn(art[q]) \in copies
      BY <2>1 DEF FileInv, CataloguedReadable, Readable, Intact
    <3> QED
      BY <2>1, <2>2, <3>1
  <2> QED
    BY <2>1, <2>3 DEF FileInv, PlanInv, ArtMatchesRelease
<1> QED
  BY <1>1, <1>2, <1>3, <1>4, <1>5, <1>6, <1>7, <1>8, <1>9 DEF Surroundings

LEMMA FilesAlways == Spec => []FileInv
<1>1. FileInv /\ UNCHANGED vars => FileInv'
  BY DEF FileInv, PlanInv, ArtMatchesRelease, CataloguedReadable, Readable, Intact,
         CopyIn, vars, storeVars, diskVars, runVars, auxVars
<1>2. TypeInv /\ FileInv /\ [Next]_vars => FileInv'
  BY <1>1, RunFiles, OtherFiles DEF Next
<1> QED
  BY TypesAlways, InitFiles, <1>2, PTL DEF Spec

(* Files first, catalog last: what the catalog lists can be read back,     *)
(* unless somebody else damaged it.                                        *)
THEOREM CatalogueHasItsFiles == Spec => []CataloguedReadable
<1>1. FileInv => CataloguedReadable
  BY DEF FileInv
<1> QED
  BY FilesAlways, <1>1, PTL

(* A release is listed with the rendering of the text it is stored with,   *)
(* unless that is legacy output.                                           *)
THEOREM RenderingsMatchReleases == Spec => []ArtMatchesRelease
<1>1. FileInv => ArtMatchesRelease
  BY DEF FileInv
<1> QED
  BY FilesAlways, <1>1, PTL

(*-------------------------- what a run leaves alone ----------------------*)
(* What the plan in hand does to an artifact that the catalog has.         *)
ChoiceInv ==
    pc \in Writing /\ art[plan.post] # None =>
        LET p == plan.post IN
        /\ plan.art = None => ~Materializable(p)
        /\ kind = "sync" => /\ Readable(p)
                            /\ art[p].legacy => /\ plan.art = art[p]
                                                /\ plan.track = release[p].track
                            /\ plan.art # None => plan.art.curation = art[p].curation

LEMMA AssessedChoices ==
    ASSUME TypeInv, NEW p \in Post, ~NothingToDo(p), art[p] # None,
           pc = "next", p \in todo
    PROVE  /\ Assessed(p).art = None => ~Materializable(p)
           /\ kind = "sync" =>
                /\ Readable(p)
                /\ art[p].legacy => /\ Assessed(p).art = art[p]
                                    /\ Assessed(p).track = release[p].track
                /\ Assessed(p).art # None => Assessed(p).art.curation = art[p].curation
<1>1. kind = "sync" => Readable(p)
  BY DEF NothingToDo, BlockedAction, Blocked, Readable
<1>2. ~Frozen(p) /\ Materializable(p) => Assessed(p).art \in Capture
  BY AssessedPlan DEF Assessed
<1>3. Frozen(p) => Assessed(p).art = art[p] /\ Assessed(p).track = release[p].track
  BY DEF Assessed
<1>4. ~Frozen(p) => Assessed(p).art \in {Wanted(p), None}
  BY DEF Assessed
<1>5. kind = "sync" /\ ~Frozen(p) =>
          ~art[p].legacy /\ Wanted(p).curation = art[p].curation
  BY <1>1 DEF Frozen, Pinned, Wanted
<1>6. Frozen(p) => kind = "sync"
  BY DEF Frozen
<1> QED
  BY <1>1, <1>2, <1>3, <1>4, <1>5, <1>6

LEMMA Choices == TypeInv /\ ChoiceInv /\ [Next]_vars => ChoiceInv'
<1> SUFFICES ASSUME TypeInv, ChoiceInv, [Next]_vars PROVE ChoiceInv'
  OBVIOUS
<1> USE DEF Still, worldVars, configVars, storeVars, diskVars, runVars, auxVars
<1>1. CASE pc' \notin Writing
  BY <1>1 DEF ChoiceInv
<1>2. ASSUME NEW p \in Post, Apply(p) PROVE ChoiceInv'
  <2>1. /\ plan' = Assessed(p) /\ p \in todo /\ pc = "next" /\ ~NothingToDo(p)
        /\ UNCHANGED <<release, art, route, kind, captures>>
    BY <1>2 DEF Apply, Handled, InHand
  <2>2. plan'.post = p
    BY <2>1, AssessedPlan
  <2> QED
    BY <2>1, <2>2, AssessedChoices DEF ChoiceInv, Materializable, Readable
<1>3. ASSUME pc \in Writing, captures \subseteq captures',
             UNCHANGED <<release, art, route, kind, plan>>
      PROVE  ChoiceInv'
  BY <1>3 DEF ChoiceInv, Materializable, Readable
<1>4. CASE WriteNormalized
  BY <1>4, <1>3 DEF WriteNormalized, Writing
<1>5. CASE WriteRaw
  BY <1>5, <1>3 DEF WriteRaw, Writing
<1>6. CASE InstallCopy
  BY <1>6, <1>3 DEF InstallCopy, Writing
<1>7. CASE InstallCapture
  BY <1>7, <1>3 DEF InstallCapture, Writing
<1>8. CASE Publish
  BY <1>1, <1>3, <1>8 DEF Publish
<1>9. ASSUME NEW p \in Post, Edit(p) PROVE ChoiceInv'
  BY <1>1, <1>3, <1>9 DEF Edit
<1>10. ASSUME NEW p \in Post, Delete(p) PROVE ChoiceInv'
  BY <1>1, <1>3, <1>10 DEF Delete
<1>11. CASE UNCHANGED vars
  BY <1>1, <1>3, <1>11 DEF vars
<1>12. CASE StartSync \/ Fetch \/ PostGone \/ Decide \/ HistoryUnavailable
            \/ SaveSyncSnapshot \/ EndSync \/ EndRebuild \/ StartRebuild
            \/ Fails \/ Crash \/ Curate
  <2>1. pc' \notin Writing
    BY <1>12 DEF StartSync, Fetch, PostGone, Decide, HistoryUnavailable,
                 SaveSyncSnapshot, EndSync, EndRebuild, StartRebuild, Fails, Crash,
                 Curate, Forget, Writing
  <2> QED
    BY <2>1, <1>1
<1>13. ASSUME NEW p \in Post,
              OutOfScope(p) \/ InputsMissing(p) \/ Skip(p) \/ Reroute(p) \/ Damage(p)
       PROVE  ChoiceInv'
  <2>1. pc' \notin Writing
    BY <1>13 DEF OutOfScope, InputsMissing, Skip, Reroute, Damage, Handled, InHand,
                 Writing
  <2> QED
    BY <2>1, <1>1
<1> QED
  BY <1>2, <1>4, <1>5, <1>6, <1>7, <1>8, <1>9, <1>10, <1>11, <1>12, <1>13
     DEF Next, RunStep, Surroundings

(* Only a snapshot changes releases and artifacts.                         *)
LEMMA OnlySnapshots ==
    [Next]_vars => SaveSyncSnapshot \/ UNCHANGED <<release, art>>
<1> SUFFICES ASSUME [Next]_vars PROVE SaveSyncSnapshot \/ UNCHANGED <<release, art>>
  OBVIOUS
<1> USE DEF storeVars
<1>1. CASE RunStep
  BY <1>1 DEF RunStep, StartSync, Fetch, PostGone, Decide, HistoryUnavailable,
     OutOfScope, InputsMissing, Skip, Apply, WriteNormalized, WriteRaw, InstallCopy,
     InstallCapture, EndSync, EndRebuild
<1>2. CASE StartRebuild \/ Fails \/ Crash \/ Surroundings \/ UNCHANGED vars
  BY <1>2 DEF StartRebuild, Fails, Crash, Surroundings, Publish, Curate, Edit,
     Delete, Reroute, Damage, vars
<1> QED
  BY <1>1, <1>2 DEF Next

(* A snapshot writes what the plan says.                                   *)
LEMMA SnapshotWritesPlan ==
    ASSUME TypeInv, SaveSyncSnapshot
    PROVE  /\ plan.post \in Post /\ pc \in Writing
           /\ art'[plan.post] = plan.art /\ release'[plan.post].track = plan.track
           /\ \A q \in Post \ {plan.post} : art'[q] = art[q] /\ release'[q] = release[q]
<1>1. plan \in Plan /\ plan.post \in Post /\ pc \in Writing
  BY DEF SaveSyncSnapshot, TypeInv, InRun, TypeOK, Writing
<1> QED
  BY <1>1 DEF SaveSyncSnapshot, TypeInv, TypeOK

(* A sync replaces no legacy output and none it cannot verify, and leaves  *)
(* the metadata of a capture as it was chosen.                             *)
THEOREM SyncRespectsChoices == Spec => SyncKeepsChoices
<1>1. ASSUME TypeInv, ChoiceInv, [Next]_vars, kind = "sync", NEW p \in Post, art[p] # None
      PROVE  /\ (~Readable(p) \/ art[p].legacy) => art'[p] = art[p]
             /\ art[p].legacy => release'[p].track = release[p].track
             /\ art'[p] # None => art'[p].curation = art[p].curation
  <2>1. CASE UNCHANGED <<release, art>>
    BY <2>1, <1>1
  <2>2. CASE SaveSyncSnapshot
    BY <2>2, <1>1, SnapshotWritesPlan DEF ChoiceInv
  <2> QED
    BY <1>1, <2>1, <2>2, OnlySnapshots
<1>2. TypeInv /\ ChoiceInv /\ [Next]_vars =>
      [kind = "sync" => \A p \in Post : art[p] # None =>
        /\ (~Readable(p) \/ art[p].legacy) => art'[p] = art[p]
        /\ art[p].legacy => release'[p].track = release[p].track
        /\ art'[p] # None => art'[p].curation = art[p].curation]_vars
  BY <1>1
<1>3. Init => ChoiceInv
  BY DEF Init, ChoiceInv, Writing
<1> QED
  BY TypesAlways, Choices, <1>2, <1>3, PTL DEF Spec, SyncKeepsChoices

(* Neither run drops a rendering that configuration still asks for.        *)
THEOREM RenderingsKept == Spec => RunsKeepRenderings
<1>1. ASSUME TypeInv, ChoiceInv, [Next]_vars, NEW p \in Post, art[p] # None, art'[p] = None
      PROVE  ~Materializable(p)
  BY <1>1, OnlySnapshots, SnapshotWritesPlan DEF ChoiceInv
<1>2. TypeInv /\ ChoiceInv /\ [Next]_vars =>
      [\A p \in Post : art[p] # None /\ art'[p] = None => ~Materializable(p)]_vars
  BY <1>1
<1>3. Init => ChoiceInv
  BY DEF Init, ChoiceInv, Writing
<1> QED
  BY TypesAlways, Choices, <1>2, <1>3, PTL DEF Spec, RunsKeepRenderings

(* What the releases have been given stays, whatever run handles them.     *)
THEOREM OutputAlwaysKept == Spec => OutputKept
BY SyncRespectsChoices, RenderingsKept DEF OutputKept

(*---------------------- a repeated run finds nothing ---------------------*)
(* The capture a run would want for a release as it is stored.             *)
Kept(p, c) == [post |-> p, text |-> release[p].text, route |-> route[p],
               curation |-> c, legacy |-> FALSE]

RendersNothing(p) == ~Materializable(p) /\ art[p] = None

(* What it is about a post that leaves a sync nothing to do when it lists   *)
(* the post with its text of the moment, and a rebuild in any case.        *)
SyncSettled(p) ==
    \/ Blocked(p)
    \/ /\ release[p] # None /\ release[p].text = text[p]
       /\ \/ RendersNothing(p)
          \/ Readable(p) /\ art[p].legacy
          \/ /\ Readable(p) /\ Intact(p) /\ ~art[p].legacy
             /\ LET kept == Kept(p, art[p].curation) IN
                \/ art[p] = kept
                \/ Materializable(p) /\ CopyIn(art[p]) = CopyIn(kept)

RebuildSettled(p) ==
    /\ release[p] # None
    /\ \/ RendersNothing(p)
       \/ Readable(p) /\ Intact(p) /\ art[p] = Kept(p, curation)

QuietPosts == \A p \in Post :
    /\ "sync" \in quiet[p] => SyncSettled(p)
    /\ "rebuild" \in quiet[p] => RebuildSettled(p)

(* The texts in the hands of a run: a rebuild has those that are stored, a  *)
(* sync may have an older one, but of no post it could find settled.       *)
TextsInHand == \A p \in todo :
    /\ kind = "rebuild" => release[p] # None /\ got[p] = release[p].text
    /\ kind = "sync" /\ pc # "fetch" /\ "sync" \in quiet[p] => got[p] = text[p]

(* What the snapshot will make of the post whose plan is in hand.          *)
PlanSettles ==
    pc \in Writing =>
        LET p == plan.post IN
        /\ quiet[p] = {} /\ plan.text = got[p]
        /\ plan.action = "build" =>
              /\ plan.art = [post |-> p, text |-> got[p], route |-> route[p],
                             curation |-> plan.art.curation, legacy |-> FALSE]
              /\ kind = "rebuild" => plan.art.curation = curation
        /\ plan.action = "keep" =>
              \/ ~Materializable(p) /\ plan.art = None
              \/ kind = "sync" /\ Readable(p) /\ art[p].legacy /\ plan.art = art[p]

QuietInv == QuietPosts /\ TextsInHand /\ PlanSettles

(* A settled post stays so when nothing of it changes.                     *)
LEMMA StaysSettled ==
    ASSUME NEW p \in Post, release'[p] = release[p], art'[p] = art[p],
           route'[p] = route[p], Readable(p)' <=> Readable(p), Intact(p) => Intact(p)'
    PROVE  /\ SyncSettled(p) /\ text'[p] = text[p] => SyncSettled(p)'
           /\ RebuildSettled(p) /\ curation' = curation => RebuildSettled(p)'
<1>1. Blocked(p)' <=> Blocked(p)
  BY DEF Blocked, Readable
<1>2. RendersNothing(p)' <=> RendersNothing(p)
  BY DEF RendersNothing, Materializable
<1>3. Materializable(p)' <=> Materializable(p)
  BY DEF Materializable
<1>4. Kept(p, art[p].curation)' = Kept(p, art[p].curation)
  BY DEF Kept
<1>5. CopyIn(art[p])' = CopyIn(art[p])
      /\ CopyIn(Kept(p, art[p].curation))' = CopyIn(Kept(p, art[p].curation))
  BY <1>4 DEF CopyIn
<1>6. curation' = curation => Kept(p, curation)' = Kept(p, curation)
  BY DEF Kept
<1>7. SyncSettled(p) /\ text'[p] = text[p] => SyncSettled(p)'
  BY <1>1, <1>2, <1>3, <1>4, <1>5 DEF SyncSettled
<1> QED
  BY <1>2, <1>6, <1>7 DEF RebuildSettled

(* A post that a run passes over without a write is settled.               *)
LEMMA SkippedSettles ==
    ASSUME TypeInv, NEW p \in Post, NothingToDo(p), kind \in {"sync", "rebuild"}
    PROVE  /\ kind = "rebuild" => RebuildSettled(p)
           /\ got[p] = text[p] => SyncSettled(p)
<1>1. got[p] = release[p].text \/ BlockedAction(p)
  BY DEF NothingToDo, LegacyAction, NoopAction, Unchanged
<1>2. Unchanged(p) => release[p] # None /\ (got[p] = text[p] => release[p].text = text[p])
  BY DEF Unchanged
<1>3. CASE BlockedAction(p)
  BY <1>3 DEF BlockedAction, SyncSettled
<1>4. CASE LegacyAction(p)
  BY <1>2, <1>4 DEF LegacyAction, Frozen, SyncSettled
<1>5. CASE NoopAction(p) /\ kind = "rebuild"
  <2>1. /\ Unchanged(p) /\ ~Pinned(p)
        /\ (Current(p) /\ Intact(p)) \/ RendersNothing(p)
    BY <1>5 DEF NoopAction, Pinned, RendersNothing
  <2>2. Wanted(p) = Kept(p, curation)
    BY <2>1 DEF Wanted, Kept, Unchanged
  <2>3. RebuildSettled(p)
    BY <1>2, <2>1, <2>2 DEF RebuildSettled, Current
  <2>4. /\ ~Kept(p, curation).legacy
        /\ Kept(p, Kept(p, curation).curation) = Kept(p, curation)
    BY DEF Kept
  <2>5. \/ RendersNothing(p)
        \/ /\ Readable(p) /\ Intact(p) /\ ~art[p].legacy
           /\ art[p] = Kept(p, art[p].curation)
    BY <2>1, <2>2, <2>4 DEF Current
  <2>6. got[p] = text[p] => SyncSettled(p)
    BY <1>2, <2>1, <2>5 DEF SyncSettled
  <2> QED
    BY <2>3, <2>6
<1>6. CASE NoopAction(p) /\ kind = "sync"
  <2>1. Unchanged(p) /\ ~Frozen(p) /\ ~Blocked(p)
    BY <1>6 DEF NoopAction, BlockedAction
  <2>2. CASE RendersNothing(p)
    BY <1>2, <1>6, <2>1, <2>2 DEF SyncSettled
  <2>3. CASE ~RendersNothing(p)
    <3>1. /\ Intact(p)
          /\ \/ art[p] = Wanted(p)
             \/ Materializable(p) /\ CopyIn(art[p]) = CopyIn(Wanted(p))
      BY <1>6, <2>3 DEF NoopAction, Current, RendersNothing
    <3>2. Readable(p) /\ ~art[p].legacy /\ Pinned(p)
      BY <1>6, <2>1, <3>1 DEF Intact, Blocked, Frozen, Readable, Pinned
    <3>3. Wanted(p) = Kept(p, art[p].curation)
      BY <2>1, <3>2 DEF Wanted, Kept, Unchanged
    <3> QED
      BY <1>2, <1>6, <2>1, <3>1, <3>2, <3>3 DEF SyncSettled
  <2> QED
    BY <2>2, <2>3
<1> QED
  BY <1>3, <1>4, <1>5, <1>6 DEF NothingToDo, BlockedAction, LegacyAction, Frozen

(* A settled post is passed over.                                          *)
LEMMA SettledIsSkipped ==
    ASSUME TypeInv, NEW p \in Post
    PROVE  /\ kind = "sync" /\ SyncSettled(p) /\ got[p] = text[p] => NothingToDo(p)
           /\ kind = "rebuild" /\ RebuildSettled(p) /\ got[p] = release[p].text
                 => NothingToDo(p)
<1>1. ASSUME kind = "rebuild", RebuildSettled(p), got[p] = release[p].text
      PROVE  NothingToDo(p)
  <2>1. Unchanged(p) /\ ~Frozen(p) /\ ~BlockedAction(p) /\ ~Pinned(p)
    BY <1>1 DEF RebuildSettled, Unchanged, Frozen, BlockedAction, Pinned
  <2>2. Wanted(p) = Kept(p, curation)
    BY <1>1, <2>1 DEF Wanted, Kept
  <2> QED
    BY <1>1, <2>1, <2>2 DEF RebuildSettled, RendersNothing, NothingToDo, NoopAction, Current
<1>2. ASSUME kind = "sync", SyncSettled(p), got[p] = text[p], ~Blocked(p)
      PROVE  NothingToDo(p)
  <2>1. Unchanged(p) /\ ~BlockedAction(p)
    BY <1>2 DEF SyncSettled, Unchanged, BlockedAction
  <2>2. CASE RendersNothing(p)
    BY <2>1, <2>2 DEF RendersNothing, NothingToDo, NoopAction, Frozen, Readable
  <2>3. CASE Readable(p) /\ art[p].legacy
    BY <1>2, <2>1, <2>3 DEF NothingToDo, LegacyAction, Frozen
  <2>4. CASE Readable(p) /\ Intact(p) /\ ~art[p].legacy
    <3>1. Pinned(p) /\ ~Frozen(p) /\ ~RendersNothing(p)
      BY <1>2, <2>4 DEF Pinned, Frozen, RendersNothing, Readable
    <3>2. Wanted(p) = Kept(p, art[p].curation)
      BY <2>1, <3>1 DEF Wanted, Kept, Unchanged
    <3>3. \/ art[p] = Wanted(p)
          \/ Materializable(p) /\ CopyIn(art[p]) = CopyIn(Wanted(p))
      BY <1>2, <2>4, <3>1, <3>2 DEF SyncSettled
    <3> QED
      BY <1>2, <2>1, <2>4, <3>1, <3>3 DEF NothingToDo, NoopAction, Current
  <2> QED
    BY <1>2, <2>2, <2>3, <2>4 DEF SyncSettled
<1>3. kind = "sync" /\ Blocked(p) => NothingToDo(p)
  BY DEF NothingToDo, BlockedAction
<1> QED
  BY <1>1, <1>2, <1>3

(* What assess makes of a release will settle it.                          *)
LEMMA AssessedSettles ==
    ASSUME TypeInv, NEW p \in Post, kind \in {"sync", "rebuild"}
    PROVE  LET a == Assessed(p) IN
           /\ a.text = got[p]
           /\ a.action = "build" =>
                 /\ a.art = [post |-> p, text |-> got[p], route |-> route[p],
                             curation |-> a.art.curation, legacy |-> FALSE]
                 /\ kind = "rebuild" => a.art.curation = curation
           /\ a.action = "keep" =>
                 \/ ~Materializable(p) /\ a.art = None
                 \/ kind = "sync" /\ Readable(p) /\ art[p].legacy /\ a.art = art[p]
<1> DEFINE a == Assessed(p)
<1>1. a.text = got[p]
  BY DEF Assessed
<1>2. a.action = "build" => a.art = Wanted(p)
  BY DEF Assessed
<1>3. Wanted(p) = [post |-> p, text |-> got[p], route |-> route[p],
                   curation |-> Wanted(p).curation, legacy |-> FALSE]
  BY DEF Wanted
<1>4. kind = "rebuild" => Wanted(p).curation = curation
  BY DEF Wanted, Pinned
<1>5. a.action = "keep" => \/ ~Materializable(p) /\ a.art = None
                           \/ Frozen(p) /\ a.art = art[p]
  BY DEF Assessed
<1> QED
  BY <1>1, <1>2, <1>3, <1>4, <1>5 DEF Frozen

LEMMA InitQuiet == Init => QuietInv
  BY DEF Init, QuietInv, QuietPosts, TextsInHand, PlanSettles, Writing

(* Where neither catalog nor files of the settled posts change.            *)
LEMMA QuietPostsKept ==
    ASSUME QuietPosts,
           UNCHANGED <<release, art, captures, copies, route, curation, text, quiet>>
    PROVE  QuietPosts'
<1> SUFFICES ASSUME NEW p \in Post
             PROVE  /\ "sync" \in quiet'[p] => SyncSettled(p)'
                    /\ "rebuild" \in quiet'[p] => RebuildSettled(p)'
  BY DEF QuietPosts
<1>1. Readable(p)' <=> Readable(p)
  BY DEF Readable
<1>2. Intact(p) => Intact(p)'
  BY DEF Intact, CopyIn
<1> QED
  BY <1>1, <1>2, StaysSettled DEF QuietPosts

LEMMA SkipQuiet ==
    ASSUME TypeInv, QuietInv, NEW p \in Post, Skip(p) PROVE QuietPosts'
<1>1. /\ p \in todo /\ pc = "next" /\ NothingToDo(p)
      /\ quiet' = [quiet EXCEPT ![p] = quiet[p] \cup Settled(p)]
      /\ UNCHANGED <<release, art, captures, copies, route, curation, text>>
  BY DEF Skip, Handled, InHand, Still, worldVars, configVars, storeVars, diskVars
<1>2. kind \in {"sync", "rebuild"} /\ quiet \in [Post -> SUBSET {"sync", "rebuild"}]
  BY <1>1 DEF TypeInv, TypeOK, InRun
<1>3. /\ "rebuild" \in Settled(p) => RebuildSettled(p)
      /\ "sync" \in Settled(p) => SyncSettled(p)
  BY <1>1, <1>2, SkippedSettles DEF Settled
<1>4. ASSUME NEW q \in Post
      PROVE  /\ "sync" \in quiet'[q] => SyncSettled(q)
             /\ "rebuild" \in quiet'[q] => RebuildSettled(q)
  BY <1>1, <1>2, <1>3 DEF QuietInv, QuietPosts
<1>5. ASSUME NEW q \in Post
      PROVE  /\ SyncSettled(q) => SyncSettled(q)'
             /\ RebuildSettled(q) => RebuildSettled(q)'
  <2>1. Readable(q)' <=> Readable(q)
    BY <1>1 DEF Readable
  <2>2. Intact(q) => Intact(q)'
    BY <1>1 DEF Intact, CopyIn
  <2> QED
    BY <1>1, <2>1, <2>2, StaysSettled
<1> QED
  BY <1>4, <1>5 DEF QuietPosts

(* A new file belongs to the post in hand, which is not settled.           *)
LEMMA InstallQuiet ==
    ASSUME TypeInv, FileInv, QuietInv, InstallCopy \/ InstallCapture
    PROVE  QuietPosts'
<1>1. /\ plan.action = "build" /\ pc \in Writing /\ copies \subseteq copies'
      /\ captures \subseteq captures' /\ captures' \subseteq captures \cup {plan.art}
      /\ UNCHANGED <<release, art, route, curation, text, quiet>>
  <2>1. CASE InstallCopy
    BY <2>1 DEF InstallCopy, TypeInv, InRun, Writing, Still, worldVars, configVars,
                storeVars
  <2>2. CASE InstallCapture
    BY <2>2 DEF InstallCapture, TypeInv, InRun, Writing, Still, worldVars, configVars,
                storeVars
  <2> QED
    BY <2>1, <2>2
<1>2. plan.art.post = plan.post /\ quiet[plan.post] = {}
  BY <1>1 DEF FileInv, PlanInv, QuietInv, PlanSettles
<1> SUFFICES ASSUME NEW p \in Post, quiet[p] # {}
             PROVE  /\ "sync" \in quiet'[p] => SyncSettled(p)'
                    /\ "rebuild" \in quiet'[p] => RebuildSettled(p)'
  BY <1>1 DEF QuietPosts
<1>3. Readable(p)' <=> Readable(p)
  BY <1>1, <1>2 DEF Readable, FileInv, ArtMatchesRelease
<1>4. Intact(p) => Intact(p)'
  BY <1>1 DEF Intact, CopyIn
<1> QED
  BY <1>1, <1>3, <1>4, StaysSettled DEF QuietInv, QuietPosts

(* A snapshot settles its post as the run that wrote it would say.         *)
LEMMA SaveQuiet ==
    ASSUME TypeInv, FileInv, QuietInv, SaveSyncSnapshot PROVE QuietPosts'
<1>0. PICK p \in Post : p = plan.post
  BY DEF SaveSyncSnapshot, TypeInv, TypeOK, InRun, Writing
<1>1. /\ pc = "save" /\ pc \in Writing /\ plan \in Plan
      /\ release' = [release EXCEPT ![p] = [text |-> plan.text, track |-> plan.track]]
      /\ art' = [art EXCEPT ![p] = plan.art]
      /\ quiet' = [quiet EXCEPT ![p] = Settled(p)]
      /\ UNCHANGED <<captures, copies, route, curation, text, kind, got>>
  BY <1>0 DEF SaveSyncSnapshot, TypeInv, TypeOK, InRun, Writing, Still, worldVars,
         configVars, diskVars
<1>2. /\ release \in [Post -> Release \cup {None}] /\ art \in [Post -> Capture \cup {None}]
      /\ quiet \in [Post -> SUBSET {"sync", "rebuild"}] /\ kind \in {"sync", "rebuild"}
  BY <1>1 DEF TypeInv, TypeOK, InRun
<1>3. ASSUME NEW q \in Post, q # p
      PROVE  /\ "sync" \in quiet'[q] => SyncSettled(q)'
             /\ "rebuild" \in quiet'[q] => RebuildSettled(q)'
  <2>1. release'[q] = release[q] /\ art'[q] = art[q] /\ quiet'[q] = quiet[q]
    BY <1>1, <1>2, <1>3
  <2>2. Readable(q)' <=> Readable(q)
    BY <1>1, <2>1 DEF Readable
  <2>3. Intact(q) => Intact(q)'
    BY <1>1, <2>1 DEF Intact, CopyIn
  <2> QED
    BY <1>1, <2>1, <2>2, <2>3, StaysSettled DEF QuietInv, QuietPosts
<1>4. /\ release'[p] # None /\ release'[p].text = got[p] /\ art'[p] = plan.art
      /\ quiet'[p] = Settled(p)
  BY <1>0, <1>1, <1>2 DEF QuietInv, PlanSettles, Plan, Release
<1>5. CASE plan.action = "build"
  <2>1. /\ plan.art \in captures /\ CopyIn(plan.art) \in copies
        /\ plan.art \in Capture
        /\ plan.art = [post |-> p, text |-> got[p], route |-> route[p],
                       curation |-> plan.art.curation, legacy |-> FALSE]
        /\ kind = "rebuild" => plan.art.curation = curation
    BY <1>0, <1>1, <1>5 DEF FileInv, PlanInv, TypeInv, InRun, QuietInv, PlanSettles
  <2>2. Readable(p)' /\ Intact(p)' /\ ~art'[p].legacy
    BY <1>1, <1>4, <2>1 DEF Readable, Intact, CopyIn
  <2>3. art'[p] = Kept(p, art[p].curation)'
    BY <1>1, <1>4, <2>1 DEF Kept
  <2>4. kind = "rebuild" => art'[p] = Kept(p, curation)'
    BY <1>1, <1>4, <2>1 DEF Kept
  <2>5. kind = "rebuild" => RebuildSettled(p)'
    BY <1>4, <2>2, <2>4 DEF RebuildSettled
  <2>6. got[p] = text[p] => SyncSettled(p)'
    BY <1>1, <1>4, <2>2, <2>3 DEF SyncSettled
  <2>7. /\ "sync" \in quiet'[p] => SyncSettled(p)'
        /\ "rebuild" \in quiet'[p] => RebuildSettled(p)'
    BY <1>4, <2>5, <2>6 DEF Settled
  <2> QED
    BY <1>3, <2>7 DEF QuietPosts
<1>6. CASE plan.action = "keep"
  <2>1. \/ ~Materializable(p) /\ plan.art = None
        \/ kind = "sync" /\ Readable(p) /\ art[p].legacy /\ plan.art = art[p]
    BY <1>0, <1>1, <1>6 DEF QuietInv, PlanSettles
  <2>2. \/ RendersNothing(p)'
        \/ kind = "sync" /\ Readable(p)' /\ art'[p].legacy
    BY <1>1, <1>4, <2>1 DEF RendersNothing, Materializable, Readable
  <2>3. kind = "rebuild" => RebuildSettled(p)'
    BY <1>4, <2>2 DEF RebuildSettled
  <2>4. got[p] = text[p] => SyncSettled(p)'
    BY <1>1, <1>4, <2>2 DEF SyncSettled
  <2>5. /\ "sync" \in quiet'[p] => SyncSettled(p)'
        /\ "rebuild" \in quiet'[p] => RebuildSettled(p)'
    BY <1>4, <2>3, <2>4 DEF Settled
  <2> QED
    BY <1>3, <2>5 DEF QuietPosts
<1> QED
  BY <1>1, <1>5, <1>6 DEF Plan

(* What the provider, the operator and damage leave of what is settled.    *)
LEMMA SurroundingsQuiet ==
    ASSUME TypeInv, FileInv, QuietPosts, Surroundings PROVE QuietPosts'
<1> USE DEF worldVars, configVars, storeVars, diskVars, runVars, auxVars
<1>0. quiet \in [Post -> SUBSET {"sync", "rebuild"}]
      /\ text \in [Post -> Text] /\ route \in [Post -> Route]
  BY DEF TypeInv, TypeOK
<1>1. CASE Publish
  BY <1>1, QuietPostsKept DEF Publish
<1>2. ASSUME NEW p \in Post, Delete(p) PROVE QuietPosts'
  BY <1>2, QuietPostsKept DEF Delete
<1>3. CASE Curate
  <2>1. /\ quiet' = [p \in Post |-> quiet[p] \ {"rebuild"}]
        /\ UNCHANGED <<release, art, captures, copies, route, text>>
    BY <1>3 DEF Curate
  <2> SUFFICES ASSUME NEW q \in Post, "sync" \in quiet[q] PROVE SyncSettled(q)'
    BY <2>1 DEF QuietPosts
  <2>2. Readable(q)' <=> Readable(q)
    BY <2>1 DEF Readable
  <2>3. Intact(q) => Intact(q)'
    BY <2>1 DEF Intact, CopyIn
  <2> QED
    BY <2>1, <2>2, <2>3, StaysSettled DEF QuietPosts
<1>4. ASSUME NEW p \in Post, Edit(p) PROVE QuietPosts'
  <2>1. /\ quiet' = [quiet EXCEPT ![p] = quiet[p] \ {"sync"}]
        /\ \A q \in Post : q # p => text'[q] = text[q]
        /\ UNCHANGED <<release, art, captures, copies, route, curation>>
    BY <1>4, <1>0 DEF Edit
  <2> SUFFICES ASSUME NEW q \in Post
               PROVE  /\ "sync" \in quiet'[q] => SyncSettled(q)'
                      /\ "rebuild" \in quiet'[q] => RebuildSettled(q)'
    BY DEF QuietPosts
  <2>2. Readable(q)' <=> Readable(q)
    BY <2>1 DEF Readable
  <2>3. Intact(q) => Intact(q)'
    BY <2>1 DEF Intact, CopyIn
  <2>4. /\ "sync" \in quiet'[q] => q # p /\ "sync" \in quiet[q]
        /\ "rebuild" \in quiet'[q] => "rebuild" \in quiet[q]
    BY <2>1, <1>0
  <2> QED
    BY <2>1, <2>2, <2>3, <2>4, StaysSettled DEF QuietPosts
<1>5. ASSUME NEW p \in Post, Reroute(p) PROVE QuietPosts'
  <2>1. /\ quiet' = [quiet EXCEPT ![p] = {}]
        /\ \A q \in Post : q # p => route'[q] = route[q]
        /\ UNCHANGED <<release, art, captures, copies, text, curation>>
    BY <1>5, <1>0 DEF Reroute
  <2> SUFFICES ASSUME NEW q \in Post, q # p
               PROVE  /\ "sync" \in quiet[q] => SyncSettled(q)'
                      /\ "rebuild" \in quiet[q] => RebuildSettled(q)'
    BY <2>1, <1>0 DEF QuietPosts
  <2>2. Readable(q)' <=> Readable(q)
    BY <2>1 DEF Readable
  <2>3. Intact(q) => Intact(q)'
    BY <2>1 DEF Intact, CopyIn
  <2> QED
    BY <2>1, <2>2, <2>3, StaysSettled DEF QuietPosts
<1>6. ASSUME NEW p \in Post, Damage(p) PROVE QuietPosts'
  <2>1. /\ captures \ {art[p]} \subseteq captures' /\ captures' \subseteq captures
        /\ copies \ {CopyIn(art[p])} \subseteq copies'
        /\ art[p] = None => UNCHANGED <<captures, copies>>
        /\ quiet' = [quiet EXCEPT ![p] = {}]
        /\ UNCHANGED <<release, art, route, curation, text>>
    BY <1>6 DEF Damage
  <2> SUFFICES ASSUME NEW q \in Post, q # p
               PROVE  /\ "sync" \in quiet[q] => SyncSettled(q)'
                      /\ "rebuild" \in quiet[q] => RebuildSettled(q)'
    BY <2>1, <1>0 DEF QuietPosts
  <2>2. art[q] # None /\ art[p] # None =>
            art[q] # art[p] /\ CopyIn(art[q]) # CopyIn(art[p])
    BY DEF FileInv, ArtMatchesRelease, CopyIn
  <2>3. Readable(q)' <=> Readable(q)
    BY <2>1, <2>2 DEF Readable
  <2>4. Intact(q) => CopyIn(art[q]) \in copies'
    BY <2>1, <2>2 DEF Intact
  <2>5. Intact(q) => Intact(q)'
    BY <2>1, <2>4 DEF Intact, CopyIn
  <2> QED
    BY <2>1, <2>3, <2>5, StaysSettled DEF QuietPosts
<1> QED
  BY <1>1, <1>2, <1>3, <1>4, <1>5, <1>6 DEF Surroundings

LEMMA StepQuietPosts == TypeInv /\ FileInv /\ QuietInv /\ [Next]_vars => QuietPosts'
<1> SUFFICES ASSUME TypeInv, FileInv, QuietInv, [Next]_vars PROVE QuietPosts'
  OBVIOUS
<1> USE DEF Still, worldVars, configVars, storeVars, diskVars, runVars, auxVars
<1>0. QuietPosts
  BY DEF QuietInv
<1>1. CASE StartSync \/ Fetch \/ PostGone \/ Decide \/ HistoryUnavailable
           \/ WriteNormalized \/ WriteRaw \/ EndSync \/ EndRebuild
  BY <1>0, <1>1, QuietPostsKept DEF StartSync, Fetch, PostGone, Decide,
     HistoryUnavailable, WriteNormalized, WriteRaw, EndSync, EndRebuild
<1>2. CASE StartRebuild \/ Fails \/ Crash \/ UNCHANGED vars
  BY <1>0, <1>2, QuietPostsKept DEF StartRebuild, Fails, Crash, vars
<1>3. ASSUME NEW p \in Post, OutOfScope(p) \/ InputsMissing(p) PROVE QuietPosts'
  BY <1>0, <1>3, QuietPostsKept DEF OutOfScope, InputsMissing
<1>4. ASSUME NEW p \in Post, Apply(p) PROVE QuietPosts'
  <2>1. /\ quiet' = [quiet EXCEPT ![p] = {}] /\ quiet \in [Post -> SUBSET {"sync", "rebuild"}]
        /\ UNCHANGED <<release, art, captures, copies, route, curation, text>>
    BY <1>4 DEF Apply, TypeInv, TypeOK
  <2> SUFFICES ASSUME NEW q \in Post
               PROVE  /\ "sync" \in quiet[q] => SyncSettled(q)'
                      /\ "rebuild" \in quiet[q] => RebuildSettled(q)'
    BY <2>1 DEF QuietPosts
  <2>2. Readable(q)' <=> Readable(q)
    BY <2>1 DEF Readable
  <2>3. Intact(q) => Intact(q)'
    BY <2>1 DEF Intact, CopyIn
  <2> QED
    BY <2>1, <2>2, <2>3, StaysSettled, <1>0 DEF QuietPosts
<1>5. ASSUME NEW p \in Post, Skip(p) PROVE QuietPosts'
  BY <1>5, SkipQuiet
<1> QED
  BY <1>0, <1>1, <1>2, <1>3, <1>4, <1>5, InstallQuiet, SaveQuiet, SurroundingsQuiet
     DEF Next, RunStep

LEMMA StepTexts == TypeInv /\ QuietInv /\ [Next]_vars => TextsInHand'
<1> SUFFICES ASSUME TypeInv, QuietInv, [Next]_vars PROVE TextsInHand'
  OBVIOUS
<1> USE DEF Still, worldVars, configVars, storeVars, diskVars, runVars, auxVars
<1>0. TextsInHand /\ quiet \in [Post -> SUBSET {"sync", "rebuild"}] /\ todo \subseteq Post
      /\ text \in [Post -> Text] /\ release \in [Post -> Release \cup {None}]
  BY DEF QuietInv, TypeInv, TypeOK
<1>1. CASE StartSync
  BY <1>1 DEF StartSync, TextsInHand
<1>2. CASE Fetch
  BY <1>0, <1>2 DEF Fetch, TextsInHand, TypeInv, InRun
<1>3. CASE Forget
  BY <1>3 DEF Forget, TextsInHand
<1>4. CASE StartRebuild
  BY <1>4 DEF StartRebuild, TextsInHand, Stored
<1>5. ASSUME todo' \subseteq todo, pc # "fetch",
             UNCHANGED <<kind, got, release, text>>,
             \A p \in todo' : quiet'[p] \subseteq quiet[p]
      PROVE  TextsInHand'
  BY <1>0, <1>5 DEF TextsInHand
<1>6. CASE Decide \/ WriteNormalized \/ WriteRaw \/ InstallCopy \/ InstallCapture
  BY <1>5, <1>6 DEF Decide, WriteNormalized, WriteRaw, InstallCopy, InstallCapture
<1>7. ASSUME NEW p \in Post, OutOfScope(p) \/ InputsMissing(p) PROVE TextsInHand'
  BY <1>5, <1>7 DEF OutOfScope, InputsMissing, InHand
<1>8. ASSUME NEW p \in Post, Skip(p) PROVE TextsInHand'
  BY <1>0, <1>5, <1>8 DEF Skip, Handled, InHand
<1>9. ASSUME NEW p \in Post, Apply(p) PROVE TextsInHand'
  BY <1>0, <1>5, <1>9 DEF Apply, Handled, InHand
<1>10. CASE SaveSyncSnapshot
  <2>1. /\ plan.post \in Post /\ todo' = todo \ {plan.post}
        /\ \A p \in Post \ {plan.post} : release'[p] = release[p] /\ quiet'[p] = quiet[p]
        /\ UNCHANGED <<kind, got, text>> /\ pc # "fetch"
    BY <1>0, <1>10 DEF SaveSyncSnapshot, TypeInv, InRun, Writing
  <2> QED
    BY <1>0, <2>1 DEF TextsInHand
<1>11. CASE Fails
  <2>1. CASE kind = "sync"
    BY <1>3, <1>11, <2>1 DEF Fails
  <2>2. CASE kind # "sync"
    BY <1>5, <1>11, <2>2 DEF Fails
  <2> QED
    BY <2>1, <2>2
<1>12. ASSUME UNCHANGED <<kind, pc, got, todo, release, quiet>>,
              \A p \in todo : "sync" \in quiet[p] => text'[p] = text[p]
       PROVE  TextsInHand'
  BY <1>12, <1>0 DEF TextsInHand
<1>13. CASE Publish \/ UNCHANGED vars
  BY <1>12, <1>13 DEF Publish, vars
<1>14. ASSUME NEW p \in Post, Edit(p) PROVE TextsInHand'
  <2>1. /\ quiet' = [quiet EXCEPT ![p] = quiet[p] \ {"sync"}]
        /\ \A q \in Post : q # p => text'[q] = text[q]
        /\ UNCHANGED <<kind, pc, got, todo, release>>
    BY <1>0, <1>14 DEF Edit
  <2> QED
    BY <1>0, <2>1 DEF TextsInHand
<1>15. ASSUME NEW p \in Post, Delete(p) PROVE TextsInHand'
  BY <1>12, <1>15 DEF Delete
<1>16. ASSUME pc = "idle", UNCHANGED <<kind, todo>> PROVE TextsInHand'
  BY <1>16 DEF TextsInHand, TypeInv, InRun
<1>17. CASE Curate
  BY <1>16, <1>17 DEF Curate
<1>18. ASSUME NEW p \in Post, Reroute(p) \/ Damage(p) PROVE TextsInHand'
  BY <1>16, <1>18 DEF Reroute, Damage
<1>19. CASE PostGone \/ HistoryUnavailable \/ EndSync \/ EndRebuild \/ Crash
  BY <1>3, <1>19 DEF PostGone, HistoryUnavailable, EndSync, EndRebuild, Crash
<1> QED
  BY <1>1, <1>2, <1>4, <1>6, <1>7, <1>8, <1>9, <1>10, <1>11, <1>13, <1>14, <1>15,
     <1>17, <1>18, <1>19 DEF Next, RunStep, Surroundings

LEMMA StepPlan == TypeInv /\ QuietInv /\ [Next]_vars => PlanSettles'
<1> SUFFICES ASSUME TypeInv, QuietInv, [Next]_vars PROVE PlanSettles'
  OBVIOUS
<1> USE DEF Still, worldVars, configVars, storeVars, diskVars, runVars, auxVars
<1>0. PlanSettles /\ quiet \in [Post -> SUBSET {"sync", "rebuild"}]
  BY DEF QuietInv, TypeInv, TypeOK
<1>1. CASE pc' \notin Writing
  BY <1>1 DEF PlanSettles
<1>2. ASSUME NEW p \in Post, Apply(p) PROVE PlanSettles'
  <2>1. /\ plan' = Assessed(p) /\ p \in todo /\ pc = "next"
        /\ quiet' = [quiet EXCEPT ![p] = {}]
        /\ UNCHANGED <<art, route, curation, kind, captures, got>>
    BY <1>2 DEF Apply, Handled, InHand
  <2>2. plan'.post = p /\ kind \in {"sync", "rebuild"}
    BY <2>1, AssessedPlan DEF TypeInv, TypeOK, InRun
  <2>3. Readable(p)' <=> Readable(p)
    BY <2>1 DEF Readable
  <2>4. Materializable(p)' <=> Materializable(p)
    BY <2>1 DEF Materializable
  <2> QED
    BY <1>0, <2>1, <2>2, <2>3, <2>4, AssessedSettles DEF PlanSettles, Materializable, Readable
<1>3. ASSUME pc \in Writing, captures \subseteq captures',
             UNCHANGED <<art, route, curation, kind, plan, got>>,
             quiet'[plan.post] = {}
      PROVE  PlanSettles'
  BY <1>0, <1>3 DEF PlanSettles, Materializable, Readable
<1>4. pc \in Writing => plan.post \in Post /\ quiet[plan.post] = {}
  BY <1>0 DEF PlanSettles, TypeInv, TypeOK, InRun
<1>5. CASE WriteNormalized \/ WriteRaw \/ InstallCopy \/ InstallCapture
  BY <1>3, <1>4, <1>5 DEF WriteNormalized, WriteRaw, InstallCopy, InstallCapture, Writing
<1>6. CASE Publish \/ UNCHANGED vars
  BY <1>1, <1>3, <1>4, <1>6 DEF Publish, vars
<1>7. ASSUME NEW p \in Post, Edit(p) PROVE PlanSettles'
  <2>1. pc \in Writing => quiet'[plan.post] = {}
    BY <1>0, <1>4, <1>7 DEF Edit
  <2> QED
    BY <1>1, <1>3, <1>7, <2>1 DEF Edit
<1>8. ASSUME NEW p \in Post, Delete(p) PROVE PlanSettles'
  BY <1>1, <1>3, <1>4, <1>8 DEF Delete
<1>9. CASE StartSync \/ Fetch \/ PostGone \/ Decide \/ HistoryUnavailable
           \/ SaveSyncSnapshot \/ EndSync \/ EndRebuild \/ StartRebuild
           \/ Fails \/ Crash \/ Curate
  <2>1. pc' \notin Writing
    BY <1>9 DEF StartSync, Fetch, PostGone, Decide, HistoryUnavailable,
                SaveSyncSnapshot, EndSync, EndRebuild, StartRebuild, Fails, Crash,
                Curate, Forget, Writing
  <2> QED
    BY <2>1, <1>1
<1>10. ASSUME NEW p \in Post,
              OutOfScope(p) \/ InputsMissing(p) \/ Skip(p) \/ Reroute(p) \/ Damage(p)
       PROVE  PlanSettles'
  <2>1. pc' \notin Writing
    BY <1>10 DEF OutOfScope, InputsMissing, Skip, Reroute, Damage, Handled, InHand,
                 Writing
  <2> QED
    BY <2>1, <1>1
<1> QED
  BY <1>2, <1>5, <1>6, <1>7, <1>8, <1>9, <1>10 DEF Next, RunStep, Surroundings

(* A run that comes to a post which a run of its kind has handled, with    *)
(* text, configuration and files as they were, plans no write.             *)
THEOREM RepeatedRunsAreQuiet == Spec => []RepeatIsQuiet
<1>1. TypeInv /\ FileInv /\ QuietInv /\ [Next]_vars => QuietInv'
  BY StepQuietPosts, StepTexts, StepPlan DEF QuietInv
<1>2. ASSUME TypeInv, QuietInv, NEW p \in Post, InHand(p), kind \in quiet[p]
      PROVE  NothingToDo(p)
  <2>1. p \in todo /\ pc = "next" /\ kind \in {"sync", "rebuild"}
    BY <1>2 DEF InHand, TypeInv, TypeOK, InRun
  <2> QED
    BY <1>2, <2>1, SettledIsSkipped DEF QuietInv, QuietPosts, TextsInHand
<1>3. TypeInv /\ QuietInv => RepeatIsQuiet
  BY <1>2 DEF RepeatIsQuiet
<1> QED
  BY TypesAlways, FilesAlways, InitQuiet, <1>1, <1>3, PTL DEF Spec

===============================================================================
