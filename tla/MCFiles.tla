-------------------------------- MODULE MCFiles --------------------------------
(***************************************************************************)
(* What the program makes and leaves behind: run records with their        *)
(* cleanup, dump workspaces, captures, editions and their validator, and   *)
(* what is handed to a watched folder or a command.  They share nothing,   *)
(* so a behaviour is one of them and its first state says which.           *)
(*                                                                         *)
(* Handed off are two chapters with two editions each: a correction of the *)
(* first keeps its file name, one of the second is a new name.             *)
(***************************************************************************)
EXTENDS Records, TLC

CONSTANTS
    Refresh, Creator, MaxLosses,
    Kind, Chapter, Edition, First, NameOf, MaxCorrections, MaxFaults,
    Process, Revision, Earliest, Attachment, Picture, Torn, Absent, MaxEdits, MaxMishaps,
    Bundled, Originals, Settings, Publications, PDF, Text, Other, Failed,
    Caller, MaxProcesses, MaxTroubles

VARIABLES
    subject,
    root, gen, manifest, durable, named, authored, refreshing, losses,
    kind, edition, corrections, record, saved, plans, run,
    folder, landed, copies, cut, library, seen, applied, repeated, faults,
    post, served, sent, disk, fresh, cooling, rows, release, taking,
    edits, mishaps,
    original, setting, copy, volume,
    sound, lock, at, attempt, result, process, running, started, queue,
    generation, timer, fired, present, died, troubles

W == INSTANCE Workspace WITH job <- refreshing
H == INSTANCE Handoff WITH Release <- Chapter, Version <- Edition
C == INSTANCE Captures WITH
    First <- Earliest, Bytes <- Attachment, MaxChanges <- MaxEdits, MaxFaults <- MaxMishaps,
    run <- taking, changes <- edits, faults <- mishaps

V == INSTANCE Validator WITH Call <- Caller

\* EPUBs of one and two pages, in both versions, with and without a cover
\* declared either way, a missing resource or a title.
Own(name) == <<0, name>>
Line(depth, label, page) == [depth |-> depth, label |-> label, to |-> Own(page)]
OnePage == {<<Line(0, "generic", "p1")>>, <<Line(0, "own", "p1")>>}
TwoPages == {
    <<Line(0, "generic", "p1")>>, <<Line(0, "own", "p2")>>,
    <<Line(0, "own", "p1"), Line(0, "generic", "p2")>>,
    <<Line(0, "own", "p1"), Line(1, "own", "p2")>>}
Package(pages, toc, navs, cover, lost, identity) ==
    LET art == IF cover = "none" /\ ~lost THEN {} ELSE {"art"}
        names == {pages[k] : k \in DOMAIN pages} \cup navs \cup art
        items == {Own(n) : n \in names}
    IN [version |-> IF "nav" \in navs THEN 3 ELSE 2,
        kind |-> [i \in items |-> CASE i[2] \in navs -> i[2]
                                    [] i[2] = "art" -> "image"
                                    [] OTHER -> "page"],
        files |-> IF lost THEN items \ {Own("art")} ELSE items,
        spine |-> [k \in DOMAIN pages |-> Own(pages[k])],
        toc |-> [d \in {Own(n) : n \in navs} |-> toc],
        start |-> None,
        cover |-> IF cover = "property" THEN {Own("art")} ELSE {},
        older |-> IF cover = "older" THEN Own("art") ELSE None,
        identity |-> identity, about |-> {}]
Navs == {{"ncx"}, {"nav"}, {"nav", "ncx"}}
Covers == {"none", "older", "property"}
Ones ==
    {PDF, Text, Other}
    \cup {Package(<<"p1">>, t, n, c, FALSE, "theirs") :
             t \in OnePage, n \in {{"nav"}, {"nav", "ncx"}}, c \in {"none", "older", "property"}}
    \cup {Package(<<"p1">>, t, {"ncx"}, c, FALSE, "theirs") :
             t \in OnePage, c \in {"none", "older"}}
    \cup {Package(<<"p1", "p2">>, t, n, "none", FALSE, "theirs") :
             t \in TwoPages, n \in {{"ncx"}, {"nav"}, {"nav", "ncx"}}}
    \cup {Package(<<"p1">>, <<Line(0, "own", "p1")>>, {"nav"}, "property", l, "none") :
             l \in BOOLEAN}
Twos == {
    Package(<<"p1">>, <<Line(0, "generic", "p1")>>, {"ncx"}, "older", FALSE, "theirs"),
    Package(<<"p1", "p2">>, <<Line(0, "own", "p1"), Line(1, "own", "p2")>>,
            {"nav", "ncx"}, "none", FALSE, "theirs")}
Decoration(cover, override, authors, identity) ==
    [cover |-> cover, override |-> override, authors |-> authors, identity |-> identity]
Full == Decoration(TRUE, FALSE, TRUE, "attachment")
Bare == Decoration(FALSE, FALSE, FALSE, "attachment")
Setting(format, preface, publication) ==
    [format |-> format, preface |-> preface, publication |-> publication]
AnySetting ==
    {Setting(f, p, d) : f \in {"preserve", "epub"}, p \in BOOLEAN,
        d \in {None, Full}}
    \cup {Setting("epub", p, Decoration(TRUE, TRUE, TRUE, "release")) : p \in BOOLEAN}
TwoSettings == {Setting("preserve", FALSE, None), Setting("epub", TRUE, Full)}

Published == <<Ones, Twos>>
Configured == <<AnySetting, TwoSettings>>
Decorations == {Full, Bare}

E == INSTANCE Edition WITH Chapters <- Bundled
Attached == [i \in 1..Bundled |-> E!Attachments(i)]

Kinds == {"drop", "exec"}
Chapters == 1..2
Editions == {"old", "new"}
\* The planner keeps the names of a library's chapters apart, with a suffix of
\* the release, and refuses a library in which it cannot.
ASSUME NamesAssumption ==
    /\ Kind \subseteq Kinds /\ First \in Edition
    /\ \A a, b \in Chapter \X Edition : NameOf[a] = NameOf[b] => a[1] = b[1]

\* What a place holds can be told: nothing, a torn file, the picture or an
\* attachment that was sent, and None is neither.
ASSUME ContentsAssumption ==
    /\ Earliest \in Revision
    /\ {Picture, Torn, Absent, None} \cap Attachment = {}
    /\ None \notin {Picture, Torn} /\ Absent \notin {Picture, Torn}

\* There are chapters, and what authors publish as EPUBs is whole.
ASSUME OriginalsAssumption ==
    /\ Bundled \in Nat \ {0}
    /\ \A i \in 1..Bundled : \A o \in Originals[i] : E!IsEPUB(o) => E!Authored(o)

\* None is no validation, no process and no outcome.
ASSUME NoneOfThese ==
    None \notin Caller \cup Nat \cup {"valid", "invalid", "no command", "not started",
                                    "validator failed", "timed out", "cancelled"}

Names == [a \in Chapters \X Editions |->
    CASE a[1] = 1 -> "one"
      [] a = <<2, "old">> -> "two"
      [] OTHER -> "two corrected"]

workspace == <<root, gen, manifest, durable, named, authored, refreshing, losses>>
handoff == <<kind, edition, corrections, record, saved, plans, run,
             folder, landed, copies, cut, library, seen, applied, repeated, faults>>
captures == <<post, served, sent, disk, fresh, cooling, rows, release,
              taking, edits, mishaps>>
editions == <<original, setting, copy, volume>>
validations == <<sound, lock, at, attempt, result, process, running, started, queue,
                 generation, timer, fired, present, died, troubles>>

\* Which of two attachments the site sends first makes no difference.
MCInit ==
    /\ subject \in {"records", "workspace", "handoff", "captures", "editions", "validator"}
    /\ Init /\ W!Init /\ E!Init /\ H!Init
    /\ subject # "handoff" => kind = "drop"
    /\ C!Init
    /\ LET sentFirst == CHOOSE b \in Attachment : TRUE
       IN /\ served[Earliest] = sentFirst
          /\ subject # "captures" => served = [t \in Revision |-> sentFirst]
    /\ V!Init
    /\ subject # "validator" => sound = [c \in Caller |-> TRUE]

Recording == subject = "records" /\ UNCHANGED <<subject, workspace, handoff, captures, editions, validations>>
Dumping == subject = "workspace" /\ UNCHANGED <<subject, vars, handoff, captures, editions, validations>>
Handing == subject = "handoff" /\ UNCHANGED <<subject, vars, workspace, captures, editions, validations>>
Capturing == subject = "captures" /\ UNCHANGED <<subject, vars, workspace, handoff, editions, validations>>
Editing == subject = "editions" /\ UNCHANGED <<subject, vars, workspace, handoff, captures, validations>>
Validating == subject = "validator" /\ UNCHANGED <<subject, vars, workspace, handoff, captures, editions>>

MCNext ==
    \/ \E r \in Run :
         \/ Recording /\ Start(r)
         \/ Recording /\ OpenLogs(r)
         \/ Recording /\ Resume(r)
         \/ Recording /\ WritePlan(r)
         \/ Recording /\ SavePlan(r)
         \/ Recording /\ Complete(r)
         \/ Recording /\ Compact(r)
         \/ Recording /\ GiveUp(r)
         \/ Recording /\ Finish(r)
         \/ Recording /\ Dies(r)
         \/ Recording /\ Reconcile(r)
         \/ Recording /\ Archive(r)
         \/ Recording /\ UnlinkLog(r)
         \/ Recording /\ UnlinkPlan(r)
    \/ Recording /\ Tick
    \/ Recording /\ Expire
    \/ Recording /\ WriteHorizon
    \/ Recording /\ CleanupEnds
    \/ \E p \in Refresh :
         \/ Dumping /\ W!Create(p)
         \/ Dumping /\ W!Mark(p)
         \/ Dumping /\ W!Begin(p)
         \/ Dumping /\ W!WriteSources(p)
         \/ Dumping /\ W!Look(p)
         \/ Dumping /\ W!Link(p)
         \/ Dumping /\ W!SyncCapture(p)
         \/ Dumping /\ W!Rename(p)
         \/ Dumping /\ W!SyncRoot(p)
         \/ Dumping /\ W!Fails(p)
         \/ Dumping /\ W!Dies(p)
         \/ \E c \in Creator :
              \/ Dumping /\ W!Fetch(p, c)
              \/ Dumping /\ W!Capture(p, c)
              \/ Dumping /\ W!WorkerFails(p, c)
    \/ Dumping /\ W!PowerLoss
    \/ Dumping /\ W!Author
    \/ Handing /\ H!Begin
    \/ Handing /\ H!Resume
    \/ Handing /\ H!Plan
    \/ Handing /\ H!NothingToDo
    \/ Handing /\ H!EndDeliveries
    \/ Handing /\ H!GiveUp
    \/ Handing /\ H!Complete
    \/ Handing /\ H!Dies
    \/ \E r \in Chapter :
         \/ Handing /\ H!Mark(r)
         \/ Handing /\ H!Copy(r)
         \/ Handing /\ H!CopyFails(r)
         \/ Handing /\ H!Call(r)
         \/ Handing /\ H!CallFails(r)
         \/ Handing /\ H!Record(r)
         \/ \E v \in Edition : Handing /\ H!Correct(r, v)
    \/ \E a \in H!Artifact :
         \/ Handing /\ H!Supersede(a)
         \/ Handing /\ H!RecordSuperseded(a)
         \/ Handing /\ H!SupersedeFails(a)
    \/ \E n \in H!Name : Handing /\ H!Take(n)
    \/ \E p \in Process :
         \/ Capturing /\ C!Sync(p)
         \/ Capturing /\ C!Dump(p)
         \/ Capturing /\ C!Rebuild(p)
         \/ Capturing /\ C!EnrichStored(p)
         \/ Capturing /\ C!Close(p)
         \/ Capturing /\ C!WriteFails(p)
         \/ Capturing /\ C!PictureCooling(p)
         \/ Capturing /\ C!PictureCached(p)
         \/ Capturing /\ C!PictureFetched(p)
         \/ Capturing /\ C!PictureFails(p)
         \/ Capturing /\ C!CapturePicture(p)
         \/ Capturing /\ C!KeepPicture(p)
         \/ Capturing /\ C!PictureChanged(p)
         \/ Capturing /\ C!SaveReleaseEnrichment(p)
         \/ Capturing /\ C!CacheHit(p)
         \/ Capturing /\ C!Download(p)
         \/ Capturing /\ C!DownloadFails(p)
         \/ Capturing /\ C!WritePayload(p)
         \/ Capturing /\ C!WriteManifest(p)
         \/ Capturing /\ C!Export(p)
         \/ Capturing /\ C!Inspect(p)
         \/ Capturing /\ C!Mismatch(p)
         \/ Capturing /\ C!KeepInput(p)
         \/ Capturing /\ C!InputKept(p)
         \/ Capturing /\ C!Render(p)
         \/ Capturing /\ C!RenderFails(p)
         \/ Capturing /\ C!SaveSyncSnapshot(p)
         \/ Capturing /\ C!Dies(p)
    \/ \E place \in C!Place : Capturing /\ C!Damage(place)
    \/ Capturing /\ C!TimePasses
    \/ \E t \in Revision :
         \/ Capturing /\ C!Edit(t)
         \/ \E b \in Attachment : Capturing /\ C!Replace(t, b)
    \/ \E i \in 1..Bundled :
         \/ Editing /\ \E o \in Attached[i] : E!Retain(i, o)
         \/ \E d \in Settings[i] : Editing /\ E!Render(i, d)
    \/ \E publication \in Publications : Editing /\ E!BuildVolume(publication)
    \/ \E c \in Caller :
         \/ Validating /\ V!Lock(c)
         \/ Validating /\ V!Start(c)
         \/ Validating /\ V!StartFails(c)
         \/ Validating /\ V!Ask(c)
         \/ Validating /\ V!Answer(c)
         \/ Validating /\ V!NoAnswer(c)
         \/ Validating /\ V!PartialAnswer(c)
         \/ \E why \in {"timed out", "cancelled"} : Validating /\ V!GiveUp(c, why)
    \/ Validating /\ V!TimerFires
    \/ \E g \in fired : Validating /\ V!IdleStop(g)
    \/ Validating /\ V!Dies
    \/ \E here \in BOOLEAN : Validating /\ V!Install(here)

\* Runs are not told apart.
Interchangeable == Permutations(Run)

MCSpec == MCInit /\ [][MCNext]_<<subject, vars, workspace, handoff, captures, editions, validations>>

\* Workspace!CaptureWhole: generations that were ever named stay whole.
CaptureWhole == W!CaptureWhole

\* Workspace!AuthoredKept: no refresh replaces the operator's series file.
AuthoredKept == W!AuthoredKept

\* Handoff!HandedOnce, OneEdition, HookFollows and HookOnce: a watched folder
\* gets each chapter once and in one edition, save for copies that could not
\* be recorded; a command ends with what the records say and does nothing
\* twice for one delivery.
HandOffsTold == H!HandedOnce /\ H!OneEdition /\ H!HookFollows /\ H!HookOnce

\* Captures!CopiesTrue and MetadataBound: copies and metadata are of the
\* revision they are stored with, and whole.
CapturesTrue == C!CopiesTrue /\ C!MetadataBound

\* Edition!EditionsWhole: nothing of an author's EPUB is lost on its way into
\* a copy and a volume.
EditionsWhole == subject = "editions" => E!EditionsWhole

\* Validator!VerdictsHold: a caller gets its own verdict or a failure with a
\* cause, and no validator outlives its use unwatched.
VerdictsHold == subject = "validator" => V!VerdictsHold

\* Edition!CoverKept: not the one an EPUB 3 declares only the older way:
\* MCCoverLost.cfg.
CoverKept == E!CoverKept

\* Validator!IdleWatched: not when the command has gone: MCIdleValidator.cfg.
IdleWatched == V!IdleWatched

\* Captures!PictureWhole: a picture is one the site sent.  A cut write stays
\* in the cache for a day, so it is not: MCTornArtwork.cfg.
PictureWhole == C!PictureWhole

\* Captures!CopiesTrue: with two runs at once it does not hold, for one
\* renders the input the other is writing: MCTornRendering.cfg.
CopiesTrue == C!CopiesTrue
================================================================================
