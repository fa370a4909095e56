-------------------------------- MODULE Captures --------------------------------
(***************************************************************************)
(* The bytes a release is made from: its attachment and the author's       *)
(* picture, downloaded once, kept, checked and rendered.                   *)
(*                                                                         *)
(* An attachment goes from the site into a cache of captures, whose        *)
(* manifest is the commit point, from there into the inputs kept with the  *)
(* archive, and from those into a reading copy.  A picture goes into a     *)
(* daily cache by its address, from there under its digest, and with the   *)
(* metadata of its revision into the archive.  Captures are renamed into   *)
(* place; inputs and pictures are written in place, so that a process that *)
(* dies, or another that looks, finds them torn.                           *)
(*                                                                         *)
(* One release; its revisions stand for the edits of its post.  A digest   *)
(* is the content it is the digest of.  Torn stands for every proper       *)
(* prefix; as a picture, for one that still looks like an image.           *)
(***************************************************************************)
EXTENDS Integers

CONSTANTS
    Process,     \* runs of the program, each begun again and again
    Revision,    \* revisions of the post
    First,       \* the one it is published with
    Bytes,       \* contents the site may send for an attachment
    Picture,     \* the author's picture
    Torn, Absent, None,
    MaxChanges,  \* bound: edits, replaced attachments
    MaxFaults    \* bound: failed requests, deaths, damaged files

VARIABLES
    post,     \* the revision the site shows
    served,   \* the attachment it sends for each revision
    sent,     \* history: what it has sent
    disk,     \* what is in each place
    fresh,    \* the picture's cache is less than a day old
    cooling,  \* its last request failed less than an hour ago
    rows,     \* metadata stored for each revision
    release,  \* the stored release with its rendering
    run,      \* each process: its step and what it has in memory
    changes, faults

vars == <<post, served, sent, disk, fresh, cooling, rows, release, run,
          changes, faults>>
site == <<post, served, changes>>
stored == <<rows, release>>

Contents == Bytes \cup {Picture, Torn}
Place ==
    ({"manifest"} \X Revision) \cup ({"payload"} \X Revision \X Bytes)
    \cup ({"input"} \X Bytes) \cup {<<"picture">>}
    \cup ({"capture", "asset"} \X {Picture, Torn})

Meta(t, content, home) == [of |-> t, picture |-> content, home |-> home]
Idle == [pc |-> "off", kind |-> "sync", text |-> First, file |-> None,
         meta |-> Meta(First, None, "capture"), shows |-> None,
         at |-> <<>>, bytes |-> None, then |-> "off"]

At(p, step) == run[p].pc = step
Goto(p, step) == run' = [run EXCEPT ![p].pc = step]
Fault == faults < MaxFaults /\ faults' = faults + 1
Ends(p) == run' = [run EXCEPT ![p] = Idle]

Init ==
    /\ post = First /\ served \in [Revision -> Bytes] /\ sent = {}
    /\ disk = [f \in Place |-> Absent]
    /\ fresh = FALSE /\ cooling = FALSE
    /\ rows = [t \in Revision |-> None] /\ release = None
    /\ run = [p \in Process |-> Idle]
    /\ changes = 0 /\ faults = 0

\* A sync goes on with the attachment.
After(p) == IF run[p].kind = "enrich" THEN "off" ELSE "prepare"

-----------------------------------------------------------------------------
(* Writing in place: the file is truncated first.                          *)

Open(p, place, content, then) ==
    /\ disk' = [disk EXCEPT ![place] = Torn]
    /\ run' = [run EXCEPT ![p].pc = "write", ![p].at = place, ![p].bytes = content,
                          ![p].then = then]

Closed(p) == [run[p] EXCEPT !.at = <<>>, !.bytes = None, !.then = "off"]

Close(p) ==
    /\ At(p, "write")
    /\ disk' = [disk EXCEPT ![run[p].at] = run[p].bytes]
    /\ run' = [run EXCEPT ![p] = [Closed(p) EXCEPT !.pc = run[p].then]]
    /\ UNCHANGED <<site, sent, fresh, cooling, stored, faults>>

\* The disk is full.  A picture is optional, an input is not.
WriteFails(p) ==
    /\ At(p, "write") /\ Fault
    /\ cooling' = (cooling \/ run[p].at = <<"picture">>)
    /\ run' = [run EXCEPT ![p] =
          CASE run[p].at[1] = "input" -> Idle
            [] run[p].at[1] = "asset" -> [Closed(p) EXCEPT !.pc = After(p)]
            [] OTHER -> [Closed(p) EXCEPT !.pc = "enrich", !.meta.picture = None]]
    /\ UNCHANGED <<site, sent, disk, fresh, stored>>

-----------------------------------------------------------------------------
(* A sync takes the post as it is, a dump too; a rebuild or an enrichment  *)
(* takes the stored release with the metadata of its revision.             *)

Sync(p) ==
    /\ At(p, "off")
    /\ run' = [run EXCEPT ![p] = [Idle EXCEPT
          !.pc = "picture", !.text = post, !.meta = Meta(post, None, "capture")]]
    /\ UNCHANGED <<site, sent, disk, fresh, cooling, stored, faults>>

Dump(p) ==
    /\ At(p, "off")
    /\ run' = [run EXCEPT ![p] = [Idle EXCEPT !.pc = "prepare", !.kind = "dump", !.text = post]]
    /\ UNCHANGED <<site, sent, disk, fresh, cooling, stored, faults>>

\* The metadata is bound to the capture by everything in it but digests.
Fingerprint(rel) == rel.text
Bound(rel) == rows[Fingerprint(rel)]

MetaOf(rel) == IF Bound(rel) # None THEN Bound(rel) ELSE rel.meta

Load(p, kind, step) ==
    /\ At(p, "off") /\ release # None
    /\ run' = [run EXCEPT ![p] = [Idle EXCEPT
          !.pc = step, !.kind = kind, !.text = release.text, !.file = release.file,
          !.meta = MetaOf(release)]]
    /\ UNCHANGED <<site, sent, disk, fresh, cooling, stored, faults>>

Rebuild(p) == Load(p, "rebuild", "inspect")
EnrichStored(p) == Load(p, "enrich", "enrich")

-----------------------------------------------------------------------------
(* The picture: optional, a day from the cache, an hour without after a    *)
(* failure.                                                                *)

PictureCooling(p) ==
    /\ At(p, "picture") /\ cooling
    /\ Goto(p, "enrich")
    /\ UNCHANGED <<site, sent, disk, fresh, cooling, stored, faults>>

PictureCached(p) ==
    /\ At(p, "picture") /\ ~cooling
    /\ disk[<<"picture">>] # Absent /\ fresh
    /\ run' = [run EXCEPT ![p].pc = "capture", ![p].meta.picture = disk[<<"picture">>]]
    /\ UNCHANGED <<site, sent, disk, fresh, cooling, stored, faults>>

PictureFetched(p) ==
    /\ At(p, "picture") /\ ~cooling
    /\ disk[<<"picture">>] = Absent \/ ~fresh
    /\ disk' = [disk EXCEPT ![<<"picture">>] = Torn]
    /\ run' = [run EXCEPT ![p] = [run[p] EXCEPT
          !.pc = "write", !.at = <<"picture">>, !.bytes = Picture, !.then = "capture",
          !.meta.picture = Picture]]
    /\ fresh' = TRUE
    /\ UNCHANGED <<site, sent, cooling, stored, faults>>

PictureFails(p) ==
    /\ At(p, "picture") /\ ~cooling
    /\ disk[<<"picture">>] = Absent \/ ~fresh
    /\ Fault
    /\ cooling' = TRUE
    /\ Goto(p, "enrich")
    /\ UNCHANGED <<site, sent, disk, fresh, stored>>

\* Under its digest, which is taken of the bytes in memory.
CapturePicture(p) ==
    /\ At(p, "capture")
    /\ Open(p, <<"capture", run[p].meta.picture>>, run[p].meta.picture, "enrich")
    /\ UNCHANGED <<site, sent, fresh, cooling, stored, faults>>

-----------------------------------------------------------------------------
(* The metadata of a revision is stored beside the release, if its picture *)
(* can be copied into the archive; a sync goes on without.                 *)

PictureAt(p) == <<run[p].meta.home, run[p].meta.picture>>
PictureHeld(p) == run[p].meta.picture # None => disk[PictureAt(p)] = run[p].meta.picture

KeepPicture(p) ==
    /\ At(p, "enrich") /\ run[p].meta.picture # None /\ PictureHeld(p)
    /\ Open(p, <<"asset", run[p].meta.picture>>, run[p].meta.picture, "row")
    /\ UNCHANGED <<site, sent, fresh, cooling, stored, faults>>

PictureChanged(p) ==
    /\ At(p, "enrich") /\ ~PictureHeld(p)
    /\ Goto(p, After(p))
    /\ UNCHANGED <<site, sent, disk, fresh, cooling, stored, faults>>

SaveReleaseEnrichment(p) ==
    /\ \/ At(p, "row")
       \/ At(p, "enrich") /\ run[p].meta.picture = None
    /\ rows' = [rows EXCEPT ![run[p].text] =
                   Meta(run[p].meta.of, run[p].meta.picture, "asset")]
    /\ Goto(p, After(p))
    /\ UNCHANGED <<site, sent, disk, fresh, cooling, release, faults>>

-----------------------------------------------------------------------------
(* The attachment: a verified capture of this very revision, or a download. *)

\* Mutant: a capture is known by the post alone.
KeyOfPost(t) == First

\* Signed addresses rotate, the revision does not.
Key(t) == t

Payload(p, b) == <<"payload", Key(run[p].text), b>>
Manifest(p) == <<"manifest", Key(run[p].text)>>
Hit(p) ==
    LET b == disk[Manifest(p)] IN b \in Bytes /\ disk[Payload(p, b)] = b

CacheHit(p) ==
    /\ At(p, "prepare") /\ Hit(p)
    /\ run' = [run EXCEPT ![p].pc = "inspect", ![p].file = disk[Manifest(p)]]
    /\ UNCHANGED <<site, sent, disk, fresh, cooling, stored, faults>>

Download(p) ==
    /\ At(p, "prepare") /\ ~Hit(p)
    /\ sent' = sent \cup {<<run[p].text, served[run[p].text]>>}
    /\ run' = [run EXCEPT ![p].pc = "payload", ![p].file = served[run[p].text]]
    /\ UNCHANGED <<site, disk, fresh, cooling, stored, faults>>

DownloadFails(p) ==
    /\ At(p, "prepare") /\ ~Hit(p)
    /\ Fault /\ Ends(p)
    /\ UNCHANGED <<site, sent, disk, fresh, cooling, stored>>

WritePayload(p) ==
    /\ At(p, "payload")
    /\ disk' = [disk EXCEPT ![Payload(p, run[p].file)] = run[p].file]
    /\ Goto(p, "manifest")
    /\ UNCHANGED <<site, sent, fresh, cooling, stored, faults>>

WriteManifest(p) ==
    /\ At(p, "manifest")
    /\ disk' = [disk EXCEPT ![Manifest(p)] = run[p].file]
    /\ Goto(p, "inspect")
    /\ UNCHANGED <<site, sent, fresh, cooling, stored, faults>>

-----------------------------------------------------------------------------
(* Before it is used, a file must have the digest it is known by.          *)

LocalPath(p) ==
    IF run[p].kind = "rebuild" THEN <<"input", run[p].file>> ELSE Payload(p, run[p].file)
Unharmed(p) == disk[LocalPath(p)] = run[p].file

Export(p) ==
    /\ At(p, "inspect") /\ run[p].kind = "dump" /\ Unharmed(p)
    /\ Ends(p)
    /\ UNCHANGED <<site, sent, disk, fresh, cooling, stored, faults>>

Inspect(p) ==
    /\ At(p, "inspect") /\ run[p].kind # "dump" /\ Unharmed(p)
    /\ Goto(p, "keep")
    /\ UNCHANGED <<site, sent, disk, fresh, cooling, stored, faults>>

Mismatch(p) ==
    /\ At(p, "inspect") \/ At(p, "keep")
    /\ ~Unharmed(p)
    /\ Ends(p)
    /\ UNCHANGED <<site, sent, disk, fresh, cooling, stored, faults>>

\* The archive's own copy; a rebuild reads it where it is.
KeepInput(p) ==
    /\ At(p, "keep") /\ Unharmed(p) /\ run[p].kind = "sync"
    /\ Open(p, <<"input", run[p].file>>, run[p].file, "render")
    /\ UNCHANGED <<site, sent, fresh, cooling, stored, faults>>

InputKept(p) ==
    /\ At(p, "keep") /\ Unharmed(p) /\ run[p].kind = "rebuild"
    /\ Goto(p, "render")
    /\ UNCHANGED <<site, sent, disk, fresh, cooling, stored, faults>>

\* The reading copy is made of what is there now.  A picture must still have
\* its digest.
Render(p) ==
    /\ At(p, "render")
    /\ disk[<<"input", run[p].file>>] # Absent
    /\ PictureHeld(p)
    /\ run' = [run EXCEPT ![p].pc = "save", ![p].shows = disk[<<"input", run[p].file>>]]
    /\ UNCHANGED <<site, sent, disk, fresh, cooling, stored, faults>>

RenderFails(p) ==
    /\ At(p, "render")
    /\ disk[<<"input", run[p].file>>] = Absent \/ ~PictureHeld(p)
    /\ Ends(p)
    /\ UNCHANGED <<site, sent, disk, fresh, cooling, stored, faults>>

\* A sync that finds the release as it is stored leaves it.
SaveSyncSnapshot(p) ==
    /\ At(p, "save")
    /\ IF /\ run[p].kind = "sync" /\ release # None
          /\ release.text = run[p].text /\ release.file = run[p].file
       THEN UNCHANGED release
       ELSE release' = [text |-> run[p].text, file |-> run[p].file,
                        shows |-> run[p].shows, meta |-> run[p].meta]
    /\ Ends(p)
    /\ UNCHANGED <<site, sent, disk, fresh, cooling, rows, faults>>

-----------------------------------------------------------------------------
(* Everyone else.                                                          *)

Dies(p) ==
    /\ run[p].pc # "off" /\ Fault
    /\ Ends(p)
    /\ UNCHANGED <<site, sent, disk, fresh, cooling, stored>>

\* Between runs a file of the caches or of the archive is lost or cut short:
\* by a disk, by a power loss, by somebody who tidies up.
Damage(place) ==
    /\ \A p \in Process : At(p, "off")
    /\ disk[place] \notin {Absent, Torn} /\ Fault
    /\ \E left \in {Absent, Torn} : disk' = [disk EXCEPT ![place] = left]
    /\ UNCHANGED <<site, sent, fresh, cooling, stored, run>>

\* Age matters at one step only, so between runs is soon enough.
TimePasses ==
    /\ \A p \in Process : At(p, "off")
    /\ fresh \/ cooling
    /\ cooling' = FALSE
    /\ fresh' \in {FALSE, fresh}   \* an hour or a day
    /\ UNCHANGED <<site, sent, disk, stored, run, faults>>

Change == changes < MaxChanges /\ changes' = changes + 1

Edit(t) ==
    /\ Change /\ t # post
    /\ post' = t
    /\ UNCHANGED <<served, sent, disk, fresh, cooling, stored, run, faults>>

Replace(t, b) ==
    /\ Change /\ served[t] # b
    /\ served' = [served EXCEPT ![t] = b]
    /\ UNCHANGED <<post, sent, disk, fresh, cooling, stored, run, faults>>

Next ==
    \/ \E p \in Process :
        \/ Sync(p) \/ Dump(p) \/ Rebuild(p) \/ EnrichStored(p) \/ Close(p) \/ WriteFails(p)
        \/ PictureCooling(p) \/ PictureCached(p) \/ PictureFetched(p) \/ PictureFails(p)
        \/ CapturePicture(p) \/ KeepPicture(p) \/ PictureChanged(p)
        \/ SaveReleaseEnrichment(p)
        \/ CacheHit(p) \/ Download(p) \/ DownloadFails(p) \/ WritePayload(p)
        \/ WriteManifest(p)
        \/ Export(p) \/ Inspect(p) \/ Mismatch(p) \/ KeepInput(p) \/ InputKept(p)
        \/ Render(p) \/ RenderFails(p) \/ SaveSyncSnapshot(p) \/ Dies(p)
    \/ \E place \in Place : Damage(place)
    \/ TimePasses
    \/ \E t \in Revision : Edit(t) \/ \E b \in Bytes : Replace(t, b)

Spec == Init /\ [][Next]_vars

-----------------------------------------------------------------------------
(* Properties.                                                             *)

\* However downloads are interrupted, attachments replaced and files damaged,
\* the reading copy shows, in full, what the site sent for the revision it
\* is stored with, and so does what a run hands on or a dump exports.
CopiesTrue ==
    /\ release # None => /\ release.shows = release.file
                         /\ <<release.text, release.file>> \in sent
    /\ \A p \in Process : At(p, "inspect") /\ Unharmed(p) => <<run[p].text, run[p].file>> \in sent

\* "a failed fetch cannot relabel older captured content": a release and its
\* metadata are of one revision, also when a later one was stored first.
MetadataBound == release # None => release.meta.of = release.text

\* A picture that stays in the cache for a day is one the site sent.
PictureWhole == release # None => release.meta.picture # Torn
================================================================================
