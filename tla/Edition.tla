-------------------------------- MODULE Edition --------------------------------
(***************************************************************************)
(* How a reading copy is made from an author's EPUB, and a volume from     *)
(* reading copies.                                                         *)
(*                                                                         *)
(* A copy is always made from the retained original: the author's note is  *)
(* put before it (an EPUB 2 becomes an EPUB 3 for that), a lone chapter is *)
(* given its title, a cover is added where there is none.  A volume puts   *)
(* the packages of its chapters side by side, without the pages About that *)
(* earlier editions ended with, and may end with one of its own.           *)
(*                                                                         *)
(* An item is a space and a name: space 0 is the package's own, i that of  *)
(* the i-th member of a volume; an identifier is unique by construction,   *)
(* as uniqueManifestID makes it.  A table of contents is the sequence of   *)
(* its entries, each with its depth.                                       *)
(***************************************************************************)
EXTENDS Integers, FiniteSets, SequencesExt

CONSTANTS
    Chapters,      \* how many chapters there are, in reading order
    Originals,     \* for each chapter, what it may have been published as
    Settings,      \* for each chapter, how copies of it may be configured
    Publications,  \* what a volume may be decorated with
    PDF, Text, Other,  \* what is not an EPUB: a PDF, the post itself, the rest
    Failed, None

VARIABLES
    original,  \* the retained attachment of each chapter
    setting,   \* how its copy was last made
    copy,      \* that copy
    volume     \* the volume made of the copies

vars == <<original, setting, copy, volume>>

Number == 1..Chapters

-----------------------------------------------------------------------------
(* Pages and entries keep their order when some are left out.              *)

\* The i-th of these positions has i of them up to itself.
Ranked(positions) ==
    [i \in 1..Cardinality(positions) |->
        CHOOSE k \in positions : Cardinality({j \in positions : j <= k}) = i]
Only(s, positions) ==
    [i \in DOMAIN Ranked(positions) |-> s[Ranked(positions)[i]]]

-----------------------------------------------------------------------------
(* A package: kind of each manifest item, files in the archive, reading    *)
(* order, tables of contents, the item where the text starts, the items    *)
(* with the cover property and the one named by the older metadata, the    *)
(* identity it shows, and the items marked as generated About pages.       *)

Own(name) == <<0, name>>
Preface == Own("preface")
About == Own("about")
Cover == Own("cover")
GeneratedNav == Own("generated nav")

Entry(depth, label, to) == [depth |-> depth, label |-> label, to |-> to]
OfKind(pkg, kinds) == {i \in DOMAIN pkg.kind : pkg.kind[i] \in kinds}
Navigation(pkg) == OfKind(pkg, {"nav", "ncx"})
IsEPUB(o) == o \notin {PDF, Text, Other, Failed, None}

\* The structural checks of an archive about to be written.
WellFormed(pkg) ==
    /\ pkg.version = 3 => Cardinality(OfKind(pkg, {"nav"})) = 1
    /\ pkg.spine # <<>>
    /\ ToSet(pkg.spine) \subseteq DOMAIN pkg.kind
    /\ IsInjective(pkg.spine)

Valid(pkg) == WellFormed(pkg) /\ DOMAIN pkg.kind \subseteq pkg.files
Written(pkg) == IF Valid(pkg) THEN pkg ELSE Failed

\* The navigation document is read before the older one.
Contents(pkg) ==
    LET docs == IF OfKind(pkg, {"nav"}) # {} THEN OfKind(pkg, {"nav"})
                                             ELSE OfKind(pkg, {"ncx"})
    IN IF docs = {} THEN <<>> ELSE pkg.toc[CHOOSE d \in docs : TRUE]

-----------------------------------------------------------------------------
(* The author's note before the text.                                      *)

Add(pkg, item, kind) ==
    [pkg EXCEPT !.kind = [i \in DOMAIN @ \cup {item} |->
                             IF i = item THEN kind ELSE pkg.kind[i]],
                !.files = @ \cup {item}]
Drop(pkg, gone) ==
    [pkg EXCEPT !.kind = [i \in DOMAIN @ \ gone |-> pkg.kind[i]],
                !.files = @ \ gone]

\* An older cover is declared the new way, in an EPUB 2 only.
UpgradedCover(pkg) ==
    IF pkg.version = 2 /\ pkg.older # None THEN pkg.cover \cup {pkg.older} ELSE pkg.cover

\* Metadata declared the old way is dropped from an EPUB 3.
Sanitized(pkg) == [pkg EXCEPT !.older = None]

\* The older table of contents gives way to a navigation document.
ReplacedTOC(pkg) ==
    LET new == Add(Drop(pkg, OfKind(pkg, {"ncx"})), GeneratedNav, "nav")
    IN [new EXCEPT !.toc = [d \in {GeneratedNav} |-> Contents(pkg)]]

\* The note is the first entry; the text starts after it.
Spliced(toc) == <<Entry(0, "note", Preface)>> \o toc
Navigated(pkg, first) ==
    [pkg EXCEPT
        !.toc = [d \in DOMAIN @ |->
                    IF d \in OfKind(pkg, {"nav"}) THEN Spliced(pkg.toc[d]) ELSE pkg.toc[d]],
        !.start = IF @ = None THEN first ELSE @]

Wrapped(pkg) ==
    LET upgraded == Sanitized([pkg EXCEPT !.cover = UpgradedCover(pkg)])
        prefaced == [Add(upgraded, Preface, "page") EXCEPT !.spine = <<Preface>> \o @]
        replaced == IF pkg.version = 2 THEN ReplacedTOC(prefaced) ELSE prefaced
    IN Written(Navigated([replaced EXCEPT !.version = 3], Head(pkg.spine)))

-----------------------------------------------------------------------------
(* Metadata, cover, and the page About.                                    *)

Generated == {Preface, About, Cover, GeneratedNav}

\* The only entry that leads to the author's own text gets the title, if
\* what it says is generic; several entries are left alone.
Labels(toc) == Only(toc, {k \in DOMAIN toc : toc[k].to \notin Generated})
Replaceable(e) == e.to \notin Generated /\ e.label = "generic"
Titled(toc) ==
    [k \in DOMAIN toc |-> IF Len(Labels(toc)) = 1 /\ Replaceable(toc[k])
                          THEN [toc[k] EXCEPT !.label = "title"] ELSE toc[k]]
Relabelled(pkg) == [pkg EXCEPT !.toc = [d \in DOMAIN @ |-> Titled(pkg.toc[d])]]

WithoutPages(spine, gone) == Only(spine, {k \in DOMAIN spine : spine[k] \notin gone})

\* Mutant: the entries of the contents stay.
WithoutAboutPage(pkg) ==
    [Drop(pkg, pkg.about) EXCEPT !.spine = WithoutPages(@, pkg.about), !.about = {}]

\* Pages marked as generated go with their entries and their files.
WithoutEntries(toc, gone) == Only(toc, {k \in DOMAIN toc : toc[k].to \notin gone})
WithoutAbout(pkg) ==
    [Drop(pkg, pkg.about) EXCEPT
        !.spine = WithoutPages(@, pkg.about),
        !.toc = [d \in DOMAIN @ |-> WithoutEntries(pkg.toc[d], pkg.about)],
        !.about = {}]

CoverOf(pkg) == pkg.cover \cup ({pkg.older} \ {None})

\* A cover is added where there is none, or in place of one by override.
Covered(pkg, publication) ==
    IF publication.cover /\ (CoverOf(pkg) = {} \/ publication.override)
    THEN [Add(pkg, Cover, "image") EXCEPT
            !.cover = IF pkg.version = 3 THEN {Cover} ELSE {}, !.older = Cover]
    ELSE pkg

\* One page at the end, and one entry in every table of contents.
WithEntry(toc) == Append(toc, Entry(0, "about", About))
WithAbout(pkg, publication) ==
    IF ~publication.authors THEN pkg
    ELSE [Add(pkg, About, "page") EXCEPT
            !.spine = Append(@, About),
            !.about = {About},
            !.toc = [d \in DOMAIN @ |-> WithEntry(pkg.toc[d])]]

Decorated(pkg, publication, about) ==
    LET covered == Covered(WithoutAbout(pkg), publication)
    IN IF about THEN WithAbout(covered, publication) ELSE covered

Identified(pkg, publication, preserve) ==
    IF publication # None /\ publication.identity = "release" THEN "ours"
    ELSE IF ~preserve \/ pkg.identity = "none" THEN "ours" ELSE pkg.identity

WithMetadata(pkg, publication, preserve, chapter, about) ==
    LET named == [pkg EXCEPT !.identity = Identified(pkg, publication, preserve)]
        labelled == IF chapter THEN Relabelled(named) ELSE named
    IN Written(IF publication = None THEN labelled
                                     ELSE Decorated(labelled, publication, about))

-----------------------------------------------------------------------------
(* A copy.                                                                 *)

\* A package built from a sequence of pages, each an entry.
Built(pages, labels, start) ==
    [version |-> 3,
     kind |-> [i \in {Own(pages[k]) : k \in DOMAIN pages} \cup {Own("nav")} |->
                  IF i = Own("nav") THEN "nav" ELSE "page"],
     files |-> {Own(pages[k]) : k \in DOMAIN pages} \cup {Own("nav")},
     spine |-> [k \in DOMAIN pages |-> Own(pages[k])],
     toc |-> [d \in {Own("nav")} |-> [k \in DOMAIN pages |-> Entry(0, labels[k], Own(pages[k]))]],
     start |-> start, cover |-> {}, older |-> None, identity |-> "ours", about |-> {}]

\* A post's text has its words already; an attachment may get the note.
Prefaced(o, d) == d.preface /\ o # Text
NeedsCheck(o, d) ==
    IF IsEPUB(o) THEN Prefaced(o, d) ELSE d.format = "epub"

Profiled(o, d) ==
    IF IsEPUB(o) THEN IF Prefaced(o, d) THEN Wrapped(o) ELSE o
    ELSE IF d.format = "preserve" THEN o
    ELSE IF o = Other THEN Failed
    ELSE IF Prefaced(o, d) THEN Built(<<"note", "text">>, <<"note", "title">>, Own("text"))
    ELSE Built(<<"text">>, <<"title">>, Own("text"))

Rendered(o, d) ==
    LET profiled == Profiled(o, d)
        decorates == NeedsCheck(o, d) \/ (d.publication # None /\ IsEPUB(profiled))
    IN IF profiled # Failed /\ decorates
       THEN WithMetadata(profiled, d.publication, IsEPUB(o), d.format = "epub", FALSE)
       ELSE profiled

-----------------------------------------------------------------------------
(* A volume.                                                               *)

Moved(i, item) == <<i, item[2]>>
MovedTOC(i, toc) == [k \in DOMAIN toc |-> [toc[k] EXCEPT !.to = Moved(i, @)]]

\* A chapter's own contents are nested under it; when they are the chapter
\* and what is in it, they take its place.
Deeper(toc) == [k \in DOMAIN toc |-> [toc[k] EXCEPT !.depth = @ + 1]]
HoldsAll(toc, page) ==
    /\ toc # <<>> /\ Head(toc).to = page
    /\ \E k \in DOMAIN toc : \A j \in DOMAIN toc : toc[j].depth = 0 <=> j = k
Nested(i, m) ==
    LET toc == MovedTOC(i, Contents(m))
        first == Moved(i, Head(m.spine))
    IN <<Entry(0, "chapter", first)>> \o IF HoldsAll(toc, first) THEN Tail(toc) ELSE Deeper(toc)

\* Every chapter must open, hold all it lists, and have something to read.
Usable(copies) ==
    \A i \in DOMAIN copies :
        /\ IsEPUB(copies[i])
        /\ DOMAIN copies[i].kind \subseteq copies[i].files
        /\ \E k \in DOMAIN copies[i].spine : copies[i].spine[k] \in DOMAIN copies[i].kind

\* What the volume has of its members: items, pages, contents.
Members(copies) == [i \in DOMAIN copies |-> WithoutAbout(copies[i])]
Place(i, items) == {Moved(i, x) : x \in items}
Items(m) == UNION {Place(i, DOMAIN m[i].kind) : i \in DOMAIN m}
OlderContents(m) == UNION {Place(i, OfKind(m[i], {"ncx"})) : i \in DOMAIN m}
MovedSpine(i, spine) == [k \in DOMAIN spine |-> Moved(i, spine[k])]
Spines(m) == [i \in DOMAIN m |-> MovedSpine(i, m[i].spine)]
Tables(m) == [i \in DOMAIN m |-> Nested(i, m[i])]

\* A member's navigation document becomes a page.
Was(m, x) == m[x[1]].kind[Own(x[2])]
KindIn(m, x) == IF Was(m, x) = "nav" THEN "page" ELSE Was(m, x)

Bound(m) ==
    LET frame == Built(<<"contents">>, <<"contents">>, Own("contents"))
    IN [frame EXCEPT
            !.kind = [x \in DOMAIN @ \cup Items(m) |->
                         IF x[1] = 0 THEN frame.kind[x] ELSE KindIn(m, x)],
            !.files = @ \cup Items(m),
            !.spine = @ \o FlattenSeq(Spines(m)),
            !.toc = [x \in {Own("nav")} \cup OlderContents(m) |->
                        IF x[1] = 0 THEN FlattenSeq(Tables(m))
                                    ELSE MovedTOC(x[1], m[x[1]].toc[Own(x[2])])],
            !.start = Moved(1, Head(m[1].spine))]

Assembled(copies, publication) ==
    IF Usable(copies) /\ Valid(Bound(Members(copies)))
    THEN WithMetadata(Bound(Members(copies)), publication, FALSE, FALSE, TRUE)
    ELSE Failed

-----------------------------------------------------------------------------
\* An attachment may itself be an earlier edition, with a page About.
Earlier(o) ==
    IF IsEPUB(o)
    THEN {WithMetadata(o, p, TRUE, TRUE, TRUE) : p \in {q \in Publications : q.authors}}
         \ {Failed}
    ELSE {}
Attachments(i) == Originals[i] \cup UNION {Earlier(o) : o \in Originals[i]}

Init ==
    /\ original = [i \in Number |-> None]
    /\ setting = [i \in Number |-> None]
    /\ copy = [i \in Number |-> None]
    /\ volume = None

\* A chapter is captured; what was retained of it is never changed.
Retain(i, o) ==
    /\ original[i] = None
    /\ original' = [original EXCEPT ![i] = o]
    /\ UNCHANGED <<setting, copy, volume>>

\* A copy is made.  It depends neither on an earlier copy nor on a volume, so
\* that making one once, and the volume last, leaves nothing out.
Render(i, d) ==
    /\ original[i] # None /\ copy[i] = None
    /\ setting' = [setting EXCEPT ![i] = d]
    /\ copy' = [copy EXCEPT ![i] = Rendered(original[i], d)]
    /\ UNCHANGED <<original, volume>>

\* The volume is made of the copies as they are.
BuildVolume(publication) ==
    /\ volume = None
    /\ \A i \in Number : copy[i] \notin {None, Failed}
    /\ volume' = Assembled(copy, publication)
    /\ UNCHANGED <<original, setting, copy>>

Next ==
    \/ \E i \in Number :
         \/ \E o \in Attachments(i) : Retain(i, o)
         \/ \E d \in Settings[i] : Render(i, d)
    \/ \E publication \in Publications : BuildVolume(publication)

Spec == Init /\ [][Next]_vars

-----------------------------------------------------------------------------
(* What must survive.                                                      *)

IsAbout(item) == item[2] = "about"
Targets(toc) == [k \in DOMAIN toc |-> <<toc[k].depth, toc[k].to>>]
Aim(toc) == [k \in DOMAIN toc |-> toc[k].to]
Authors(spine) == WithoutPages(spine, Generated)

\* Everything a package refers to is in it.
Resolves(pkg) ==
    LET items == DOMAIN pkg.kind IN
    /\ ToSet(pkg.spine) \cup CoverOf(pkg) \cup ({pkg.start} \ {None}) \cup pkg.about \subseteq items
    /\ \A d \in DOMAIN pkg.toc : d \in Navigation(pkg) /\ ToSet(Aim(pkg.toc[d])) \subseteq items

\* No cover of the author's is declared only the older way in an EPUB 3
\* that is given a preface.
Declared(o, d) == Prefaced(o, d) /\ o.version = 3 => o.cover # {}

CoverSurvives(o, d, c) ==
    \/ CoverOf(o) = {}
    \/ CoverOf(c) = CoverOf(o)
    \/ d.publication # None /\ d.publication.cover /\ d.publication.override

\* A copy has all the author's pages in their order, every entry of the
\* table of contents at its place, a multi-entry one with its labels, all
\* resources, and the cover unless it was to be replaced; nothing in it
\* leads nowhere, and one made with metadata ends with the author's text.
CopyWhole(o, d, c) ==
    /\ Resolves(c)
    /\ Authors(c.spine) = Authors(o.spine)
    /\ Targets(Labels(Contents(c))) = Targets(Labels(Contents(o)))
    /\ Len(Labels(Contents(o))) > 1 => Labels(Contents(c)) = Labels(Contents(o))
    /\ o.files \ (OfKind(o, {"ncx"}) \cup Generated) \subseteq c.files
    /\ Declared(o, d) => CoverSurvives(o, d, c)
    /\ d.publication # None => \A k \in DOMAIN c.spine : ~IsAbout(c.spine[k])

\* A volume has every page of every chapter in order, with all resources,
\* its entries under their chapter, and no chapter's cover as its own.
VolumeWhole(copies, v) ==
    LET m == Members(copies)
        nav == v.toc[Own("nav")]
        under(i) == Only(Aim(nav), {k \in DOMAIN nav : nav[k].to[1] = i})
        theirs(i) == Aim(MovedTOC(i, Contents(m[i])))
        first(i) == Moved(i, Head(m[i].spine))
    IN /\ Resolves(v)
       /\ Only(v.spine, {k \in DOMAIN v.spine : v.spine[k][1] # 0}) = FlattenSeq(Spines(m))
       /\ \A i \in Number :
             /\ \A f \in DOMAIN m[i].kind : Moved(i, f) \in v.files
             /\ under(i) \in {theirs(i), <<first(i)>> \o theirs(i)}
       /\ Only(nav, {k \in DOMAIN nav : nav[k].depth = 0 /\ nav[k].to[1] # 0})
            = [i \in Number |-> Entry(0, "chapter", first(i))]
       /\ CoverOf(v) \subseteq {Cover}

\* A volume has at most one page About, last, with one entry in every table
\* of contents, last too, and marked, so that it can be taken out again.
OneAbout(v) ==
    LET pages == {k \in DOMAIN v.spine : IsAbout(v.spine[k])}
    IN /\ pages \subseteq {Len(v.spine)}
       /\ v.about = {v.spine[k] : k \in pages}
       /\ {i \in v.files : IsAbout(i)} = v.about
       /\ \A d \in DOMAIN v.toc :
             {k \in DOMAIN v.toc[d] : IsAbout(v.toc[d][k].to)}
               = IF pages = {} THEN {} ELSE {Len(v.toc[d])}

\* Nothing of the author's is lost between the attachment, its copy and the
\* volume, and only a volume ends with a page of the program's own.
EditionsWhole ==
    /\ \A i \in Number :
          IsEPUB(original[i]) /\ copy[i] \notin {None, Failed}
            => CopyWhole(original[i], setting[i], copy[i])
    /\ volume \notin {None, Failed} => VolumeWhole(copy, volume) /\ OneAbout(volume)

\* What every edition is: it starts with a page of its text, its contents
\* start at the top, all it refers to is in it, two declarations of a cover
\* name the same one, and what is named About is marked, and only listed last.
Parts == {"version", "kind", "files", "spine", "toc", "start", "cover", "older",
          "identity", "about"}
Wording == {"generic", "own", "title", "note", "chapter", "contents", "about"}
Listing(toc, items, about) ==
    /\ toc \in Seq([depth : Nat, label : Wording, to : items])
    /\ toc # <<>> => toc[1].depth = 0
    /\ \A k \in DOMAIN toc : toc[k].to \in about => k = Len(toc)
Whole(pkg) ==
    LET items == DOMAIN pkg.kind IN
    /\ DOMAIN pkg = Parts
    /\ pkg.version \in {2, 3} /\ pkg.kind \in [items -> {"page", "image", "nav", "ncx"}]
    /\ pkg.spine \in Seq(items) /\ pkg.spine # <<>> /\ pkg.spine[1] \notin pkg.about
    /\ pkg.toc = [d \in Navigation(pkg) |-> pkg.toc[d]]
    /\ \A d \in Navigation(pkg) : Listing(pkg.toc[d], items, pkg.about)
    /\ CoverOf(pkg) \cup ({pkg.start} \ {None}) \subseteq items \ pkg.about
    /\ pkg.cover # {} => pkg.older \in pkg.cover \cup {None}
    /\ pkg.about = {i \in items : IsAbout(i)} /\ pkg.about \subseteq {About}
    /\ Navigation(pkg) \cap {Preface, About, Cover} = {}

\* What is expected of an author's, besides: names that are not the program's,
\* and nothing that leads to the older contents.
Unled(pkg) ==
    LET led == CoverOf(pkg) \cup ({pkg.start} \ {None})
                 \cup UNION {ToSet(Aim(pkg.toc[d])) : d \in Navigation(pkg)}
    IN led \cap OfKind(pkg, {"ncx"}) = {}
Authored(o) ==
    /\ Whole(o) /\ Unled(o) /\ IsFiniteSet(DOMAIN o.kind)
    /\ \A x \in DOMAIN o.kind : x = Own(x[2]) /\ x \notin Generated

\* The documentation keeps an embedded cover that nothing overrides.
CoverKept ==
    \A i \in Number :
        IsEPUB(original[i]) /\ copy[i] \notin {None, Failed}
          => CoverSurvives(original[i], setting[i], copy[i])
================================================================================
