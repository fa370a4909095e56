------------------------------- MODULE Numbering -------------------------------
(***************************************************************************)
(* What a chapter's number becomes: a scalar position for volume coverage  *)
(* (Resolve) and the index that readers sort by (SeriesIndexes).  A text   *)
(* is what the detector's patterns find in it; a series is the sequence of *)
(* its releases by publication.  Releases are published, edited feeds show *)
(* older ones late, and the operator redeclares the books.                 *)
(***************************************************************************)
EXTENDS Integers, Sequences, SequencesExt, FiniteSetsExt

CONSTANTS
    Release,      \* what is found in a release's title and file name: [title, file]
    BookTables,   \* sequences of book declarations
    MaxReleases,  \* bound: releases of a series
    MaxPlaced     \* bound: releases of a series with declared books

Text == [book : Nat, chapter : Nat, label : {"none", "half", "dotted", "letter", "odd"},
         whole : Nat, fraction : Nat, part : Nat, marker : Nat, marked : Nat, plural : Nat]
\* A book starts at chapter 1 unless it declares another; 0 is no last chapter
\* and no declared position.
Declaration == [number : Nat \ {0}, first : Nat \ {0}, last : Nat, start : Nat]

ASSUME NumberingAssumption ==
    /\ MaxReleases \in Nat /\ MaxPlaced \in Nat
    /\ Release \subseteq [title : Text, file : Text]
    /\ BookTables \subseteq Seq(Declaration)

VARIABLES
    table,      \* the declared books
    series      \* the releases by publication

vars == <<table, series>>

-----------------------------------------------------------------------------
(* Detection.  A text has a book and an integral chapter, or 0; a label    *)
(* where the chapter is not integral: "half" (5.5 after the word chapter), *)
(* "dotted" (a bare 3.1 at the end), "letter" (24D), "odd" (-186), of      *)
(* which whole and fraction are the digits; a part number or 0; the book   *)
(* of a short marker ("B2 Prologue", "B2 C1") and the integral chapter it  *)
(* gives, which of "B2 Chapter 5.5" is 5; the first number of "Chapters    *)
(* 5 - 6".                                                                 *)

Plain == [book |-> 0, chapter |-> 0, label |-> "none", whole |-> 0, fraction |-> 0,
          part |-> 0, marker |-> 0, marked |-> 0, plural |-> 0]

HasChapter(t) == t.chapter > 0 \/ t.label # "none"

\* One more text is read into what was found so far.
Merge(info, t) ==
    LET book == IF info.book = 0 THEN t.book ELSE info.book
        taken == ~HasChapter(info) /\ info.part = 0 /\ (HasChapter(t) \/ t.part # 0)
        base == [(IF taken THEN t ELSE info) EXCEPT !.book = book]
    IN [base EXCEPT !.part = IF @ = 0 THEN t.part ELSE @]

\* The title is searched first; its own markers stay its own.
Detect(r) ==
    LET found == Merge(Merge(Plain, r.title), r.file)
    IN [found EXCEPT !.marker = r.title.marker, !.marked = r.title.marked,
                     !.plural = r.title.plural]

-----------------------------------------------------------------------------
(* Positions.                                                              *)

\* The first position a declaration claims, given the end of the earlier ones.
Claimed(book, end) ==
    IF book.start > 0 THEN book.start ELSE IF book.first > 1 THEN book.first ELSE end + 1

\* The last claimed position up to book n, or -1 once two claims overlap.
End(b, n) ==
    FoldLeft(LAMBDA end, book :
                 IF end < 0 \/ Claimed(book, end) <= end THEN -1
                 ELSE Claimed(book, end) + (IF book.last > 0 THEN book.last - book.first ELSE 0),
             0, SubSeq(b, 1, n))

\* What configuration loading accepts.
ValidTable(b) ==
    /\ \A i, j \in 1..Len(b) : i < j => b[i].number < b[j].number
    /\ \A i \in 1..Len(b) : b[i].last > 0 => b[i].last >= b[i].first
    /\ End(b, Len(b)) >= 0

\* The position of book n's first chapter, or 0 when unknown.
Offsets(b) ==
    LET at[n \in 1..Len(b)] ==
          LET book == b[n]
              open == n > 1 /\ b[n - 1].last < b[n - 1].first
              follows == IF n = 1 THEN book.number = 1 ELSE book.number = b[n - 1].number + 1
              next == IF n = 1 THEN 1
                      ELSE IF open \/ at[n - 1] = 0 THEN 0
                      ELSE at[n - 1] + b[n - 1].last - b[n - 1].first + 1
          IN IF book.start > 0 THEN book.start
             ELSE IF book.first > 1 THEN book.first
             ELSE IF follows THEN next ELSE 0
    IN at

\* Mutant: only a declared start is a claim.
LaterStartsDeclared(b, n) == {b[i].start : i \in (n + 1)..Len(b)} \ {0}

\* Positions that later books claim outright.
LaterStarts(b, n) ==
    {s \in {IF b[i].start = 0 /\ b[i].first > 1 THEN b[i].first ELSE b[i].start :
              i \in (n + 1)..Len(b)} : s > 0}

\* The position of a chapter; 0 is none: not integral or in parts, of an
\* unknown book, outside its book's range, in a book of unknown offset, or
\* beyond a claim of a later book.
Position(b, d) ==
    IF d.book = 0 THEN IF d.label = "none" /\ d.part = 0 THEN d.chapter ELSE 0
    ELSE IF \E n \in 1..Len(b) : b[n].number = d.book
      THEN LET n == CHOOSE i \in 1..Len(b) : b[i].number = d.book
               inside == d.chapter >= b[n].first /\ (b[n].last > 0 => d.chapter <= b[n].last)
               at == Offsets(b)[n] + d.chapter - b[n].first
           IN IF /\ inside /\ d.label = "none" /\ d.part = 0 /\ Offsets(b)[n] > 0
                 /\ \A s \in LaterStarts(b, n) : at < s
                THEN at ELSE 0
      ELSE 0

-----------------------------------------------------------------------------
(* The reader's index.                                                     *)

\* The author's coordinates: chapter 0 is unnumbered.  A short marker says
\* what no book and no chapter says.
Coordinates(r) ==
    LET d == Detect(r)
        book == IF d.book = 0 THEN d.marker ELSE d.book
        chapter == IF d.book = 0 /\ d.chapter = 0 THEN d.marked ELSE d.chapter
        C(b, c, half, dotted) == [book |-> b, chapter |-> c, half |-> half, dotted |-> dotted,
                                  part |-> d.part, fraction |-> IF half THEN d.fraction ELSE 0]
    IN IF chapter > 0 THEN C(book, chapter, FALSE, FALSE)
       ELSE IF d.label = "none" /\ d.plural > 0 THEN C(book, d.plural, FALSE, FALSE)
       ELSE IF d.label = "dotted" /\ r.title.label = "dotted" /\ book = 0
         THEN C(d.whole, d.fraction, FALSE, TRUE)
       ELSE IF d.label \in {"half", "dotted"} THEN C(book, d.whole, d.whole > 0, FALSE)
       ELSE IF d.label = "letter" THEN C(book, d.whole, FALSE, FALSE)
       ELSE C(book, 0, FALSE, FALSE)

CoordinatesOf(s) == [i \in 1..Len(s) |-> Coordinates(s[i])]
Numbered(c) == c.chapter > 0 \/ c.dotted

\* Numbers when half the releases carry one, else parts, else plain order.
Mode(c) ==
    LET chapters == Quantify(1..Len(c), LAMBDA i : Numbered(c[i]))
        parts == Quantify(1..Len(c), LAMBDA i : ~Numbered(c[i]) /\ c[i].part > 0)
    IN IF chapters * 2 >= Len(c) THEN "chapter"
       ELSE IF parts > chapters /\ (chapters + parts) * 2 >= Len(c) THEN "part"
       ELSE "ordinal"

Larger(m, n) == IF m > n THEN m ELSE n

\* A later book starts again at or below a number that was reached.
RestartsPerBook(c) ==
    LET seen[n \in 0..Len(c)] ==
          IF n = 0 THEN [book |-> 0, highest |-> 0, restarts |-> FALSE]
          ELSE IF c[n].chapter = 0 THEN seen[n - 1]
          ELSE [book |-> Larger(c[n].book, seen[n - 1].book),
                highest |-> Larger(c[n].chapter, seen[n - 1].highest),
                restarts |-> \/ seen[n - 1].restarts
                             \/ /\ c[n].book > seen[n - 1].book
                                /\ c[n].chapter <= seen[n - 1].highest
                                /\ (seen[n - 1].book > 0 \/ seen[n - 1].highest > 0)]
    IN (\E i \in 1..Len(c) : c[i].dotted) \/ seen[Len(c)].restarts

\* A whole number and a fraction read as a whole number: -1 is none.
Whole(n) == <<n, -1>>
NoLabel == <<-1, -1>>

\* Mutant: only the dotted form opens a book.
OpensDotted(mode, perBook, c) == perBook /\ mode = "chapter" /\ c.dotted

\* The release names the book that unmarked ones after it belong to.
Opens(mode, perBook, c) == perBook /\ mode = "chapter" /\ (c.dotted \/ c.book > 0)

\* The label of a release after the ones before it.
LabelOf(mode, perBook, seen, c) ==
    IF mode = "ordinal" THEN Whole(seen.count + 1)
    ELSE IF mode = "part" THEN IF c.part > 0 THEN Whole(c.part) ELSE NoLabel
    ELSE IF ~perBook
      THEN IF c.half THEN <<c.chapter, c.fraction>>
           ELSE IF c.chapter > 0 THEN Whole(c.chapter) ELSE NoLabel
    ELSE IF c.dotted \/ (c.book > 0 /\ c.chapter > 0) THEN <<c.book, c.chapter>>
    ELSE IF c.chapter > 0 THEN <<seen.book, c.chapter>>
    ELSE IF c.book > 0 /\ c.book # seen.book THEN <<c.book, 0>>
    ELSE IF seen.last = NoLabel THEN <<seen.book, 0>>
    ELSE NoLabel

\* A release without a label repeats the one before it.
LabelNext(mode, perBook, seen, c) ==
    LET label == LabelOf(mode, perBook, seen, c)
    IN [count |-> seen.count + 1,
        book |-> IF Opens(mode, perBook, c) THEN c.book ELSE seen.book,
        last |-> IF label # NoLabel THEN label
                 ELSE IF seen.last # NoLabel THEN seen.last ELSE Whole(0)]

SeriesIndexes(s) ==
    LET c == CoordinatesOf(s)
        mode == Mode(c)
        perBook == mode = "chapter" /\ RestartsPerBook(c)
        at[n \in 0..Len(s)] ==
          IF n = 0 THEN [count |-> 0, book |-> 1, last |-> NoLabel]
          ELSE LabelNext(mode, perBook, at[n - 1], c[n])
    IN [i \in 1..Len(s) |-> at[i].last]

-----------------------------------------------------------------------------
Init == table \in {b \in BookTables : ValidTable(b)} /\ series = <<>>

\* A feed may show a release of an earlier date late.
Publish ==
    /\ Len(series) < IF table = <<>> THEN MaxReleases ELSE MaxPlaced
    /\ \E i \in 1..(Len(series) + 1), r \in Release : series' = InsertAt(series, i, r)
    /\ UNCHANGED table

Next == Publish

Spec == Init /\ [][Next]_vars

-----------------------------------------------------------------------------
Before(p, q) == p[1] < q[1] \/ (p[1] = q[1] /\ p[2] < q[2])

\* Positions never collide or run against the books: whatever valid table is
\* declared, of two chapters with a position the one of the earlier book, or
\* of the same book and a lower number, has the lower position.
PositionsFollowBooks ==
    \A i, j \in 1..Len(series) :
      LET d == Detect(series[i]) e == Detect(series[j])
          p == Position(table, d) q == Position(table, e)
      IN d.book > 0 /\ e.book > 0 /\ p > 0 /\ q > 0 =>
           (Before(<<d.book, d.chapter>>, <<e.book, e.chapter>>) <=> p < q)

\* The book each release belongs to: named, or the most recent one.
BookAt(c) ==
    LET at[n \in 0..Len(c)] == IF n = 0 THEN 1
                               ELSE IF c[n].dotted \/ c[n].book > 0 THEN c[n].book
                               ELSE at[n - 1]
    IN at

\* A half chapter comes after the whole one.
Number(c) == IF c.half THEN <<c.chapter, c.fraction>> ELSE Whole(c.chapter)

\* The author counts upward: neither books nor the numbers of a book go back,
\* though several releases may tell one chapter.
InAuthorOrder(c) ==
    LET at == BookAt(c)
    IN \A i, j \in 1..Len(c) : i < j =>
      /\ at[i] <= at[j]
      /\ Numbered(c[i]) /\ Numbered(c[j]) /\ at[i] = at[j] =>
           ~Before(Number(c[j]), Number(c[i]))

\* A book is opened by a release that has a number.
NumbersOpenBooks(c) ==
    \A j \in 1..Len(c) : Numbered(c[j]) =>
      BookAt(c)[j] \in {1} \cup {BookAt(c)[i] : i \in {k \in 1..j : Numbered(c[k]) /\ c[k].book > 0}}

\* Where parts are what the series counts, they never go back.
PartsInOrder(c) ==
    Mode(c) = "part" =>
      \A i, j \in 1..Len(c) : i < j /\ c[i].part > 0 /\ c[j].part > 0 => c[i].part <= c[j].part

\* Sorted by index, ties by date, the releases come in publication order.
Readable(s) ==
    LET index == SeriesIndexes(s)
    IN \A i, j \in 1..Len(s) : i < j => ~Before(index[j], index[i])

\* However an author mixes books, interludes, half chapters and parts: a
\* series told in order is read in order.
ReadsInOrder ==
    LET c == CoordinatesOf(series)
    IN InAuthorOrder(c) /\ NumbersOpenBooks(c) /\ PartsInOrder(c) => Readable(series)

\* "A chapter without a book marker belongs to the most recent book": also
\* when that book was opened by a prologue.
PrologueOpensBook ==
    LET c == CoordinatesOf(series)
    IN InAuthorOrder(c) /\ PartsInOrder(c) => Readable(series)
================================================================================
