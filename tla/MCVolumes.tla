------------------------------- MODULE MCVolumes -------------------------------
(***************************************************************************)
(* A small library for Volumes: r1 and r2 of one source and r3 of another, *)
(* usually chapters 1 to 3 of one series with two chapters to a volume.    *)
(***************************************************************************)
EXTENDS Volumes

MCRelease == {"r1", "r2", "r3"}
MCSource == {"alpha", "beta"}
MCSeries == {"saga", "spin"}
MCBook == {"book1"}
MCSourceOf == [r \in MCRelease |-> IF r = "r3" THEN "beta" ELSE "alpha"]
MCText == {"v1", "v2"}

Chapter(s, n) == [series |-> s, book |-> None, chapter |-> n, position |-> n,
                  single |-> FALSE, format |-> "epub"]
InBook(n) == [Chapter("saga", n) EXCEPT !.book = "book1"]

Plainly == [r1 |-> Chapter("saga", 1), r2 |-> Chapter("saga", 2),
            r3 |-> Chapter("saga", 3)]

NoBounds == [b \in MCBook |-> [first |-> 1, last |-> 0, gaps |-> {}]]
Ranges(n, final, gaps) == [bundled |-> TRUE, size |-> n, final |-> final, gaps |-> gaps,
                           title |-> "v1", books |-> NoBounds]
Pairs == Ranges(2, 3, {})

(* One configuration: where the releases go, what becomes of the saga. *)
Conf(slots, saga) == [slot |-> slots, output |-> [s \in MCSeries |->
                        IF s = "saga" THEN saga ELSE Ranges(1, 0, {})]]

Base == Conf(Plainly, Pairs)

Wider == Conf(Plainly, Ranges(3, 0, {}))
Gapped == Conf([Plainly EXCEPT !.r3.single = TRUE], Ranges(2, 3, {2}))
Swapped == Conf([Plainly EXCEPT !.r2 = Chapter("saga", 3), !.r3 = Chapter("saga", 2)], Pairs)
Doubled == Conf([Plainly EXCEPT !.r2 = Chapter("saga", 1), !.r3.position = 0],
                Ranges(1, 0, {}))
Moved == Conf([Plainly EXCEPT !.r2 = Chapter("spin", 1)], Pairs)
Single == Conf([Plainly EXCEPT !.r2.format = "none"], [Pairs EXCEPT !.bundled = FALSE])
Booked == Conf([r1 |-> InBook(1), r2 |-> InBook(2), r3 |-> Chapter("saga", 3)],
               [Pairs EXCEPT !.title = "v2", !.books =
                   [b \in MCBook |-> [first |-> 1, last |-> 2, gaps |-> {}]]])

Regroupings == {Base, Wider, Gapped, Swapped, Doubled, Single, Booked}
Moves == {Base, Moved}
Renumberings == {Base, Swapped}

AllScopes == {{"alpha"}, {"beta"}, MCSource}
AllFilters == {{"saga"}, MCSeries}
FullScope == {MCSource}
FullFilter == {MCSeries}
OldFirst == {"r1"}
NoRelease == {}
================================================================================
