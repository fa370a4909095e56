------------------------------ MODULE MCDelivery ------------------------------
(***************************************************************************)
(* Small catalogs for Delivery.  Releases 1 to 5; cN is the chapter of     *)
(* release N, vNM a volume of N and M.  Two artifacts share a path exactly *)
(* when one is a correction or a regrouping that keeps the file name.      *)
(***************************************************************************)
EXTENDS Delivery

MCRelease == 1..5
MCSource == {"alpha", "beta"}

Rows == [
    c1   |-> [path |-> "ch1",  covers |-> {1}],
    c2   |-> [path |-> "ch2",  covers |-> {2}],
    c5   |-> [path |-> "ch5",  covers |-> {5}],      \* of another source
    c1b  |-> [path |-> "ch1",  covers |-> {1}],      \* c1 corrected
    s1   |-> [path |-> "ch2",  covers |-> {1}],      \* c1 renumbered
    s2   |-> [path |-> "ch1",  covers |-> {2}],      \* c2 renumbered
    v12  |-> [path |-> "vol1", covers |-> {1, 2}],
    v12b |-> [path |-> "vol1", covers |-> {1, 2}],   \* v12 rebuilt in place
    w12  |-> [path |-> "new1", covers |-> {1, 2}],   \* v12 under a new title
    v13  |-> [path |-> "vol1", covers |-> {1, 3}],
    v2   |-> [path |-> "vol2", covers |-> {2}],
    v34  |-> [path |-> "vol2", covers |-> {3, 4}],
    v24  |-> [path |-> "vol2", covers |-> {2, 4}]]

MCArtifact == DOMAIN Rows
MCVolume == {"v12", "v12b", "w12", "v13", "v2", "v34", "v24"}
MCPath == {Rows[a].path : a \in MCArtifact}
MCCovers == [a \in MCArtifact |-> Rows[a].covers]
MCPathOf == [a \in MCArtifact |-> Rows[a].path]
MCSourceOf == [a \in MCArtifact |-> IF a = "c5" THEN "beta" ELSE "alpha"]

AllSources == {MCSource}
EachSource == {{"alpha"}, {"beta"}, MCSource}

Singles == {"c1", "c2"}
Bundled == {"v12"}

(* A correction, a bundling, a retitled volume. *)
Corrections == {Singles, {"c1b", "c2"}, Bundled, {"w12"}}

(* Regroupings that reuse vol1: one that must wait for the file of release  *)
(* 2, one that does not cover it, and two that wait for each other.  The    *)
(* chapter of the other source is delivered beside some of them.            *)
Regroups == {{"v12", "c5"}, {"v13", "v2", "c5"}, {"v13"}, {"v12", "v34"},
             {"v13", "v24"}}
Cycles == {{"v13", "v24"}}

(* A corrected volume keeps its path; two chapters trade their numbers.      *)
InPlace12 == {Bundled, {"v12b"}}
Swap == {Singles, {"s1", "s2"}}

NoLibrary == {}
Empty == {{}}
FromSingles == {Singles}
FromVolume == {Bundled}
FromBundled == {{"v12", "c5"}, {"v12", "v34"}}
NoPath == {}
SomePaths == {"ch1", "vol1"}
=============================================================================
