------------------------------- MODULE Catalog -------------------------------
(***************************************************************************)
(* The data a delivery plans with, and the pure half of the planner.       *)
(*                                                                         *)
(* An artifact is an immutable rendering: its identifier is a digest of    *)
(* its bytes and of the name it was rendered under, so an identifier       *)
(* stands for the bytes too and PathOf is a function.  A chapter carries   *)
(* one release, a volume edition the releases of all its members.  A       *)
(* library is the candidate set one sync or rebuild wants on the target.   *)
(***************************************************************************)
EXTENDS Naturals

CONSTANTS
    Release,        \* releases of the provider
    Artifact,       \* renderings kept in the artifact store
    Volume,         \* the artifacts that are volume editions
    Path,           \* destinations under the target's directory
    Source,         \* configured sources
    Covers,         \* Covers[a]: the releases artifact a carries
    PathOf,         \* PathOf[a]: where a is delivered
    SourceOf,       \* SourceOf[a]: the source a belongs to
    Libraries       \* the candidate sets a run may be asked to deliver

ASSUME CatalogAssumption ==
    /\ Volume \subseteq Artifact
    /\ Covers \in [Artifact -> SUBSET Release]
    /\ PathOf \in [Artifact -> Path]
    /\ SourceOf \in [Artifact -> Source]
    /\ \A a \in Artifact : Covers[a] # {}
    /\ \A a \in Artifact \ Volume : \A r, s \in Covers[a] : r = s
    /\ Libraries \subseteq SUBSET Artifact

(***************************************************************************)
(* resolveCollisionNames gives the candidates of a library distinct paths, *)
(* volumeCandidates drops every single that an active volume contains.     *)
(***************************************************************************)
ASSUME LibraryAssumption ==
    \A L \in Libraries : \A a, b \in L :
        a # b => PathOf[a] # PathOf[b] /\ Covers[a] \cap Covers[b] = {}

Statuses == {"none", "publishing", "published", "superseded"}

(* The records of one target, keyed by artifact: the unique key of          *)
(* publish_records is artifact, target and a hash of target, bytes, path.   *)
Records == [Artifact -> Statuses]

Published(recs) == {a \in Artifact : recs[a] = "published"}

(* What a candidate set carries: the planner's covered map.                 *)
CoveredBy(cands) == UNION {Covers[c] : c \in cands}

InScope(cands, scope) == {c \in cands : SourceOf[c] \in scope}

-----------------------------------------------------------------------------
(* Same-path replacement: FilesystemTarget.Reorder.                         *)

(* Volume editions the catalog says are published where c will land.        *)
ReplacedVolumes(recs, c) ==
    {o \in Published(recs) \cap Volume : PathOf[o] = PathOf[c] /\ o # c}

(* The candidates that must land before c overwrites those editions.        *)
Dependencies(cands, recs, c) ==
    {d \in cands \ {c} :
        \E o \in ReplacedVolumes(recs, c) : Covers[o] \cap Covers[d] # {}}

(* Mutant: an overwritten volume need not be covered.                        *)
UncoveringNever(cands, recs) == FALSE

(* "replacement for ... does not cover chapter ..."                         *)
Uncovering(cands, recs) ==
    \E c \in cands : \E o \in ReplacedVolumes(recs, c) :
        ~ (Covers[o] \subseteq CoveredBy(cands))

(* The depth-first visit meets a candidate it is still visiting exactly     *)
(* when some candidates each wait for another of them.                      *)
Cyclic(cands, recs) ==
    \E C \in SUBSET cands :
        C # {} /\ \A c \in C : Dependencies(cands, recs, c) \cap C # {}

-----------------------------------------------------------------------------
(* Ownership and retirement.                                                *)

(* ownedHashesAt, ownedHashesForPath: bytes the records entitle to be at p. *)
Owned(recs, p) ==
    {a \in Artifact : PathOf[a] = p /\ recs[a] \in {"published", "publishing"}}

(* Mutant: a chapter matches only its own bytes.                             *)
RetirementOwnedExactly(recs, o) == {o}

(* retirementOwnedHashes: only a chapter has a release to match by.         *)
RetirementOwned(recs, o) ==
    {o} \cup {b \in Published(recs) \ Volume :
                /\ o \notin Volume
                /\ Covers[b] = Covers[o]
                /\ PathOf[b] = PathOf[o]}

(* Mutant: what the candidates list is not exempt.                           *)
RetirableDesiredToo(cands, recs) ==
    {o \in Published(recs) : Covers[o] \subseteq CoveredBy(cands)}

(* Published records outside the candidates whose every release the         *)
(* candidates carry.                                                        *)
Retirable(cands, recs) ==
    {o \in Published(recs) \ cands : Covers[o] \subseteq CoveredBy(cands)}
=============================================================================
