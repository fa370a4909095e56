----------------------------- MODULE Replacement -----------------------------
(***************************************************************************)
(* What delivery promises, without saying how: a target lists editions and *)
(* moves from one library to the next by transitions.  A transition is     *)
(* announced before anything changes, lists its new editions one by one,   *)
(* drops an old edition only when all of the new ones are listed and carry *)
(* everything the old one carried, and ends only when no such old edition  *)
(* is left.  No order among the editions, no files, no failures.           *)
(***************************************************************************)
EXTENDS Catalog

VARIABLES
    listed,         \* the editions recorded as published
    transition      \* the library being installed, if any

vars == <<listed, transition>>

Installing == UNION transition

Init ==
    /\ listed \in SUBSET Artifact
    /\ transition \in {{}} \cup {{P} : P \in SUBSET Artifact}

Announce(L) ==
    /\ transition = {}
    /\ transition' = {L}
    /\ UNCHANGED listed

List(c) ==
    /\ c \in Installing
    /\ listed' = listed \cup {c}
    /\ UNCHANGED transition

(* The copy of a listed edition was found missing; it is delivered again.   *)
Redeliver(c) ==
    /\ c \in Installing
    /\ listed' = listed \ {c}
    /\ UNCHANGED transition

Replaced == {o \in listed \ Installing : Covers[o] \subseteq CoveredBy(Installing)}

Retire(o) ==
    /\ transition # {}
    /\ Installing \subseteq listed
    /\ o \in Replaced
    /\ listed' = listed \ {o}
    /\ UNCHANGED transition

End ==
    /\ transition # {}
    /\ Installing \subseteq listed
    /\ Replaced = {}
    /\ transition' = {}
    /\ UNCHANGED listed

(* A library whose editions wait for each other cannot be installed.        *)
Reject ==
    /\ transition # {}
    /\ transition' = {}
    /\ UNCHANGED listed
    /\ \E C \in SUBSET Installing :
        C # {} /\ \A c \in C : \E o \in listed \cap Volume : \E d \in C \ {c} :
            o # c /\ PathOf[o] = PathOf[c] /\ Covers[o] \cap Covers[d] # {}

Next ==
    \/ \E L \in SUBSET Artifact : Announce(L)
    \/ \E a \in Artifact : List(a) \/ Redeliver(a) \/ Retire(a)
    \/ End \/ Reject

Spec == Init /\ [][Next]_vars
=============================================================================
