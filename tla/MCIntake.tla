------------------------------- MODULE MCIntake -------------------------------
(***************************************************************************)
(* Small instances of Intake.  Decisions a and b make the same reading     *)
(* copy and differ in provenance only, z is the decision of another series *)
(* and m one that renders nothing.                                         *)
(***************************************************************************)
EXTENDS Intake

Decisions == [
    a |-> [track |-> "saga",  copy |-> "epub"],
    b |-> [track |-> "saga",  copy |-> "epub"],
    z |-> [track |-> "other", copy |-> "html"],
    m |-> [track |-> "saga",  copy |-> None]]

OneRoute == {"a"}
AllRoutes == {"a", "b", "z", "m"}
OneRouteTrack == [r \in OneRoute |-> Decisions[r].track]
OneRouteCopy == [r \in OneRoute |-> Decisions[r].copy]
AllRoutesTrack == [r \in AllRoutes |-> Decisions[r].track]
AllRoutesCopy == [r \in AllRoutes |-> Decisions[r].copy]

Tracks == {"saga", "other"}
OneText == {"v1"}
TwoTexts == {"v1", "v2"}
OneCuration == {"c1"}
TwoCurations == {"c1", "c2"}
AllTracks == {Tracks}
EachTrack == {Tracks, {"saga"}, {"other"}}
NoDamage == {}
Captured == {"sidecars", "copy"}
AnyDamage == {"sidecars", "copy", "normalized", "raw"}
===============================================================================
