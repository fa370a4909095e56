------------------------------- MODULE MCPatreon -------------------------------
(***************************************************************************)
(* The account at the provider: a listing under its request budget, or the *)
(* processes that share its saved session.  Once there is a session the    *)
(* two share nothing, so a behaviour is one of them and its first state    *)
(* says which.                                                             *)
(***************************************************************************)
EXTENDS Fetch, TLC

CONSTANTS Process, MaxSessions

VARIABLES
    subject,
    file, issued, valid, cache, proc, shown

S == INSTANCE Session

sessionVars == <<file, issued, valid, cache, proc, shown>>

Listing == subject = "listing" /\ UNCHANGED <<subject, sessionVars>>
Sharing == subject = "session" /\ UNCHANGED <<subject, vars>>

MCInit ==
    /\ subject \in {"listing", "session"}
    /\ Init /\ S!Init
    /\ subject = "listing" => file = S!NoFile

MCNext ==
    \/ Listing /\ ListPage
    \/ Listing /\ ListFails
    \/ Listing /\ Collect
    \/ \E w \in Worker :
         \/ Listing /\ TakeJob(w)
         \/ Listing /\ Detail(w)
         \/ Listing /\ DetailFails(w)
    \/ \E r \in Requester :
         \/ Listing /\ Acquire(r)
         \/ Listing /\ Retry(r)
         \/ Listing /\ BackoffEnds(r)
    \/ Listing /\ Tick
    \/ Listing /\ Begin
    \/ Listing /\ Cancel
    \/ Listing /\ Publish
    \/ Listing /\ Delete
    \/ \E p \in Process :
         \/ \E job \in S!Jobs : Sharing /\ S!Begin(p, job) /\ S!Shown
         \/ Sharing /\ S!Remove(p) /\ S!Shown
         \/ Sharing /\ S!Look(p) /\ S!Shown
         \/ Sharing /\ S!Read(p) /\ S!Shown
         \/ Sharing /\ S!Accepted(p) /\ S!Shown
         \/ Sharing /\ S!Expired(p) /\ S!Shown
         \/ Sharing /\ S!Doubted(p) /\ S!Shown
         \/ Sharing /\ S!Unanswered(p) /\ S!Shown
         \/ Sharing /\ S!Submit(p) /\ S!Shown
         \/ Sharing /\ S!LeftLogin(p) /\ S!Shown
         \/ Sharing /\ S!LoginDeadline(p) /\ S!Shown
         \/ Sharing /\ S!LoginFails(p) /\ S!Shown
         \/ Sharing /\ S!BringBundle(p) /\ S!Shown
         \/ Sharing /\ S!Truncate(p) /\ S!Shown
         \/ Sharing /\ S!WriteBundle(p) /\ S!Shown
         \/ Sharing /\ S!WriteLost(p) /\ S!Shown
         \/ Sharing /\ S!SaveFails(p) /\ S!Shown
         \/ Sharing /\ S!Dies(p) /\ S!Shown
    \/ \E s \in valid : Sharing /\ S!Revoke(s) /\ S!Shown

\* The workers of the pool and the processes are interchangeable.
Interchangeable == Permutations(Worker) \cup Permutations(Process)

MCSpec == MCInit /\ [][MCNext]_<<subject, vars, sessionVars>>

\* Session!LoginNeeded: credentials are submitted only when the saved session
\* was unusable or its request got no answer.
LoginNeeded == S!LoginNeeded
================================================================================
