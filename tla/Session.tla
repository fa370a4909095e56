-------------------------------- MODULE Session --------------------------------
(***************************************************************************)
(* The saved Patreon session of an auth profile and the processes that     *)
(* share its file: listings that log in when the session is rejected,      *)
(* downloads and discoveries that only use it, `setup auth` in its three   *)
(* forms and imports.  The file is rewritten in place, without a lock.     *)
(*                                                                         *)
(* A session is the number of the login or import it comes from; the site, *)
(* which is external, knows the ones it accepts.                           *)
(***************************************************************************)
EXTENDS Integers

CONSTANTS
    Process,
    MaxSessions    \* bound: sessions ever saved or imported

VARIABLES
    file,     \* what the session file holds and its revision (size and time)
    issued,   \* the last session handed out
    valid,    \* sessions the site accepts
    cache,    \* each process's profile: a session and the revision it had
    proc,     \* what each process is doing
    shown     \* history: what the file has held since the handler looked for its
              \* session, once it was unusable only that

vars == <<file, issued, valid, cache, proc, shown>>

Absent == 0      \* there is no file
Empty == -1      \* truncated, not yet written
Mixed == -2      \* two writers at once: the longer bundle shows below the other
Unreadable == {Absent, Empty, Mixed}

\* "list" logs in when it must, as does `setup auth` ("auth"), which reports
\* a reused session; "force" logs in unasked, "profile" drops the session
\* first; "use" is a download, a discovery or a validation, "import" writes
\* a bundle made elsewhere and validates it.
Jobs == {"list", "auth", "force", "profile", "use", "import"}
MayLogIn == {"list", "auth", "profile"}

Idle == [job |-> "none", at |-> "idle", seen |-> 0, held |-> Absent, again |-> FALSE,
         broken |-> FALSE]
NoCache == [session |-> Absent, rev |-> -1]

At(p, label) == proc[p].at = label
Goto(p, label) == proc' = [proc EXCEPT ![p].at = label]
End(p) == proc' = [proc EXCEPT ![p] = Idle]

\* An absent file has no revision; truncating and writing it give it new ones.
NoFile == [session |-> Absent, rev |-> 0]
Truncated(p) == [session |-> Empty, rev |-> 2 * proc[p].held]
Written(p, s) == [session |-> s, rev |-> 2 * proc[p].held + 1]

-----------------------------------------------------------------------------
(* The profile's session: profileSessions, and the request that tries it.  *)

Begin(p, job) ==
    /\ At(p, "idle")
    /\ job \in {"import", "force", "profile"} => issued < MaxSessions
    /\ proc' = [proc EXCEPT ![p] = [Idle EXCEPT !.job = job, !.at =
                    CASE job = "force" -> "login" [] job = "profile" -> "remove"
                      [] job = "import" -> "fetched" [] OTHER -> "look"]]
    /\ UNCHANGED <<file, issued, valid, cache>>

\* BootstrapProfile: the old file goes; who is writing it goes on writing
\* to a file nobody can open any more.
Remove(p) ==
    /\ At(p, "remove")
    /\ file' = NoFile
    /\ proc' = [q \in Process |->
                  IF q = p THEN [proc[p] EXCEPT !.at = "look"]
                  ELSE IF At(q, "write") THEN [proc[q] EXCEPT !.at = "lost"] ELSE proc[q]]
    /\ UNCHANGED <<issued, valid, cache>>

\* Mutant: a profile once loaded is used for the life of the process.
KnownAnyway(p) == cache[p] # NoCache

\* The profile is the file's as long as the file has the revision that was
\* seen before it was loaded.
Known(p) == cache[p].rev = file.rev

Look(p) ==
    /\ At(p, "look")
    /\ proc' = [proc EXCEPT ![p] = [@ EXCEPT
          !.seen = file.rev,
          !.at = IF Known(p) THEN "ask" ELSE "read",
          !.held = IF Known(p) THEN cache[p].session ELSE Absent]]
    /\ UNCHANGED <<file, issued, valid, cache>>

\* Rejected, by the parser or by the site: log in, once and if the job may.
Rejected(p) ==
    IF proc[p].job \in MayLogIn /\ ~proc[p].again
      THEN Goto(p, "login") ELSE End(p)

Read(p) ==
    /\ At(p, "read")
    /\ IF file.session \in Unreadable
         THEN Rejected(p) /\ UNCHANGED cache
         ELSE /\ cache' = [cache EXCEPT ![p] = [session |-> file.session, rev |-> proc[p].seen]]
              /\ proc' = [proc EXCEPT ![p] = [@ EXCEPT !.at = "ask", !.held = file.session]]
    /\ UNCHANGED <<file, issued, valid>>

Accepted(p) ==
    /\ At(p, "ask") /\ proc[p].held \in valid
    /\ End(p)
    /\ UNCHANGED <<file, issued, valid, cache>>

Expired(p) ==
    /\ At(p, "ask") /\ proc[p].held \notin valid
    /\ Rejected(p)
    /\ UNCHANGED <<file, issued, valid, cache>>

\* A challenge, a lasting rate limit, a body cut short.
Doubted(p) ==
    /\ At(p, "ask")
    /\ End(p)
    /\ UNCHANGED <<file, issued, valid, cache>>

\* A connection that breaks, an error of the server and an answer nobody can
\* read (no user, no campaign) count as a rejection.
Unanswered(p) ==
    /\ At(p, "ask")
    /\ IF proc[p].job \in MayLogIn /\ ~proc[p].again
         THEN proc' = [proc EXCEPT ![p] = [@ EXCEPT !.at = "login", !.broken = TRUE]]
         ELSE End(p)
    /\ UNCHANGED <<file, issued, valid, cache>>

-----------------------------------------------------------------------------
(* The login in a browser, and how its session is saved.                   *)

\* A session the site hands out; a page that is no login page but has not
\* logged anybody in has cookies, too.
Issue(p, accepted) ==
    /\ issued < MaxSessions
    /\ issued' = issued + 1
    /\ valid' = IF accepted THEN valid \cup {issued'} ELSE valid
    /\ proc' = [proc EXCEPT ![p] =
                     [@ EXCEPT !.at = "fetched", !.held = issued', !.broken = FALSE]]

Submit(p) ==
    /\ At(p, "login")
    /\ proc' = [proc EXCEPT ![p] = [@ EXCEPT !.at = "submitted", !.broken = FALSE]]
    /\ UNCHANGED <<file, issued, valid, cache>>

\* The page is not, or no longer, a login page.
LeftLogin(p) ==
    /\ At(p, "login") \/ At(p, "submitted")
    /\ \E accepted \in BOOLEAN : Issue(p, accepted)
    /\ UNCHANGED <<file, cache>>

\* After three minutes the cookies are saved whatever the page shows.
LoginDeadline(p) ==
    /\ At(p, "submitted")
    /\ Issue(p, FALSE)
    /\ UNCHANGED <<file, cache>>

\* Refused credentials, a challenge nobody solves, no form, no browser.
LoginFails(p) ==
    /\ At(p, "login") \/ At(p, "submitted")
    /\ End(p)
    /\ UNCHANGED <<file, issued, valid, cache>>

\* An import brings a bundle of its own, of any quality.
BringBundle(p) ==
    /\ At(p, "fetched") /\ proc[p].held = Absent
    /\ \E accepted \in BOOLEAN : Issue(p, accepted)
    /\ UNCHANGED <<file, cache>>

Truncate(p) ==
    /\ At(p, "fetched") /\ proc[p].held # Absent
    /\ file' = Truncated(p)
    /\ Goto(p, "write")
    /\ UNCHANGED <<issued, valid, cache>>

\* The login's process drops its profile and looks for the session it has
\* saved; an import validates it with the profile it has; a plain
\* `setup auth` only loads it.
Saved(p) ==
    /\ cache' = IF proc[p].job = "import" THEN cache ELSE [cache EXCEPT ![p] = NoCache]
    /\ IF proc[p].job \in {"auth", "force"} THEN End(p)
       ELSE proc' = [proc EXCEPT ![p] =
                      [@ EXCEPT !.at = "look", !.held = Absent, !.again = TRUE]]

WriteBundle(p) ==
    /\ At(p, "write")
    /\ \E s \in IF file.session = Empty THEN {proc[p].held} ELSE {proc[p].held, Mixed} :
         file' = Written(p, s)
    /\ Saved(p)
    /\ UNCHANGED <<issued, valid>>

WriteLost(p) ==
    /\ At(p, "lost")
    /\ Saved(p)
    /\ UNCHANGED <<file, issued, valid>>

SaveFails(p) ==
    /\ At(p, "fetched") \/ At(p, "write") \/ At(p, "lost")
    /\ End(p)
    /\ UNCHANGED <<file, issued, valid, cache>>

-----------------------------------------------------------------------------
\* The site: a session expires, or its user logs out elsewhere.
Revoke(s) ==
    /\ s \in valid
    /\ valid' = valid \ {s}
    /\ UNCHANGED <<file, issued, cache, proc>>

Dies(p) ==
    /\ End(p)
    /\ cache' = [cache EXCEPT ![p] = NoCache]
    /\ UNCHANGED <<file, issued, valid>>

\* From the first look on; after a login nothing is expected of the file.
Shown ==
    shown' = [p \in Process |->
        LET sessions == IF proc'[p].at = "look" THEN {file'.session}
                        ELSE shown[p] \cup {file'.session}
        IN CASE proc'[p].at \notin {"look", "read", "ask"} \/ proc'[p].again -> {}
             [] sessions \subseteq valid' -> sessions
             [] OTHER -> {Absent}]

Init ==
    /\ file \in {NoFile, [session |-> 1, rev |-> 3]}
    /\ issued = 1 /\ valid = {1}
    /\ cache = [p \in Process |-> NoCache]
    /\ proc = [p \in Process |-> Idle]
    /\ shown = [p \in Process |-> {}]

Using(p) ==
    \/ Remove(p) \/ Look(p) \/ Read(p)
    \/ Accepted(p) \/ Expired(p) \/ Doubted(p) \/ Unanswered(p)
LoggingIn(p) ==
    \/ Submit(p) \/ LeftLogin(p) \/ LoginDeadline(p) \/ LoginFails(p)
    \/ BringBundle(p) \/ Truncate(p) \/ WriteBundle(p) \/ WriteLost(p) \/ SaveFails(p)

Next ==
    /\ \/ \E p \in Process :
            Using(p) \/ LoggingIn(p) \/ Dies(p) \/ \E job \in Jobs : Begin(p, job)
       \/ \E s \in valid : Revoke(s)
    /\ Shown

Spec == Init /\ [][Next]_vars

-----------------------------------------------------------------------------
\* Credentials are submitted only if the session that was tried got no answer
\* or the file held one, since the handler looked for it, that could not be
\* used: never because of a stale profile, a challenge or a rate limit.
\* (`--force` asks for a login.)
LoginNeeded ==
    [][\A p \in Process :
          ~At(p, "login") /\ proc'[p].at = "login" /\ proc'[p].job # "force"
             => proc'[p].broken \/ ~(shown[p] \subseteq valid)]_vars
================================================================================
