------------------------------- MODULE Validator -------------------------------
(***************************************************************************)
(* The validator that every EPUB passes before it is kept: one process,    *)
(* shared by all validations, started when it is needed and stopped after  *)
(* it has been idle for a while.                                           *)
(*                                                                         *)
(* A caller holds the lock for the whole of its request.  The process may  *)
(* have died since it was last used: a request that got no answer at all   *)
(* is repeated on a fresh one.  A timer that fires during a request waits  *)
(* for the lock and then finds a later generation.                         *)
(*                                                                         *)
(* A process is its number.  It reads one path a line and answers in       *)
(* order; a path stands for a call, since each has a directory of its own. *)
(* The command, while it is there, is always found in the same place.      *)
(***************************************************************************)
EXTENDS Integers, FiniteSets, Sequences

CONSTANTS
    Call,         \* validations
    None,
    MaxProcesses, \* bound: processes started
    MaxTroubles   \* bound: failures, deaths, timeouts, cancellations

VARIABLES
    sound,      \* what an honest validator says of each call's EPUB
    lock,       \* the call that holds the lock, or None
    at,         \* where each call is
    attempt,    \* its attempt
    result,     \* what it returned
    process,    \* the process the program knows of, or None
    running,    \* processes that run
    started,    \* how many were started
    queue,      \* what the known process has yet to answer
    generation, \* counts the calls that got the lock
    timer,      \* the generation the idle timer was armed for, or None
    fired,      \* generations of timers that fired and wait for the lock
    present,    \* the command is on the path
    died,       \* history: calls that held the lock when a process died
    troubles

vars == <<sound, lock, at, attempt, result, process, running, started, queue,
          generation, timer, fired, present, died, troubles>>
calls == <<sound, at, attempt, result>>
idling == <<generation, timer, fired>>

Trouble == troubles < MaxTroubles /\ troubles' = troubles + 1

Init ==
    /\ sound \in [Call -> BOOLEAN]
    /\ lock = None
    /\ at = [c \in Call |-> "new"]
    /\ attempt = [c \in Call |-> 1]
    /\ result = [c \in Call |-> None]
    /\ process = None /\ running = {} /\ started = 0 /\ queue = <<>>
    /\ generation = 0 /\ timer = None /\ fired = {}
    /\ present = TRUE
    /\ died = {} /\ troubles = 0

Holds(c, step) == lock = c /\ at[c] = step

\* A call returns and lets go of the lock.
Return(c, what) ==
    /\ at' = [at EXCEPT ![c] = "done"]
    /\ result' = [result EXCEPT ![c] = what]
    /\ lock' = None
    /\ UNCHANGED <<sound, attempt>>

\* The process is killed and its timer called off; one that has fired
\* already is not.
Stop ==
    /\ process' = None
    /\ running' = running \ {process}
    /\ queue' = <<>>
    /\ timer' = None

\* The lock is taken and the command looked for.  Without it the call ends.
Lock(c) ==
    /\ at[c] = "new" /\ lock = None
    /\ generation' = generation + 1
    /\ IF present
       THEN /\ lock' = c
            /\ at' = [at EXCEPT ![c] = "begun"]
            /\ UNCHANGED <<sound, attempt, result>>
       ELSE Return(c, "no command")
    /\ UNCHANGED <<process, running, started, queue, timer, fired, present, died, troubles>>

\* A process is started if none is known.
Start(c) ==
    /\ Holds(c, "begun") /\ process = None /\ started < MaxProcesses
    /\ started' = started + 1
    /\ process' = started'
    /\ running' = running \cup {started'}
    /\ queue' = <<>>
    /\ UNCHANGED <<calls, lock, idling, present, died, troubles>>

StartFails(c) ==
    /\ Holds(c, "begun") /\ process = None /\ Trouble
    /\ Return(c, "not started")
    /\ UNCHANGED <<process, running, started, queue, idling, present, died>>

\* The path is written; a process that is dead does not read it.
Ask(c) ==
    /\ Holds(c, "begun") /\ process # None
    /\ at' = [at EXCEPT ![c] = "asked"]
    /\ queue' = IF process \in running THEN Append(queue, c) ELSE queue
    /\ UNCHANGED <<sound, attempt, result, lock, process, running, started, idling,
                   present, died, troubles>>

\* The answer is read and must be for the path that was asked about; only
\* then is it the verdict, and the idle timer is armed.
Answer(c) ==
    /\ Holds(c, "asked") /\ process \in running /\ queue # <<>>
    /\ IF Head(queue) = c
       THEN /\ Return(c, IF sound[c] THEN "valid" ELSE "invalid")
            /\ queue' = Tail(queue)
            /\ timer' = generation
            /\ UNCHANGED <<process, running>>
       ELSE Return(c, "validator failed") /\ Stop
    /\ UNCHANGED <<started, generation, fired, present, died, troubles>>

\* No answer at all: the first time, once more on a fresh process.
NoAnswer(c) ==
    /\ Holds(c, "asked") /\ process # None /\ process \notin running
    /\ Stop
    /\ IF attempt[c] = 1
       THEN /\ attempt' = [attempt EXCEPT ![c] = 2]
            /\ at' = [at EXCEPT ![c] = "begun"]
            /\ UNCHANGED <<sound, result, lock>>
       ELSE Return(c, "validator failed")
    /\ UNCHANGED <<started, generation, fired, present, died, troubles>>

\* The process dies while it writes, or writes what is no answer.
PartialAnswer(c) ==
    /\ Holds(c, "asked") /\ process \in running /\ Trouble
    /\ Stop
    /\ died' = died \cup {c}
    /\ Return(c, "validator failed")
    /\ UNCHANGED <<started, generation, fired, present>>

\* Mutant: the process is left to its late answer.
GiveUpUnkilled(c, why) ==
    /\ Holds(c, "asked") /\ Trouble
    /\ Return(c, why)
    /\ UNCHANGED <<process, running, started, queue, idling, present, died>>

\* The answer takes too long, or the caller is cancelled.  The process is
\* killed: its answer would be for a call that has left.
GiveUp(c, why) ==
    /\ Holds(c, "asked") /\ Trouble
    /\ Stop
    /\ Return(c, why)
    /\ UNCHANGED <<started, generation, fired, present, died>>

\* The timer fires; it needs the lock.
TimerFires ==
    /\ timer # None /\ timer \notin fired
    /\ fired' = fired \cup {timer}
    /\ UNCHANGED <<calls, lock, process, running, started, queue, generation, timer,
                   present, died, troubles>>

\* With the lock: nothing was asked since it was armed, so the process goes.
IdleStop(g) ==
    /\ g \in fired /\ lock = None
    /\ fired' = fired \ {g}
    /\ IF generation = g THEN Stop ELSE UNCHANGED <<process, running, queue, timer>>
    /\ UNCHANGED <<calls, lock, started, generation, present, died, troubles>>

\* The process dies, idle or not.
Dies ==
    /\ process \in running /\ Trouble
    /\ running' = running \ {process}
    /\ queue' = <<>>
    /\ died' = died \cup ({lock} \ {None})
    /\ UNCHANGED <<calls, lock, process, started, idling, present>>

\* The command is removed from the path, or comes back.
Install(here) ==
    /\ present # here /\ Trouble
    /\ present' = here
    /\ UNCHANGED <<calls, lock, process, running, started, queue, idling, died>>

Next ==
    \/ \E c \in Call :
         \/ Lock(c)
         \/ Start(c)
         \/ StartFails(c)
         \/ Ask(c)
         \/ Answer(c)
         \/ NoAnswer(c)
         \/ PartialAnswer(c)
         \/ GiveUp(c, "timed out")
         \/ GiveUp(c, "cancelled")
    \/ TimerFires
    \/ \E g \in fired : IdleStop(g)
    \/ Dies
    \/ \E here \in BOOLEAN : Install(here)

Spec == Init /\ [][Next]_vars

-----------------------------------------------------------------------------
(* What the callers and the machine may count on.                          *)

\* A verdict is about the EPUB it was asked for.
VerdictOwn ==
    \A c \in Call :
        result[c] \in {"valid", "invalid"} => (result[c] = "valid") = sound[c]

\* A call does not fail because the validator died before it began: it
\* fails on the validator only if one died under it.
IdleDeathUnseen == \A c \in Call : result[c] = "validator failed" => c \in died

\* No process is left behind: one runs at most, and it is the known one.
NoneLeftBehind == running \subseteq {process}

\* Between calls a process that runs has a timer that will stop it: armed or
\* fired, and for the last call that got the lock.
IdleWatched ==
    lock = None /\ process # None
      => (timer = generation \/ generation \in fired)

\* The same, while the command was there for every call.
IdleWatchedIfFound ==
    (\A c \in Call : result[c] # "no command") => IdleWatched

\* A caller gets its own verdict or a failure with a cause of its own, and
\* no process outlives its use unwatched.
VerdictsHold == VerdictOwn /\ IdleDeathUnseen /\ NoneLeftBehind /\ IdleWatchedIfFound
================================================================================
