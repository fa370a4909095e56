--------------------------------- MODULE Fetch ---------------------------------
(***************************************************************************)
(* One live listing of a Patreon feed: the pages of post ids one after the *)
(* other, then the posts' details by a pool of workers, every request      *)
(* under the request budget of the account and retried when the provider   *)
(* limits the rate.  Posts are published and deleted meanwhile.            *)
(*                                                                         *)
(* Posts are numbered in the order of publication; the feed is listed from *)
(* the newest down.  The provider is external: a page begins right below   *)
(* the last post of the page before, or repeats that post.                 *)
(***************************************************************************)
EXTENDS Integers, FiniteSets, FiniteSetsExt

CONSTANTS
    Worker,          \* the pool: at most the budget's limit
    Lister,          \* the listing itself
    MaxPost,         \* bound: posts ever published
    FirstPosts,      \* posts of the feed at the start
    MaxDeletes,      \* bound: posts deleted
    PageSize,
    Lookback,        \* liveSyncCursorLookback
    Keep,            \* liveSyncCursorRecentKeep
    Attempts,        \* patreonRetryAttempts
    LimitMax,        \* patreonRequestLimitMax, also the first limit
    Threshold,       \* patreonRequestLimitSuccessThreshold
    MaxDelay         \* bound: the longest wait the provider asks for, in ticks

ASSUME FetchAssumption ==
    /\ IsFiniteSet(Worker) /\ Lister \notin Worker
    /\ {MaxPost, FirstPosts, MaxDeletes, Lookback, Keep, MaxDelay} \subseteq Nat
    /\ {PageSize, Attempts, LimitMax, Threshold} \subseteq Nat \ {0}
    /\ FirstPosts <= MaxPost
    /\ Lookback <= Keep

VARIABLES
    feed,        \* posts of the feed
    newest,      \* the last post published
    deletes,
    known,       \* RecentReleaseIDs of the stored cursor
    stage,       \* "idle", "list", "details", then "ok" or "failed"
    before,      \* posts of the feed when the listing began
    ids,         \* ids listed so far
    after,       \* the last post of the last page
    todo,        \* ids no worker has taken
    failed,      \* a detail failed
    request,     \* what the lister and each worker are doing
    limit, inFlight, streak, blocked,      \* the budget
    announced,   \* history: the longest wait the provider still asks for
    cancelled    \* the run's context was cancelled

serverVars == <<feed, newest, deletes>>
listVars == <<known, stage, before, ids, after, todo, failed>>
budgetVars == <<limit, inFlight, streak, blocked, announced>>
vars == <<serverVars, listVars, request, budgetVars, cancelled>>

Requester == Worker \cup {Lister}
Stages == {"idle", "list", "details", "ok", "failed"}
Pcs == {"off", "acquire", "inflight", "backoff"}

-----------------------------------------------------------------------------
(* The provider.                                                           *)

\* The page below post b: its posts, the newest first.
Page(b) ==
    {p \in feed : p < b /\ Cardinality({q \in feed : p < q /\ q < b}) < PageSize}

LastPage(b) == Page(b) = {} \/ \A q \in feed : q >= Min(Page(b))

Publish ==
    /\ newest < MaxPost
    /\ newest' = newest + 1
    /\ feed' = feed \cup {newest'}
    /\ UNCHANGED <<deletes, listVars, request, budgetVars, cancelled>>

Delete ==
    /\ deletes < MaxDeletes /\ deletes' = deletes + 1
    /\ \E p \in feed : feed' = feed \ {p}
    /\ UNCHANGED <<newest, listVars, request, budgetVars, cancelled>>

-----------------------------------------------------------------------------
(* The budget and the requests.                                            *)

Off == [pc |-> "off", post |-> 0, attempt |-> 1, delay |-> 0]
Asking(p) == [Off EXCEPT !.pc = "acquire", !.post = p]
At(r, label) == request[r].pc = label

\* One slot of the budget is taken, unless the account is cooling down.  The
\* slot is given back in the step that ends the request: the lock is taken
\* twice there, and in between the budget only looks fuller than it is.
Acquire(r) ==
    /\ At(r, "acquire")
    /\ blocked = 0 /\ inFlight < limit
    /\ inFlight' = inFlight + 1
    /\ request' = [request EXCEPT ![r].pc = "inflight"]
    /\ UNCHANGED <<serverVars, listVars, limit, streak, blocked, announced, cancelled>>

Released == IF inFlight > 0 THEN inFlight - 1 ELSE inFlight

\* A success: the limit grows by one after Threshold of them in a row.
\* Bound: the streak is not counted further, it decides nothing then.
Succeeded ==
    /\ inFlight' = Released
    /\ IF streak + 1 >= Threshold /\ limit < LimitMax
         THEN limit' = limit + 1 /\ streak' = 0
         ELSE limit' = limit /\ streak' = Min({streak + 1, Threshold})
    /\ UNCHANGED <<blocked, announced>>

\* Mutant: the last wait counts.
LimitedAnew(delay) ==
    /\ inFlight' = Released /\ limit' = Max({1, (limit + 1) \div 2}) /\ streak' = 0
    /\ blocked' = delay /\ announced' = Max({announced, delay})

\* A rate limit: the limit is halved, the longest wait counts.
Limited(delay) ==
    /\ inFlight' = Released
    /\ limit' = Max({1, (limit + 1) \div 2})
    /\ streak' = 0
    /\ blocked' = Max({blocked, delay})
    /\ announced' = Max({announced, delay})

Finished == inFlight' = Released /\ UNCHANGED <<limit, streak, blocked, announced>>

Retry(r) ==
    /\ At(r, "inflight") /\ request[r].attempt < Attempts
    /\ \E delay \in 0..MaxDelay :
         /\ Limited(delay)
         /\ request' = [request EXCEPT ![r].pc = "backoff", ![r].delay = delay]
    /\ UNCHANGED <<serverVars, listVars, cancelled>>

BackoffEnds(r) ==
    /\ At(r, "backoff") /\ request[r].delay = 0
    /\ request' = [request EXCEPT ![r].pc = "acquire", ![r].attempt = @ + 1]
    /\ UNCHANGED <<serverVars, listVars, budgetVars, cancelled>>

\* A request fails for good: any other status or an incomplete response, a
\* body that cannot be decoded, the last rate limit, a cancelled wait.
Refused(r) ==
    \/ At(r, "inflight") /\ Finished
    \/ At(r, "inflight") /\ Succeeded
    \/ /\ At(r, "inflight") /\ request[r].attempt = Attempts
       /\ \E delay \in 0..MaxDelay : Limited(delay)
    \/ /\ cancelled
       /\ \/ At(r, "backoff")
          \/ At(r, "acquire") /\ (blocked > 0 \/ inFlight >= limit)
       /\ UNCHANGED budgetVars

Down1(n) == IF n > 0 THEN n - 1 ELSE 0

Tick ==
    /\ blocked > 0 \/ \E r \in Requester : request[r].delay > 0
    /\ blocked' = Down1(blocked) /\ announced' = Down1(announced)
    /\ request' = [r \in Requester |-> [request[r] EXCEPT !.delay = Down1(@)]]
    /\ UNCHANGED <<serverVars, listVars, limit, inFlight, streak, cancelled>>

-----------------------------------------------------------------------------
(* The listing.                                                            *)

Begin ==
    /\ stage \in {"idle", "ok", "failed"}
    /\ stage' = "list"
    /\ before' = feed /\ ids' = {} /\ after' = MaxPost + 1
    /\ todo' = {} /\ failed' = FALSE
    /\ request' = [request EXCEPT ![Lister] = Asking(0)]
    /\ cancelled' = FALSE
    /\ UNCHANGED <<serverVars, known, budgetVars>>

Cancel ==
    /\ stage \in {"list", "details"} /\ ~cancelled
    /\ cancelled' = TRUE
    /\ UNCHANGED <<serverVars, listVars, request, budgetVars>>

\* Mutant: the listing stops at the first known post.
StopsAtKnown(new) == new \cap known

\* Where the listing stops within new ids: at a known post once at least
\* Lookback ids are listed.
Stops(new) ==
    {p \in new \cap known :
        Lookback > 0 /\ Cardinality(ids) + Cardinality({q \in new : q >= p}) >= Lookback}

\* A page arrives; ids seen on an earlier page are passed over.
ListPage ==
    /\ stage = "list" /\ At(Lister, "inflight")
    /\ \E repeat \in {0, 1} :
         LET top == after + repeat
             new == Page(top) \ ids
             stops == Stops(new)
             kept == IF stops = {} THEN new ELSE {q \in new : q >= Max(stops)}
         IN /\ ids' = ids \cup kept
            /\ IF stops # {} \/ LastPage(top)
                 THEN /\ stage' = "details" /\ todo' = ids'
                      /\ request' = [request EXCEPT ![Lister] = Off]
                      /\ UNCHANGED after
                 ELSE /\ after' = Min(Page(top))
                      /\ request' = [request EXCEPT ![Lister] = Asking(0)]
                      /\ UNCHANGED <<stage, todo>>
    /\ Succeeded
    /\ UNCHANGED <<serverVars, known, before, failed, cancelled>>

ListFails ==
    /\ stage = "list" /\ Refused(Lister)
    /\ stage' = "failed"
    /\ request' = [request EXCEPT ![Lister] = Off]
    /\ UNCHANGED <<serverVars, known, before, ids, after, todo, failed, cancelled>>

TakeJob(w) ==
    /\ stage = "details" /\ At(w, "off") /\ todo # {}
    /\ todo' = todo \ {Max(todo)}
    /\ request' = [request EXCEPT ![w] = Asking(Max(todo))]
    /\ UNCHANGED <<serverVars, known, stage, before, ids, after, failed, budgetVars, cancelled>>

Detail(w) ==
    /\ At(w, "inflight") /\ request[w].post \in feed
    /\ Succeeded
    /\ request' = [request EXCEPT ![w] = Off]
    /\ UNCHANGED <<serverVars, listVars, cancelled>>

\* The other posts are still fetched; the first error fails the listing.
DetailFails(w) ==
    /\ Refused(w)
    /\ failed' = TRUE
    /\ request' = [request EXCEPT ![w] = Off]
    /\ UNCHANGED <<serverVars, known, stage, before, ids, after, todo, cancelled>>

\* RecentReleaseIDs keeps the newest documents.
Recent == {p \in ids : Cardinality({q \in ids : q > p}) < Keep}

Collect ==
    /\ stage = "details" /\ todo = {} /\ \A w \in Worker : At(w, "off")
    /\ stage' = IF failed THEN "failed" ELSE "ok"
    /\ known' = IF failed THEN known ELSE Recent
    /\ UNCHANGED <<serverVars, before, ids, after, todo, failed, request, budgetVars, cancelled>>

-----------------------------------------------------------------------------
Init ==
    /\ feed = 1..FirstPosts /\ newest = FirstPosts /\ deletes = 0
    /\ known = {} /\ stage = "idle" /\ before = {} /\ ids = {}
    /\ after = MaxPost + 1 /\ todo = {} /\ failed = FALSE
    /\ request = [r \in Requester |-> Off]
    /\ limit = LimitMax /\ inFlight = 0 /\ streak = 0 /\ blocked = 0 /\ announced = 0
    /\ cancelled = FALSE

Fetching ==
    \/ ListPage \/ ListFails \/ Collect
    \/ \E w \in Worker : TakeJob(w) \/ Detail(w) \/ DetailFails(w)
    \/ \E r \in Requester : Acquire(r) \/ Retry(r) \/ BackoffEnds(r)

Next == Fetching \/ Tick \/ Begin \/ Cancel \/ Publish \/ Delete

Spec == Init /\ [][Next]_vars

-----------------------------------------------------------------------------
TypeOK ==
    /\ feed \subseteq 1..newest /\ newest \in 0..MaxPost /\ deletes \in 0..MaxDeletes
    /\ known \subseteq 1..newest /\ stage \in Stages
    /\ before \subseteq 1..newest /\ ids \subseteq 1..newest
    /\ after \in 1..MaxPost + 1 /\ todo \subseteq ids /\ failed \in BOOLEAN
    /\ request \in [Requester -> [pc : Pcs, post : 0..MaxPost, attempt : 1..Attempts,
                                  delay : 0..MaxDelay]]
    /\ limit \in 1..LimitMax /\ streak \in 0..Threshold
    /\ blocked \in 0..MaxDelay /\ announced \in 0..MaxDelay
    /\ cancelled \in BOOLEAN

InFlight == {r \in Requester : At(r, "inflight")}

\* Whatever way a request ends, its slot is given back exactly once, and
\* no more than the limit's maximum are ever in flight: a leaked slot would
\* stall every later request of the account.
NoSlotLeaks == inFlight = Cardinality(InFlight) /\ inFlight <= LimitMax

\* Whichever request was told to wait, none is sent, by anyone, before the
\* longest wait the provider asked for is over.
CooldownHonored ==
    [][\A r \in Requester : ~At(r, "inflight") /\ At(r, "inflight")' => announced = 0]_vars

\* Both, of one budget.
BudgetKept == []NoSlotLeaks /\ CooldownHonored

\* The listing stopped below Lookback ids at a post it knew.
Boundary == {k \in ids \cap known : Cardinality({q \in ids : q >= k}) >= Lookback}

\* Posts published or deleted between two pages hide no other post: what was
\* in the feed all along is listed, down to the boundary.
ListingWhole ==
    stage \in {"details", "ok"} =>
        \A p \in before \cap feed : p \in ids \/ \E k \in Boundary : Lookback > 0 /\ p < k
================================================================================
