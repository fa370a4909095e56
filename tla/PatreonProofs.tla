---------------------------- MODULE PatreonProofs ----------------------------
(***************************************************************************)
(* Theorems about the listing (Fetch), for every number of workers and     *)
(* posts, every page size, lookback and retry count, and every limit of    *)
(* the budget; and about the saved session (Session), for every set of     *)
(* processes and any number of sessions.                                   *)
(***************************************************************************)
EXTENDS MCPatreon, FiniteSetTheorems, WellFoundedInduction, TLAPS

ReqType == [pc : Pcs, post : 0..MaxPost, attempt : 1..Attempts, delay : 0..MaxDelay]

(* The budget's counter is what is in flight; the wait it keeps is the     *)
(* longest one asked for; a request that backs off has an attempt left;    *)
(* the listing asks for pages only while it lists.                         *)
BudgetInv ==
    /\ TypeOK /\ inFlight \in Nat
    /\ NoSlotLeaks
    /\ announced = blocked
    /\ \A r \in Requester : At(r, "backoff") => request[r].attempt < Attempts
    /\ stage # "list" => At(Lister, "off")

USE FetchAssumption

LEMMA Smallest ==
  ASSUME NEW M, M \subseteq Nat, M # {}
  PROVE  Min(M) \in M /\ \A y \in M : Min(M) <= y
<1>1. PICK x \in M : \A y \in M : ~(<<y, x>> \in OpToRel(<, Nat))
  BY NatLessThanWellFounded, WFMin
<1>2. ASSUME NEW y \in M, y < x PROVE FALSE
  <2>1. <<y, x>> \in Nat \X Nat
    OBVIOUS
  <2>2. <<y, x>> \in OpToRel(<, Nat)
    <3>1. <<y, x>>[1] = y /\ <<y, x>>[2] = x
      OBVIOUS
    <3> QED
      BY <1>2, <2>1, <3>1, Zenon DEF OpToRel
  <2> QED
    BY <1>1, <2>2, Zenon
<1>3. \A y \in M : x <= y
  BY <1>2
<1> QED
  BY <1>3 DEF Min

LEMMA Largest ==
  ASSUME NEW n \in Nat, NEW M, M \subseteq 0..n, M # {}
  PROVE  Max(M) \in M /\ \A y \in M : y <= Max(M)
<1> DEFINE T == {n - y : y \in M}
<1>1. T \subseteq Nat /\ T # {}
  <2>1. ASSUME NEW z \in T PROVE z \in Nat
    <3>1. PICK y \in M : z = n - y
      OBVIOUS
    <3>2. y \in 0..n
      OBVIOUS
    <3> QED
      BY <3>1, <3>2
  <2>2. PICK y \in M : TRUE
    OBVIOUS
  <2>3. n - y \in T
    OBVIOUS
  <2> QED
    BY <2>1, <2>3
<1>2. Min(T) \in T /\ \A z \in T : Min(T) <= z
  BY <1>1, Smallest
<1>3. PICK x \in M : Min(T) = n - x
  BY <1>2
<1>4. \A y \in M : x >= y
  <2> SUFFICES ASSUME NEW y \in M PROVE x >= y
    OBVIOUS
  <2>1. n - y \in T
    OBVIOUS
  <2>2. n - x <= n - y
    BY <1>2, <1>3, <2>1
  <2> QED
    BY <2>2
<1> QED
  BY <1>4 DEF Max

LEMMA Pair ==
  ASSUME NEW a \in Int, NEW b \in Int
  PROVE  /\ Max({a, b}) = IF a >= b THEN a ELSE b
         /\ Min({a, b}) = IF a <= b THEN a ELSE b
<1>1. CASE a >= b
  BY <1>1 DEF Max, Min
<1>2. CASE a < b
  BY <1>2 DEF Max, Min
<1> QED
  BY <1>1, <1>2

LEMMA Requesters == IsFiniteSet(Requester) /\ Lister \in Requester /\ Worker \subseteq Requester
BY FS_AddElement DEF Requester

LEMMA InFlightFinite == IsFiniteSet(InFlight) /\ Cardinality(InFlight) \in Nat
<1>1. InFlight \in SUBSET Requester
  BY DEF InFlight
<1> QED
  BY <1>1, Requesters, FS_Subset, FS_CardinalityType

LEMMA Updates ==
  ASSUME NEW q \in ReqType
  PROVE  /\ \A v \in Pcs : [q EXCEPT !.pc = v] \in ReqType
         /\ \A v \in 0..MaxPost : [q EXCEPT !.post = v] \in ReqType
         /\ \A v \in 1..Attempts : [q EXCEPT !.attempt = v] \in ReqType
         /\ \A v \in 0..MaxDelay : [q EXCEPT !.delay = v] \in ReqType
BY DEF ReqType

LEMMA AskingTyped ==
  /\ Off \in ReqType
  /\ \A p \in 0..MaxPost : Asking(p) \in ReqType /\ Asking(p).pc = "acquire"
<1>1. Off \in ReqType
  BY DEF Off, ReqType, Pcs
<1>2. ASSUME NEW p \in 0..MaxPost PROVE Asking(p) \in ReqType /\ Asking(p).pc = "acquire"
  <2>1. "acquire" \in Pcs
    BY DEF Pcs
  <2>2. [Off EXCEPT !.pc = "acquire", !.post = p] \in ReqType
    BY <1>1, <2>1, Updates, Zenon
  <2>3. [Off EXCEPT !.pc = "acquire", !.post = p].pc = "acquire"
    BY DEF Off
  <2> QED
    BY <2>2, <2>3 DEF Asking
<1> QED
  BY <1>1, <1>2

-----------------------------------------------------------------------------
(* What a step does to the slots.                                          *)
Requests == request \in [Requester -> ReqType]

LEMMA SlotTaken ==
  ASSUME Requests, Requests', NEW r \in Requester, ~At(r, "inflight"), At(r, "inflight")',
         \A q \in Requester : q # r => request'[q] = request[q]
  PROVE  Cardinality(InFlight') = Cardinality(InFlight) + 1
<1>1. InFlight' = InFlight \cup {r} /\ r \notin InFlight
  BY DEF InFlight, At
<1> QED
  BY <1>1, InFlightFinite, FS_AddElement

LEMMA SlotFreed ==
  ASSUME Requests, Requests', NEW r \in Requester, At(r, "inflight"), ~At(r, "inflight")',
         \A q \in Requester : q # r => request'[q] = request[q]
  PROVE  Cardinality(InFlight') = Cardinality(InFlight) - 1 /\ Cardinality(InFlight) > 0
<1>1. InFlight' = InFlight \ {r} /\ r \in InFlight
  BY DEF InFlight, At
<1>2. IsFiniteSet(InFlight) /\ Cardinality(InFlight) \in Nat
  BY InFlightFinite
<1>3. Cardinality(InFlight) # 0
  BY <1>1, <1>2, FS_EmptySet
<1>4. Cardinality(InFlight \ {r}) = Cardinality(InFlight) - 1
  BY <1>1, <1>2, FS_RemoveElement
<1> QED
  BY <1>1, <1>2, <1>3, <1>4

LEMMA SlotsSame ==
  ASSUME \A q \in Requester : At(q, "inflight")' = At(q, "inflight")
  PROVE  InFlight' = InFlight
BY DEF InFlight

(* The budget after a request that ended: one slot less, ranges kept, and  *)
(* the wait it keeps is the longest one announced.                         *)
Settled ==
    /\ inFlight' = inFlight - 1
    /\ limit' \in 1..LimitMax /\ streak' \in 0..Threshold
    /\ blocked' \in 0..MaxDelay /\ announced' = blocked'

LEMMA Settles ==
  ASSUME TypeOK, inFlight \in Nat, inFlight > 0, announced = blocked,
         Succeeded \/ Finished \/ \E d \in 0..MaxDelay : Limited(d)
  PROVE  Settled
<1>1. /\ limit \in 1..LimitMax /\ streak \in 0..Threshold /\ blocked \in 0..MaxDelay
      /\ LimitMax \in Nat \ {0} /\ Threshold \in Nat \ {0} /\ MaxDelay \in Nat
  BY DEF TypeOK
<1>2. Released = inFlight - 1
  BY DEF Released
<1>3. CASE Succeeded
  <2>1. Min({streak + 1, Threshold}) \in 0..Threshold
    <3>1. streak + 1 \in Int /\ Threshold \in Int
      BY <1>1
    <3>2. Min({streak + 1, Threshold}) = IF streak + 1 <= Threshold THEN streak + 1 ELSE Threshold
      BY <3>1, Pair
    <3> QED
      BY <1>1, <3>2
  <2> QED
    BY <1>1, <1>2, <1>3, <2>1 DEF Succeeded, Settled
<1>4. CASE Finished
  BY <1>1, <1>2, <1>4 DEF Finished, Settled
<1>5. ASSUME NEW d \in 0..MaxDelay, Limited(d) PROVE Settled
  <2>1. (limit + 1) \div 2 \in Int /\ (limit + 1) \div 2 <= LimitMax
    BY <1>1
  <2>2. Max({1, (limit + 1) \div 2}) \in 1..LimitMax
    BY <1>1, <2>1, Pair
  <2>3. Max({blocked, d}) \in 0..MaxDelay
    BY <1>1, Pair
  <2> QED
    BY <1>2, <1>5, <2>2, <2>3 DEF Limited, Settled
<1> QED
  BY <1>3, <1>4, <1>5

LEMMA RefusedSettles ==
  ASSUME BudgetInv, NEW r \in Requester, Refused(r)
  PROVE  \/ At(r, "inflight") /\ Settled
         \/ ~At(r, "inflight") /\ UNCHANGED budgetVars
<1>1. CASE At(r, "inflight")
  <2>1. r \in InFlight
    BY <1>1 DEF InFlight
  <2>2. inFlight \in Nat /\ inFlight > 0 /\ TypeOK /\ announced = blocked
    BY <2>1, InFlightFinite, FS_EmptySet DEF BudgetInv, NoSlotLeaks
  <2>3. Succeeded \/ Finished \/ \E d \in 0..MaxDelay : Limited(d)
    BY <1>1 DEF Refused, At
  <2> QED
    BY <1>1, <2>2, <2>3, Settles
<1>2. CASE ~At(r, "inflight")
  BY <1>2 DEF Refused
<1> QED
  BY <1>1, <1>2

-----------------------------------------------------------------------------
LEMMA InitBudget == Init => BudgetInv
<1> SUFFICES ASSUME Init PROVE BudgetInv
  OBVIOUS
<1> USE DEF Init
<1>1. Requests
  BY AskingTyped DEF Requests
<1>2. InFlight = {}
  BY DEF InFlight, At, Off
<1>3. NoSlotLeaks
  BY <1>2, FS_EmptySet DEF NoSlotLeaks
<1>4. \A r \in Requester : ~At(r, "backoff")
  BY DEF At, Off
<1>5. /\ feed \subseteq 1..newest /\ newest \in 0..MaxPost /\ deletes \in 0..MaxDeletes
      /\ known \subseteq 1..newest /\ before \subseteq 1..newest /\ ids \subseteq 1..newest
      /\ after \in 1..MaxPost + 1 /\ todo \subseteq ids
      /\ limit \in 1..LimitMax /\ streak \in 0..Threshold
      /\ blocked \in 0..MaxDelay /\ announced \in 0..MaxDelay
  OBVIOUS
<1>6. stage \in Stages /\ failed \in BOOLEAN /\ cancelled \in BOOLEAN
  BY DEF Stages
<1>7. inFlight \in Nat /\ announced = blocked
  OBVIOUS
<1>8. At(Lister, "off")
  BY Requesters DEF At, Off
<1> HIDE DEF Init
<1> QED
  BY <1>1, <1>3, <1>4, <1>5, <1>6, <1>7, <1>8 DEF BudgetInv, TypeOK, Requests, ReqType

(* Requests of a step in which only r's changes.                           *)
LEMMA RequestSet ==
  ASSUME Requests, NEW r \in Requester, NEW v \in ReqType, request' = [request EXCEPT ![r] = v]
  PROVE  /\ Requests' /\ request'[r] = v
         /\ \A q \in Requester : q # r => request'[q] = request[q]
BY DEF Requests

(* The page below a post lies below it and in the feed, and holds all of   *)
(* the feed between its own last post and that one.                        *)
LEMMA PostsFinite ==
  ASSUME NEW n \in Nat
  PROVE  IsFiniteSet(1..n)
BY FS_Interval

LEMMA PageBelow ==
  ASSUME TypeOK, NEW b \in Nat
  PROVE  /\ Page(b) \subseteq feed /\ \A p \in Page(b) : p < b
         /\ \A p \in feed, q \in Page(b) : q <= p /\ p < b => p \in Page(b)
<1>1. feed \subseteq 1..newest /\ newest \in Nat
  BY DEF TypeOK
<1>2. ASSUME NEW p \in feed, NEW q \in Page(b), q <= p, p < b PROVE p \in Page(b)
  <2> DEFINE Above(x) == {y \in feed : x < y /\ y < b}
  <2>1. IsFiniteSet(Above(q)) /\ Above(p) \in SUBSET Above(q)
    <3>1. IsFiniteSet(1..newest)
      BY <1>1, PostsFinite
    <3>2. Above(q) \in SUBSET (1..newest)
      BY <1>1
    <3>3. q \in feed
      BY DEF Page
    <3>4. Above(p) \subseteq Above(q)
      <4> SUFFICES ASSUME NEW y \in feed, p < y, y < b PROVE q < y
        OBVIOUS
      <4> QED
        BY <1>1, <1>2, <3>3
    <3> QED
      BY <3>1, <3>2, <3>4, FS_Subset
  <2>2. Cardinality(Above(p)) <= Cardinality(Above(q)) /\ Cardinality(Above(q)) \in Nat
        /\ Cardinality(Above(p)) \in Nat
    BY <2>1, FS_Subset, FS_CardinalityType
  <2>3. Cardinality(Above(q)) < PageSize
    BY DEF Page
  <2> QED
    BY <1>2, <2>2, <2>3 DEF Page
<1> QED
  BY <1>2 DEF Page

(* What the listing keeps of a page, by the second definition of ListPage. *)
New(top) == Page(top) \ ids
Kept(top) ==
    IF Stops(New(top)) = {} THEN New(top)
    ELSE {q \in New(top) : q >= Max(Stops(New(top)))}

LEMMA PageListed ==
  ASSUME BudgetInv, ListPage
  PROVE  \E top \in {after, after + 1} :
           /\ ids' = ids \cup Kept(top)
           /\ \/ /\ Stops(New(top)) # {} \/ LastPage(top)
                 /\ stage' = "details" /\ todo' = ids' /\ after' = after
                 /\ request' = [request EXCEPT ![Lister] = Off]
              \/ /\ Stops(New(top)) = {} /\ ~LastPage(top)
                 /\ after' = Min(Page(top)) /\ stage' = stage /\ todo' = todo
                 /\ request' = [request EXCEPT ![Lister] = Asking(0)]
<1>1. after \in Nat
  BY DEF BudgetInv, TypeOK
<1>2. PICK repeat \in {0, 1} :
        LET top == after + repeat
            new == Page(top) \ ids
            stops == Stops(new)
            kept == IF stops = {} THEN new ELSE {q \in new : q >= Max(stops)}
        IN /\ ids' = ids \cup kept
           /\ IF stops # {} \/ LastPage(top)
                THEN /\ stage' = "details" /\ todo' = ids'
                     /\ request' = [request EXCEPT ![Lister] = Off]
                     /\ UNCHANGED after
                ELSE /\ after' = Min(Page(top))
                     /\ request' = [request EXCEPT ![Lister] = Asking(0)]
                     /\ UNCHANGED <<stage, todo>>
  BY DEF ListPage
<1>3. after + repeat \in {after, after + 1}
  BY <1>1
<1> QED
  BY <1>2, <1>3 DEF New, Kept

LEMMA ListTypes ==
  ASSUME BudgetInv, ListPage
  PROVE  BudgetInv'
<1>1. /\ TypeOK /\ inFlight \in Nat /\ Requests /\ NoSlotLeaks /\ announced = blocked
      /\ feed \subseteq 1..newest /\ newest \in Nat /\ after \in Nat
  BY DEF BudgetInv, TypeOK, Requests, ReqType
<1>2. At(Lister, "inflight") /\ Lister \in Requester
  BY Requesters DEF ListPage
<1>3. inFlight > 0
  <2>1. Lister \in InFlight
    BY <1>2 DEF InFlight
  <2> QED
    BY <1>1, <2>1, InFlightFinite, FS_EmptySet DEF NoSlotLeaks
<1>4. Settled
  BY <1>1, <1>3, Settles DEF ListPage
<1>5. PICK top \in {after, after + 1} :
           /\ ids' = ids \cup Kept(top)
           /\ \/ /\ Stops(New(top)) # {} \/ LastPage(top)
                 /\ stage' = "details" /\ todo' = ids' /\ after' = after
                 /\ request' = [request EXCEPT ![Lister] = Off]
              \/ /\ Stops(New(top)) = {} /\ ~LastPage(top)
                 /\ after' = Min(Page(top)) /\ stage' = stage /\ todo' = todo
                 /\ request' = [request EXCEPT ![Lister] = Asking(0)]
  BY PageListed
<1>6. Page(top) \subseteq feed
  BY <1>1, <1>5, PageBelow
<1>7. ids' \subseteq 1..newest
  BY <1>1, <1>5, <1>6 DEF Kept, New, BudgetInv, TypeOK
<1>8. after' \in 1..MaxPost + 1 /\ todo' \subseteq ids' /\ stage' \in Stages
  <2>1. CASE ~LastPage(top) /\ after' = Min(Page(top)) /\ stage' = stage /\ todo' = todo
    <3>1. Page(top) # {} /\ Page(top) \subseteq Nat
      <4>1. 1..newest \subseteq Nat
        BY <1>1
      <4> QED
        BY <1>1, <1>6, <2>1, <4>1 DEF LastPage
    <3>2. Min(Page(top)) \in Page(top)
      BY <3>1, Smallest
    <3>3. after' \in 1..newest /\ newest <= MaxPost
      <4>1. newest <= MaxPost
        BY <1>1 DEF TypeOK
      <4> QED
        BY <1>1, <1>6, <2>1, <3>2, <4>1
    <3>4. todo' \subseteq ids' /\ stage' \in Stages
      BY <1>1, <1>5, <2>1 DEF TypeOK
    <3> QED
      BY <1>1, <3>3, <3>4
  <2>2. CASE stage' = "details" /\ todo' = ids' /\ after' = after
    BY <1>1, <2>2 DEF TypeOK, Stages
  <2> QED
    BY <1>5, <2>1, <2>2
<1>9. /\ Requests' /\ ~At(Lister, "inflight")' /\ ~At(Lister, "backoff")'
      /\ \A q \in Requester : q # Lister => request'[q] = request[q]
  <2>1. Off \in ReqType /\ Asking(0) \in ReqType /\ Off.pc = "off" /\ Asking(0).pc = "acquire"
    BY AskingTyped DEF Off
  <2> QED
    BY <1>1, <1>2, <1>5, <2>1, RequestSet DEF At
<1>10. NoSlotLeaks'
  <2>1. Cardinality(InFlight') = Cardinality(InFlight) - 1
    BY <1>1, <1>2, <1>9, SlotFreed
  <2> QED
    BY <1>1, <1>3, <1>4, <2>1 DEF NoSlotLeaks, Settled
<1>11. \A r \in Requester : At(r, "backoff")' => request'[r].attempt < Attempts
  BY <1>9 DEF BudgetInv, At
<1>12. UNCHANGED <<serverVars, known, before, failed, cancelled>>
  BY DEF ListPage
<1>13. stage' # "list" => At(Lister, "off")'
  <2>1. stage = "list"
    BY DEF ListPage
  <2> QED
    BY <1>1, <1>2, <1>5, <2>1 DEF At, Off, Requests
<1> QED
  BY <1>1, <1>3, <1>4, <1>7, <1>8, <1>9, <1>10, <1>11, <1>12, <1>13
     DEF BudgetInv, TypeOK, Settled, Requests, ReqType, serverVars

(* A request that ends, or that waits, starts or takes a slot: the others  *)
(* are as they were.                                                       *)
LEMMA SlotsKept ==
  ASSUME BudgetInv, Requests', NEW r \in Requester,
         \A q \in Requester : q # r => request'[q] = request[q],
         ~At(r, "backoff")' \/ request'[r].attempt < Attempts,
         limit' \in 1..LimitMax, announced' = blocked',
         \/ At(r, "inflight")' = At(r, "inflight") /\ inFlight' = inFlight
         \/ At(r, "inflight") /\ ~At(r, "inflight")' /\ inFlight' = inFlight - 1
         \/ /\ ~At(r, "inflight") /\ At(r, "inflight")' /\ inFlight' = inFlight + 1
            /\ inFlight < LimitMax
  PROVE  /\ inFlight' \in Nat /\ NoSlotLeaks'
         /\ \A q \in Requester : At(q, "backoff")' => request'[q].attempt < Attempts
<1>1. Requests /\ inFlight \in Nat /\ inFlight = Cardinality(InFlight) /\ inFlight <= LimitMax
  BY DEF BudgetInv, TypeOK, Requests, ReqType, NoSlotLeaks
<1>2. \A q \in Requester : At(q, "backoff")' => request'[q].attempt < Attempts
  BY DEF At, BudgetInv
<1>3. CASE At(r, "inflight")' = At(r, "inflight") /\ inFlight' = inFlight
  <2>1. InFlight' = InFlight
    <3>1. \A q \in Requester : At(q, "inflight")' = At(q, "inflight")
      BY <1>3 DEF At
    <3> QED
      BY <3>1, SlotsSame
  <2> QED
    BY <1>1, <1>2, <1>3, <2>1 DEF NoSlotLeaks
<1>4. CASE At(r, "inflight") /\ ~At(r, "inflight")' /\ inFlight' = inFlight - 1
  <2>1. Cardinality(InFlight') = Cardinality(InFlight) - 1 /\ Cardinality(InFlight) > 0
    BY <1>1, <1>4, SlotFreed
  <2> QED
    BY <1>1, <1>2, <1>4, <2>1 DEF NoSlotLeaks
<1>5. CASE /\ ~At(r, "inflight") /\ At(r, "inflight")' /\ inFlight' = inFlight + 1
           /\ inFlight < LimitMax
  <2>1. Cardinality(InFlight') = Cardinality(InFlight) + 1
    BY <1>1, <1>5, SlotTaken
  <2> QED
    BY <1>1, <1>2, <1>5, <2>1 DEF NoSlotLeaks
<1> QED
  BY <1>3, <1>4, <1>5

(* A request moves by a step of its own, and only an acquired slot sends   *)
(* it.                                                                     *)
LEMMA RequestMoves ==
  ASSUME BudgetInv, NEW r \in Requester,
         \/ Acquire(r) \/ Retry(r) \/ BackoffEnds(r) \/ (ListFails /\ r = Lister)
         \/ r \in Worker /\ (TakeJob(r) \/ Detail(r) \/ DetailFails(r))
  PROVE  \E v \in ReqType : /\ request' = [request EXCEPT ![r] = v]
                            /\ v.pc = "backoff" => v.attempt < Attempts
                            /\ v.pc = "inflight" => Acquire(r)
                            /\ Acquire(r) => v.pc = "inflight"
<1>0. TypeOK /\ Requests /\ request[r] \in ReqType
  BY DEF BudgetInv, TypeOK, Requests, ReqType
<1>1. {"inflight", "backoff", "acquire", "off"} \subseteq Pcs
  BY DEF Pcs
<1>2. CASE Acquire(r)
  <2>1. LET v == [request[r] EXCEPT !.pc = "inflight"]
        IN v \in ReqType /\ v.pc = "inflight" /\ request' = [request EXCEPT ![r] = v]
    BY <1>0, <1>1, <1>2, Updates DEF Acquire, ReqType
  <2> QED
    BY <1>2, <2>1
<1>3. CASE Retry(r)
  <2>1. PICK d \in 0..MaxDelay :
          request' = [request EXCEPT ![r].pc = "backoff", ![r].delay = d]
    BY <1>3 DEF Retry
  <2> DEFINE v == [request[r] EXCEPT !.pc = "backoff", !.delay = d]
  <2>2. v \in ReqType
    BY <1>0, <1>1, Updates, Zenon
  <2>3. v.pc = "backoff" /\ v.attempt = request[r].attempt
    BY <1>0 DEF ReqType
  <2>4. request' = [request EXCEPT ![r] = v]
    BY <1>0, <2>1 DEF Requests
  <2>5. v.attempt < Attempts /\ ~Acquire(r)
    BY <1>3, <2>3 DEF Retry, Acquire, At
  <2> HIDE DEF v
  <2> QED
    BY <2>2, <2>3, <2>4, <2>5
<1>4. CASE BackoffEnds(r)
  <2>1. request[r].attempt + 1 \in 1..Attempts
    BY <1>0, <1>4 DEF BudgetInv, BackoffEnds, ReqType
  <2>2. request' = [request EXCEPT ![r].pc = "acquire", ![r].attempt = request[r].attempt + 1]
    BY <1>0, <1>4 DEF BackoffEnds, Requests
  <2> DEFINE v == [request[r] EXCEPT !.pc = "acquire", !.attempt = request[r].attempt + 1]
  <2>3. v \in ReqType
    BY <1>0, <1>1, <2>1, Updates, Zenon
  <2>4. v.pc = "acquire"
    BY <1>0 DEF ReqType
  <2>5. request' = [request EXCEPT ![r] = v]
    BY <1>0, <2>2 DEF Requests
  <2>6. ~Acquire(r)
    BY <1>4 DEF BackoffEnds, Acquire, At
  <2> HIDE DEF v
  <2> QED
    BY <2>3, <2>4, <2>5, <2>6
<1>5. CASE TakeJob(r)
  <2>1. Max(todo) \in 0..MaxPost
    <3>1. todo \subseteq ids /\ ids \subseteq 1..newest /\ newest \in 0..MaxPost
      BY <1>0 DEF TypeOK
    <3>2. 1..newest \subseteq 0..MaxPost
      BY <3>1
    <3>3. todo \subseteq 0..MaxPost /\ todo # {}
      BY <1>5, <3>1, <3>2 DEF TakeJob
    <3>4. Max(todo) \in todo
      BY <3>3, Largest
    <3> QED
      BY <3>3, <3>4
  <2> QED
    BY <1>5, <2>1, AskingTyped DEF TakeJob, Acquire, At
<1>6. CASE Detail(r) \/ DetailFails(r) \/ (ListFails /\ r = Lister)
  <2>1. request' = [request EXCEPT ![r] = Off]
    BY <1>6 DEF Detail, DetailFails, ListFails
  <2>2. Acquire(r) => FALSE
    <3>1. Acquire(r) => request'[r].pc = "inflight"
      BY <1>0 DEF Acquire, Requests, ReqType
    <3>2. request'[r].pc = "off"
      BY <1>0, <2>1 DEF Requests, Off
    <3> QED
      BY <3>1, <3>2
  <2> QED
    BY <2>1, <2>2, AskingTyped DEF Off
<1> QED
  BY <1>2, <1>3, <1>4, <1>5, <1>6

LEMMA RequesterTypes ==
  ASSUME BudgetInv, NEW r \in Requester,
         \/ Acquire(r) \/ Retry(r) \/ BackoffEnds(r) \/ (ListFails /\ r = Lister)
         \/ r \in Worker /\ (TakeJob(r) \/ Detail(r) \/ DetailFails(r))
  PROVE  BudgetInv'
<1>1. /\ TypeOK /\ Requests /\ request[r] \in ReqType /\ announced = blocked
      /\ inFlight \in Nat /\ inFlight = Cardinality(InFlight)
  BY DEF BudgetInv, TypeOK, Requests, ReqType, NoSlotLeaks
<1>2. At(r, "inflight") => inFlight > 0
  <2>1. At(r, "inflight") => r \in InFlight
    BY DEF InFlight
  <2> QED
    BY <1>1, <2>1, InFlightFinite, FS_EmptySet
<1>3. PICK v \in ReqType : /\ request' = [request EXCEPT ![r] = v]
                           /\ v.pc = "backoff" => v.attempt < Attempts
                           /\ v.pc = "inflight" => Acquire(r)
                           /\ Acquire(r) => v.pc = "inflight"
  BY RequestMoves
<1>4. /\ Requests' /\ request'[r] = v
      /\ \A q \in Requester : q # r => request'[q] = request[q]
  BY <1>1, <1>3, RequestSet
<1>5. /\ limit' \in 1..LimitMax /\ streak' \in 0..Threshold
      /\ blocked' \in 0..MaxDelay /\ announced' = blocked'
      /\ \/ At(r, "inflight")' = At(r, "inflight") /\ inFlight' = inFlight
         \/ At(r, "inflight") /\ ~At(r, "inflight")' /\ inFlight' = inFlight - 1
         \/ /\ ~At(r, "inflight") /\ At(r, "inflight")' /\ inFlight' = inFlight + 1
            /\ inFlight < LimitMax
  <2>1. /\ limit \in 1..LimitMax /\ streak \in 0..Threshold /\ blocked \in 0..MaxDelay
        /\ announced = blocked /\ LimitMax \in Nat
    BY <1>1 DEF TypeOK
  <2>2. CASE Acquire(r)
    <3>1. ~At(r, "inflight") /\ At(r, "inflight")'
      BY <1>3, <1>4, <2>2 DEF Acquire, At
    <3> QED
      BY <1>1, <2>1, <2>2, <3>1 DEF Acquire
  <2>3. CASE ~Acquire(r)
    <3>1. ~At(r, "inflight")'
      BY <1>3, <1>4, <2>3 DEF At
    <3>2. CASE At(r, "inflight")
      <4>1. Settled
        <5>1. CASE Retry(r) \/ Detail(r)
          BY <1>1, <1>2, <3>2, <5>1, Settles DEF Retry, Detail
        <5>2. CASE DetailFails(r) \/ (ListFails /\ r = Lister)
          BY <3>2, <5>2, RefusedSettles DEF DetailFails, ListFails
        <5> QED
          BY <2>3, <3>2, <5>1, <5>2 DEF BackoffEnds, TakeJob, At
      <4> QED
        BY <3>1, <3>2, <4>1 DEF Settled
    <3>3. CASE ~At(r, "inflight")
      <4>1. UNCHANGED budgetVars
        <5>1. CASE DetailFails(r) \/ (ListFails /\ r = Lister)
          BY <3>3, <5>1, RefusedSettles DEF DetailFails, ListFails
        <5> QED
          BY <2>3, <3>3, <5>1 DEF BackoffEnds, TakeJob, Retry, Detail
      <4>2. At(r, "inflight")' = At(r, "inflight")
        BY <3>1, <3>3 DEF At
      <4>3. inFlight' = inFlight /\ limit' = limit /\ streak' = streak
            /\ blocked' = blocked /\ announced' = announced
        BY <4>1 DEF budgetVars
      <4> QED
        BY <2>1, <4>2, <4>3
    <3> QED
      BY <3>2, <3>3
  <2> QED
    BY <2>2, <2>3
<1>6. /\ inFlight' \in Nat /\ NoSlotLeaks'
      /\ \A q \in Requester : At(q, "backoff")' => request'[q].attempt < Attempts
  BY <1>3, <1>4, <1>5, SlotsKept DEF At
<1>7. /\ UNCHANGED <<serverVars, known, before, ids, after, cancelled>>
      /\ todo' \subseteq ids /\ stage' \in Stages /\ failed' \in BOOLEAN
  <2>1. CASE ListFails
    BY <1>1, <2>1 DEF ListFails, TypeOK, Stages, serverVars
  <2>2. CASE TakeJob(r)
    BY <1>1, <2>2 DEF TakeJob, TypeOK, serverVars
  <2>3. CASE DetailFails(r)
    BY <1>1, <2>3 DEF DetailFails, TypeOK, serverVars
  <2>4. CASE Acquire(r) \/ Retry(r) \/ BackoffEnds(r) \/ Detail(r)
    BY <1>1, <2>4 DEF Acquire, Retry, BackoffEnds, Detail, TypeOK, serverVars, listVars
  <2> QED
    BY <2>1, <2>2, <2>3, <2>4
<1>8. stage' # "list" => At(Lister, "off")'
  <2>1. CASE ListFails /\ r = Lister
    BY <1>1, <2>1 DEF ListFails, At, Off, Requests
  <2>2. CASE r \in Worker /\ (TakeJob(r) \/ Detail(r) \/ DetailFails(r))
    <3>1. r # Lister /\ stage' = stage
      BY <2>2 DEF TakeJob, Detail, DetailFails, listVars
    <3> QED
      BY <1>4, <3>1, Requesters DEF At, BudgetInv
  <2>3. CASE Acquire(r) \/ Retry(r) \/ BackoffEnds(r)
    <3>1. stage' = stage /\ ~At(r, "off")
      BY <2>3 DEF Acquire, Retry, BackoffEnds, listVars, At
    <3>2. CASE r = Lister
      BY <3>1, <3>2 DEF BudgetInv
    <3>3. CASE r # Lister
      BY <1>4, <3>1, <3>3, Requesters DEF At, BudgetInv
    <3> QED
      BY <3>2, <3>3
  <2> QED
    BY <2>1, <2>2, <2>3
<1> QED
  BY <1>1, <1>4, <1>5, <1>6, <1>7, <1>8
     DEF BudgetInv, TypeOK, Requests, ReqType, serverVars

LEMMA BudgetStays == BudgetInv /\ [Next]_vars => BudgetInv'
<1> SUFFICES ASSUME BudgetInv, [Next]_vars PROVE BudgetInv'
  OBVIOUS
<1>1. /\ TypeOK /\ Requests /\ announced = blocked /\ inFlight \in Nat /\ NoSlotLeaks
      /\ \A r \in Requester : request[r] \in ReqType
  BY DEF BudgetInv, TypeOK, Requests, ReqType
<1>2. ASSUME UNCHANGED <<request, budgetVars>>
      PROVE  /\ inFlight' \in Nat /\ NoSlotLeaks' /\ announced' = blocked' /\ Requests'
             /\ \A r \in Requester : At(r, "backoff")' => request'[r].attempt < Attempts
             /\ At(Lister, "off")' = At(Lister, "off")
  BY <1>1, <1>2 DEF BudgetInv, NoSlotLeaks, InFlight, At, budgetVars, Requests
<1>3. CASE Publish
  <2>1. newest \in Nat /\ newest' = newest + 1 /\ newest' \in 0..MaxPost
    BY <1>1, <1>3 DEF Publish, TypeOK
  <2>2. 1..newest \subseteq 1..newest' /\ newest' \in 1..newest'
    BY <2>1
  <2>3. feed' \subseteq 1..newest'
    BY <1>1, <1>3, <2>2 DEF Publish, TypeOK
  <2> QED
    BY <1>1, <1>2, <1>3, <2>1, <2>2, <2>3 DEF BudgetInv, TypeOK, Publish, listVars, budgetVars
<1>4. CASE Delete
  BY <1>1, <1>2, <1>4 DEF BudgetInv, TypeOK, Delete, listVars, budgetVars
<1>5. CASE Cancel
  BY <1>1, <1>2, <1>5 DEF BudgetInv, TypeOK, Cancel, serverVars, listVars, budgetVars
<1>6. CASE Collect
  <2>1. known' \subseteq 1..newest /\ stage' \in Stages
    BY <1>1, <1>6 DEF Collect, Recent, TypeOK, Stages
  <2> QED
    BY <1>1, <1>2, <1>6, <2>1 DEF BudgetInv, TypeOK, Collect, serverVars, budgetVars
<1>7. CASE Begin
  <2>1. At(Lister, "off") /\ Lister \in Requester
    BY <1>7, Requesters DEF Begin, BudgetInv
  <2>2. 0 \in 0..MaxPost /\ Asking(0) \in ReqType /\ Asking(0).pc = "acquire"
    BY AskingTyped
  <2>3. request' = [request EXCEPT ![Lister] = Asking(0)] /\ UNCHANGED budgetVars
    BY <1>7 DEF Begin
  <2>4. /\ Requests' /\ request'[Lister] = Asking(0)
        /\ \A q \in Requester : q # Lister => request'[q] = request[q]
    BY <1>1, <2>1, <2>2, <2>3, RequestSet
  <2>5. At(Lister, "inflight")' = At(Lister, "inflight") /\ ~At(Lister, "backoff")'
    BY <2>1, <2>2, <2>4 DEF At
  <2>6. limit' \in 1..LimitMax /\ announced' = blocked' /\ inFlight' = inFlight
    BY <1>1, <2>3 DEF budgetVars, TypeOK
  <2>7. /\ inFlight' \in Nat /\ NoSlotLeaks'
        /\ \A q \in Requester : At(q, "backoff")' => request'[q].attempt < Attempts
    BY <2>1, <2>4, <2>5, <2>6, SlotsKept
  <2>8. /\ before' \subseteq 1..newest /\ ids' = {} /\ after' \in 1..MaxPost + 1 /\ todo' = {}
        /\ failed' \in BOOLEAN /\ cancelled' \in BOOLEAN /\ stage' = "list"
    <3>1. MaxPost + 1 \in 1..MaxPost + 1 /\ feed \subseteq 1..newest
      BY <1>1 DEF TypeOK
    <3> QED
      BY <1>7, <3>1 DEF Begin
  <2>9. UNCHANGED <<serverVars, known, budgetVars>>
    BY <1>7 DEF Begin
  <2> QED
    BY <1>1, <2>4, <2>6, <2>7, <2>8, <2>9
       DEF BudgetInv, TypeOK, Requests, ReqType, Stages, serverVars, budgetVars
<1>8. CASE Tick
  <2>1. /\ blocked' = Down1(blocked) /\ announced' = Down1(announced)
        /\ request' = [r \in Requester |-> [request[r] EXCEPT !.delay = Down1(@)]]
        /\ UNCHANGED <<serverVars, listVars, limit, inFlight, streak, cancelled>>
    BY <1>8 DEF Tick
  <2>2. ASSUME NEW r \in Requester
        PROVE  /\ request'[r] \in ReqType /\ request'[r].pc = request[r].pc
               /\ request'[r].attempt = request[r].attempt
    <3>1. Down1(request[r].delay) \in 0..MaxDelay
      BY <1>1 DEF Down1, ReqType
    <3> QED
      BY <1>1, <2>1, <3>1, Updates DEF ReqType
  <2>3. Requests'
    BY <2>1, <2>2 DEF Requests
  <2>4. InFlight' = InFlight
    BY <2>2, SlotsSame DEF At
  <2>5. blocked' \in 0..MaxDelay /\ announced' = blocked'
    BY <1>1, <2>1 DEF Down1, TypeOK
  <2>6. NoSlotLeaks' /\ inFlight' \in Nat
    BY <1>1, <2>1, <2>4 DEF NoSlotLeaks
  <2>7. /\ \A r \in Requester : At(r, "backoff")' => request'[r].attempt < Attempts
        /\ At(Lister, "off")' = At(Lister, "off")
    BY <2>2, Requesters DEF At, BudgetInv
  <2> QED
    BY <1>1, <2>1, <2>3, <2>5, <2>6, <2>7
       DEF BudgetInv, TypeOK, Requests, ReqType, serverVars, listVars
<1>9. CASE ListPage
  BY <1>9, ListTypes
<1>10. CASE ListFails \/ (\E w \in Worker : TakeJob(w) \/ Detail(w) \/ DetailFails(w))
             \/ \E r \in Requester : Acquire(r) \/ Retry(r) \/ BackoffEnds(r)
  BY <1>10, Requesters, RequesterTypes
<1>11. CASE UNCHANGED vars
  BY <1>1, <1>2, <1>11 DEF vars, BudgetInv, TypeOK, serverVars, listVars, budgetVars
<1> QED
  BY <1>3, <1>4, <1>5, <1>6, <1>7, <1>8, <1>9, <1>10, <1>11 DEF Next, Fetching

(* The variables of a listing keep their ranges: the limit, the wait and   *)
(* the attempts stay within their bounds.                                  *)
THEOREM FetchTypes == Spec => []TypeOK
<1>1. BudgetInv => TypeOK
  BY DEF BudgetInv
<1> QED
  BY <1>1, InitBudget, BudgetStays, PTL DEF Spec

(* A request is sent by taking a slot, when no wait is left.               *)
LEMMA SentAfterCooldown ==
  ASSUME BudgetInv, [Next]_vars, NEW r \in Requester, ~At(r, "inflight"), At(r, "inflight")'
  PROVE  announced = 0
<1>1. Requests
  BY DEF BudgetInv, TypeOK, Requests, ReqType
<1>2. request'[r].pc # request[r].pc
  BY DEF At
<1>3. PICK q \in Requester :
        \/ Acquire(q) \/ Retry(q) \/ BackoffEnds(q) \/ (ListFails /\ q = Lister)
        \/ q \in Worker /\ (TakeJob(q) \/ Detail(q) \/ DetailFails(q))
  <2>1. CASE Publish \/ Delete \/ Cancel \/ Collect \/ UNCHANGED vars
    BY <1>2, <2>1 DEF Publish, Delete, Cancel, Collect, vars
  <2>2. CASE ListPage \/ Begin
    <3>1. \E v \in {Off, Asking(0)} : request' = [request EXCEPT ![Lister] = v]
      BY <2>2, PageListed DEF Begin
    <3>2. Off.pc = "off" /\ Asking(0).pc = "acquire"
      BY AskingTyped DEF Off
    <3> QED
      BY <1>1, <1>2, <3>1, <3>2 DEF Requests, At
  <2>3. CASE Tick
    BY <1>1, <1>2, <2>3 DEF Tick, Requests, ReqType
  <2> QED
    BY <2>1, <2>2, <2>3, Requesters DEF Next, Fetching
<1>4. PICK v \in ReqType : /\ request' = [request EXCEPT ![q] = v]
                           /\ v.pc = "inflight" => Acquire(q)
  BY <1>3, RequestMoves
<1>5. q = r /\ v.pc = "inflight"
  BY <1>1, <1>2, <1>4 DEF Requests, At
<1> QED
  BY <1>4, <1>5 DEF Acquire, BudgetInv

(* However requests fail, retry, are limited or cancelled: no slot of the  *)
(* budget is leaked or exceeded, and none is taken before the longest wait *)
(* asked for is over.                                                      *)
THEOREM BudgetIsKept == Spec => BudgetKept
<1>1. Spec => []BudgetInv
  BY InitBudget, BudgetStays, PTL DEF Spec
<1>2. BudgetInv => NoSlotLeaks
  BY DEF BudgetInv
<1>3. BudgetInv /\ [Next]_vars
        => [\A r \in Requester : ~At(r, "inflight") /\ At(r, "inflight")' => announced = 0]_vars
  BY SentAfterCooldown
<1> QED
  BY <1>1, <1>2, <1>3, PTL DEF Spec, BudgetKept, CooldownHonored

-----------------------------------------------------------------------------
(* While it lists, the listing has what was there from the start down to   *)
(* the last post of the last page, and nothing below.                      *)
PagesInv ==
    stage = "list" => /\ \A p \in before \cap feed : p >= after => p \in ids
                      /\ \A q \in ids : q >= after

ListInv == BudgetInv /\ PagesInv /\ ListingWhole

(* A page below a post is empty only when the feed is.                     *)
LEMMA PageNotEmpty ==
  ASSUME TypeOK, NEW b \in Nat, NEW p \in feed, p < b
  PROVE  Page(b) # {}
<1> DEFINE Below == {q \in feed : q < b}
<1>1. feed \subseteq 1..newest /\ newest \in Nat /\ 1..newest \subseteq 0..newest
  BY DEF TypeOK
<1>2. Below \subseteq 0..newest /\ Below # {}
  BY <1>1
<1>3. Max(Below) \in Below /\ \A y \in Below : y <= Max(Below)
  BY <1>1, <1>2, Largest
<1>4. PICK m \in Below : \A y \in Below : y <= m
  BY <1>3
<1>5. {q \in feed : m < q /\ q < b} = {}
  <2> SUFFICES ASSUME NEW q \in feed, m < q, q < b PROVE FALSE
    OBVIOUS
  <2>1. q <= m /\ q \in Nat /\ m \in Nat
    BY <1>1, <1>4
  <2> QED
    BY <2>1
<1>6. m \in Page(b)
  BY <1>4, <1>5, FS_EmptySet DEF Page
<1> QED
  BY <1>6

(* Of the posts a listing keeps, the boundary is never older than the one  *)
(* it stopped at.                                                          *)
LEMMA BoundaryKept ==
  ASSUME TypeOK, NEW k \in ids, Lookback > 0, Cardinality({q \in ids : q >= k}) >= Lookback
  PROVE  \E m \in Recent : m >= k /\ Cardinality({q \in ids : q >= m}) >= Lookback
<1> DEFINE Upper(x) == {q \in ids : q >= x}
           Deep == {x \in ids : Cardinality(Upper(x)) >= Lookback}
<1>1. /\ ids \subseteq 1..newest /\ newest \in Nat /\ 1..newest \subseteq 0..newest
      /\ 1..newest \subseteq Nat
  BY DEF TypeOK
<1>2. Deep \subseteq 0..newest /\ k \in Deep
  BY <1>1
<1>3. PICK m \in Deep : \A y \in Deep : y <= m
  BY <1>1, <1>2, Largest
<1>4. m \in ids /\ m \in Nat /\ m >= k /\ Cardinality(Upper(m)) >= Lookback
  BY <1>1, <1>2, <1>3
<1> DEFINE Above == {q \in ids : q > m}
<1>5. IsFiniteSet(Above) /\ Cardinality(Above) \in Nat /\ Above \subseteq Nat
  <2>1. IsFiniteSet(1..newest)
    BY <1>1, PostsFinite
  <2>2. Above \in SUBSET (1..newest)
    BY <1>1
  <2>3. IsFiniteSet(Above)
    BY <2>1, <2>2, FS_Subset
  <2> QED
    BY <1>1, <2>3, FS_CardinalityType
<1>6. Cardinality(Above) < Lookback
  <2> SUFFICES ASSUME Cardinality(Above) >= Lookback PROVE FALSE
    BY <1>5
  <2>1. Above # {}
    <3>1. Cardinality(Above) # 0
      BY <1>5
    <3> QED
      BY <1>5, <3>1, FS_EmptySet
  <2>2. PICK l \in Above : \A y \in Above : l <= y
    BY <1>5, <2>1, Smallest
  <2>3. l \in ids /\ l \in Nat /\ l > m
    BY <1>5, <2>2
  <2>4. Upper(l) = Above
    <3>1. ASSUME NEW q \in ids PROVE q >= l <=> q > m
      <4>1. q \in Nat
        BY <1>1
      <4>2. q > m => q >= l
        BY <2>2, <4>1
      <4> QED
        BY <1>4, <2>3, <4>1, <4>2
    <3> QED
      BY <3>1
  <2>5. l \in Deep
    BY <2>3, <2>4
  <2>6. l <= m
    BY <1>3, <2>5
  <2> QED
    BY <1>4, <2>3, <2>6
<1>7. m \in Recent
  <2>1. Cardinality(Above) < Keep
    BY <1>5, <1>6
  <2> QED
    BY <1>4, <2>1 DEF Recent
<1> QED
  BY <1>4, <1>7

(* A page that ends the listing or not.                                    *)
LEMMA PageWhole ==
  ASSUME BudgetInv, PagesInv, ListPage
  PROVE  (PagesInv /\ ListingWhole)'
<1>1. /\ TypeOK /\ stage = "list" /\ feed' = feed /\ before' = before /\ known' = known
      /\ newest \in Nat /\ feed \subseteq 1..newest /\ ids \subseteq 1..newest /\ after \in Nat
      /\ 1..newest \subseteq Nat
  BY DEF BudgetInv, TypeOK, ListPage, serverVars
<1>2. PICK top \in {after, after + 1} :
           /\ ids' = ids \cup Kept(top)
           /\ \/ /\ Stops(New(top)) # {} \/ LastPage(top)
                 /\ stage' = "details" /\ todo' = ids' /\ after' = after
                 /\ request' = [request EXCEPT ![Lister] = Off]
              \/ /\ Stops(New(top)) = {} /\ ~LastPage(top)
                 /\ after' = Min(Page(top)) /\ stage' = stage /\ todo' = todo
                 /\ request' = [request EXCEPT ![Lister] = Asking(0)]
  BY PageListed
<1>3. /\ top \in Nat /\ top >= after /\ Page(top) \subseteq feed
      /\ \A p \in Page(top) : p \in Nat /\ p < top /\ p <= after
  <2>1. top \in Nat /\ top >= after /\ top <= after + 1
    BY <1>1, <1>2
  <2>2. Page(top) \subseteq feed /\ \A p \in Page(top) : p < top
    BY <1>1, <2>1, PageBelow
  <2>3. ASSUME NEW p \in Page(top) PROVE p \in Nat /\ p <= after
    <3>1. p \in Nat /\ p < top
      BY <1>1, <2>2
    <3> QED
      BY <1>1, <2>1, <3>1
  <2> QED
    BY <2>1, <2>2, <2>3
<1>0. \A p \in before \cap feed : p \in Nat /\ (p >= top \/ p < top)
  <2>1. \A p \in before \cap feed : p \in Nat
    BY <1>1
  <2> QED
    BY <1>3, <2>1
<1>4. ASSUME NEW p \in before \cap feed, p >= top PROVE p \in ids
  <2>1. p \in Nat
    BY <1>1
  <2>2. p >= after
    BY <1>1, <1>3, <1>4, <2>1
  <2> QED
    BY <1>1, <2>2 DEF PagesInv
<1>5. \A q \in ids : q >= after
  BY <1>1 DEF PagesInv
<1>6. CASE Stops(New(top)) = {} /\ ~LastPage(top)
  <2>1. Page(top) # {} /\ Page(top) \subseteq Nat
    BY <1>3, <1>6 DEF LastPage
  <2>2. Min(Page(top)) \in Page(top) /\ \A y \in Page(top) : Min(Page(top)) <= y
    BY <2>1, Smallest
  <2>3. /\ after' = Min(Page(top)) /\ stage' = "list" /\ ids' = ids \cup (Page(top) \ ids)
        /\ after' \in Nat /\ after' <= after
    BY <1>1, <1>2, <1>3, <1>6, <2>2 DEF Kept, New
  <2>4. ASSUME NEW p \in before \cap feed, p >= after' PROVE p \in ids'
    <3>1. CASE p >= top
      BY <1>4, <2>3, <3>1
    <3>2. CASE p < top
      <4>1. p \in Page(top)
        BY <1>1, <1>3, <2>2, <2>3, <2>4, <3>2, PageBelow
      <4> QED
        BY <2>3, <4>1
    <3> QED
      BY <1>0, <3>1, <3>2
  <2>5. ASSUME NEW q \in ids' PROVE q >= after'
    <3>1. CASE q \in ids
      <4>1. q >= after /\ q \in Nat
        BY <1>1, <1>5, <3>1
      <4> QED
        BY <1>1, <2>3, <4>1
    <3>2. CASE q \in Page(top)
      BY <2>2, <2>3, <3>2
    <3> QED
      BY <2>3, <2>5, <3>1, <3>2
  <2>6. PagesInv'
    BY <1>1, <2>4, <2>5 DEF PagesInv
  <2> QED
    BY <2>3, <2>6 DEF ListingWhole
<1>7. CASE Stops(New(top)) = {} /\ LastPage(top)
  <2>1. stage' = "details" /\ ids' = ids \cup (Page(top) \ ids)
    BY <1>2, <1>7 DEF Kept, New
  <2>2. ASSUME NEW p \in before \cap feed PROVE p \in ids'
    <3>1. CASE p >= top
      BY <1>4, <2>1, <3>1
    <3>2. CASE p < top
      <4>1. Page(top) # {} /\ Page(top) \subseteq Nat
        BY <1>1, <1>3, <3>2, PageNotEmpty
      <4>2. Min(Page(top)) \in Page(top) /\ Min(Page(top)) <= p
        BY <1>7, <4>1, Smallest DEF LastPage
      <4>3. p \in Page(top)
        BY <1>1, <1>3, <3>2, <4>2, PageBelow
      <4> QED
        BY <2>1, <4>3
    <3> QED
      BY <1>0, <3>1, <3>2
  <2> QED
    BY <1>1, <2>1, <2>2 DEF PagesInv, ListingWhole
<1>8. CASE Stops(New(top)) # {}
  <2> DEFINE Stopped(k) == {q \in New(top) : q >= k}
  <2>1. stage' = "details"
    BY <1>2, <1>8
  <2>2. Stops(New(top)) \subseteq 0..newest
    <3>1. 1..newest \subseteq 0..newest
      BY <1>1
    <3> QED
      BY <1>1, <1>3, <3>1 DEF Stops, New
  <2>3. Max(Stops(New(top))) \in Stops(New(top))
    BY <1>1, <1>8, <2>2, Largest
  <2>4. PICK k \in Stops(New(top)) : ids' = ids \cup Stopped(k)
    BY <1>2, <1>8, <2>3 DEF Kept
  <2>5. /\ k \in Page(top) /\ k \notin ids /\ k \in known /\ k \in Nat /\ k <= after
        /\ Lookback > 0 /\ Cardinality(ids) + Cardinality(Stopped(k)) >= Lookback
    BY <1>3, <2>4 DEF Stops, New
  <2>6. k \in ids'
    BY <2>4, <2>5 DEF New
  <2>7. {q \in ids' : q >= k} = ids \cup Stopped(k)
    <3>1. ASSUME NEW q \in ids PROVE q >= k
      <4>1. q >= after /\ q \in Nat
        BY <1>1, <1>5
      <4> QED
        BY <1>1, <2>5, <4>1
    <3> QED
      BY <2>4, <3>1
  <2>8. Cardinality({q \in ids' : q >= k}) >= Lookback
    <3>1. IsFiniteSet(1..newest)
      <4>1. newest \in Nat
        BY <1>1
      <4> QED
        BY <4>1, PostsFinite
    <3>2. ids \in SUBSET (1..newest) /\ Stopped(k) \in SUBSET (1..newest)
      BY <1>1, <1>3 DEF New
    <3>3. IsFiniteSet(ids) /\ IsFiniteSet(Stopped(k))
      BY <3>1, <3>2, FS_Subset
    <3>4. ids \cap Stopped(k) = {}
      BY DEF New
    <3>5. Cardinality(ids \cup Stopped(k))
            = Cardinality(ids) + Cardinality(Stopped(k)) - Cardinality(ids \cap Stopped(k))
      BY <3>3, FS_Union
    <3>6. Cardinality(ids) \in Nat /\ Cardinality(Stopped(k)) \in Nat /\ Cardinality(ids \cap Stopped(k)) = 0
      BY <3>3, <3>4, FS_CardinalityType, FS_EmptySet
    <3>7. Cardinality({q \in ids' : q >= k}) = Cardinality(ids \cup Stopped(k))
      BY <2>7
    <3>8. Cardinality(ids) + Cardinality(Stopped(k)) >= Lookback
      BY <2>5
    <3> HIDE DEF Stopped
    <3> QED
      BY <3>5, <3>6, <3>7, <3>8
  <2>9. k \in Boundary'
    BY <1>1, <2>5, <2>6, <2>8 DEF Boundary
  <2>10. ASSUME NEW p \in before \cap feed, p \notin ids' PROVE p < k
    <3>1. ~(p >= top)
      BY <1>4, <2>4, <2>10
    <3>2. p \in Nat /\ p < top
      BY <1>0, <3>1
    <3>3. ~(k <= p)
      <4>1. ASSUME k <= p PROVE p \in Page(top)
        BY <1>1, <1>3, <2>5, <3>2, <4>1, PageBelow
      <4> QED
        BY <2>4, <2>5, <2>10, <3>2, <4>1 DEF New
    <3> QED
      BY <2>5, <3>2, <3>3
  <2> QED
    BY <1>1, <2>1, <2>5, <2>9, <2>10 DEF PagesInv, ListingWhole
<1> QED
  BY <1>6, <1>7, <1>8

LEMMA ListingStays == ListInv /\ [Next]_vars => ListInv'
<1> SUFFICES ASSUME ListInv, [Next]_vars PROVE ListInv'
  OBVIOUS
<1>1. BudgetInv /\ BudgetInv' /\ TypeOK
  BY BudgetStays DEF ListInv, BudgetInv
<1>2. ASSUME UNCHANGED <<known, stage, before, ids, after>>, before \cap feed' \subseteq feed
      PROVE  (PagesInv /\ ListingWhole)'
  <2>1. Boundary' = Boundary
    BY <1>2 DEF Boundary
  <2> QED
    BY <1>2, <2>1 DEF ListInv, PagesInv, ListingWhole
<1>3. CASE Publish
  <2>1. newest + 1 \notin before
    BY <1>1 DEF TypeOK
  <2>2. UNCHANGED listVars /\ feed' = feed \cup {newest + 1}
    BY <1>3 DEF Publish
  <2> QED
    BY <1>1, <1>2, <2>1, <2>2 DEF ListInv, listVars
<1>4. CASE Delete
  BY <1>1, <1>2, <1>4 DEF Delete, ListInv, listVars
<1>5. CASE Begin
  <2>1. stage' = "list" /\ ids' = {} /\ after' = MaxPost + 1 /\ before' = feed /\ feed' = feed
    BY <1>5 DEF Begin, serverVars
  <2>2. ASSUME NEW p \in feed PROVE ~(p >= MaxPost + 1)
    BY <1>1 DEF TypeOK
  <2> QED
    BY <1>1, <2>1, <2>2 DEF ListInv, PagesInv, ListingWhole
<1>6. CASE ListPage
  BY <1>1, <1>6, PageWhole DEF ListInv
<1>7. CASE ListFails
  BY <1>1, <1>7 DEF ListFails, ListInv, PagesInv, ListingWhole
<1>8. CASE Collect
  <2>1. stage' # "list" /\ UNCHANGED <<feed, before, ids>> /\ stage = "details"
    BY <1>8 DEF Collect, serverVars
  <2>2. CASE failed
    BY <1>1, <1>8, <2>1, <2>2 DEF Collect, ListInv, PagesInv, ListingWhole
  <2>3. CASE ~failed
    <3>1. known' = Recent
      BY <1>8, <2>3 DEF Collect
    <3>2. ASSUME NEW p \in before \cap feed, p \notin ids
          PROVE  \E m \in Boundary' : Lookback > 0 /\ p < m
      <4>1. PICK k \in Boundary : Lookback > 0 /\ p < k
        BY <2>1, <3>2 DEF ListInv, ListingWhole
      <4>2. PICK m \in Recent : m >= k /\ Cardinality({q \in ids : q >= m}) >= Lookback
        BY <1>1, <4>1, BoundaryKept DEF Boundary
      <4>3. m \in ids /\ m \in Boundary'
        BY <2>1, <3>1, <4>2 DEF Recent, Boundary
      <4>4. p \in Nat /\ k \in Nat /\ m \in Nat
        <5>1. feed \subseteq Nat /\ ids \subseteq Nat
          BY <1>1 DEF TypeOK
        <5> QED
          BY <4>1, <4>3, <5>1 DEF Boundary
      <4> QED
        BY <4>1, <4>2, <4>3, <4>4
    <3> QED
      BY <1>1, <2>1, <3>2 DEF ListInv, PagesInv, ListingWhole
  <2> QED
    BY <2>2, <2>3
<1>9. CASE \/ Tick \/ Cancel \/ UNCHANGED vars
           \/ \E w \in Worker : TakeJob(w) \/ Detail(w) \/ DetailFails(w)
           \/ \E r \in Requester : Acquire(r) \/ Retry(r) \/ BackoffEnds(r)
  <2>1. UNCHANGED <<feed, known, stage, before, ids, after>>
    BY <1>9 DEF Tick, Cancel, vars, TakeJob, Detail, DetailFails, Acquire, Retry, BackoffEnds,
       serverVars, listVars
  <2> QED
    BY <1>1, <1>2, <2>1 DEF ListInv
<1> QED
  BY <1>3, <1>4, <1>5, <1>6, <1>7, <1>8, <1>9 DEF Next, Fetching

(* Whatever is published and deleted between its pages, a listing has      *)
(* every post that was there all along, down to a known post that at least *)
(* Lookback others precede.                                                *)
THEOREM ListingsAreWhole == Spec => []ListingWhole
<1>1. Init => ListInv
  BY InitBudget DEF Init, ListInv, PagesInv, ListingWhole
<1>2. ListInv => ListingWhole
  BY DEF ListInv
<1> QED
  BY <1>1, <1>2, ListingStays, PTL DEF Spec

-----------------------------------------------------------------------------
(*------------------------- who may ask for a login -----------------------*)
SessionPlaces == {"idle", "login", "remove", "fetched", "look", "read", "ask", "submitted",
                  "write", "lost"}

Handlers(last) ==
    [job : S!Jobs \cup {"none"}, at : SessionPlaces, seen : Nat, held : 0..last,
     again : BOOLEAN, broken : BOOLEAN]
Profiles(last) == [session : 0..last, rev : Nat \cup {-1}]

SessionTyped ==
    /\ issued \in Nat \ {0} /\ valid \subseteq 1..issued
    /\ file \in [session : -2..issued, rev : Nat]
    /\ cache \in [Process -> Profiles(issued)] /\ proc \in [Process -> Handlers(issued)]
    /\ \A p \in Process : shown[p] \subseteq -2..issued

(* Who has a session in hand that is to become the file's.                 *)
Brings(p) == proc[p].at \in {"fetched", "write", "lost"} /\ proc[p].held # S!Absent

(* The file has had the revision of a finished bundle, or has it: nobody   *)
(* will write that bundle.                                                 *)
Past(rev) == \A q \in Process : Brings(q) => rev # 2 * proc[q].held + 1

(* A bundle is written once, so a revision says what the file holds if the *)
(* file is a bundle at all.                                                *)
RevisionsTell ==
    /\ file.session > 0 => file.rev = 2 * file.session + 1
    /\ file.rev <= 2 * issued + 1 /\ Past(file.rev)
    /\ \A p \in Process :
          /\ proc[p].seen <= 2 * issued + 1 /\ Past(proc[p].seen)
          /\ cache[p].rev <= 2 * issued + 1 /\ Past(cache[p].rev)
          /\ cache[p].rev = file.rev /\ file.session > 0 => cache[p].session = file.session
          /\ proc[p].at \in {"write", "lost"} => Brings(p)
    /\ \A p, q \in Process :
          Brings(p) /\ Brings(q) /\ proc[p].held = proc[q].held => p = q

(* As long as the file has only held sessions the site accepts, a handler  *)
(* that looks for one tries one of those.                                  *)
TriesWhatIsThere ==
    \A p \in Process :
        proc[p].at \in {"look", "read", "ask"} /\ ~proc[p].again /\ shown[p] \subseteq valid =>
            /\ file.session \in shown[p]
            /\ proc[p].at = "ask" => proc[p].held \in shown[p]

SessionInv == SessionTyped /\ RevisionsTell /\ TriesWhatIsThere

LEMMA HandlerUpdates ==
  ASSUME NEW n \in Nat, NEW w \in Handlers(n)
  PROVE  /\ \A l \in SessionPlaces : [w EXCEPT !.at = l] \in Handlers(n)
         /\ \A l \in SessionPlaces : [w EXCEPT !.at = l, !.broken = TRUE] \in Handlers(n)
         /\ \A l \in SessionPlaces : [w EXCEPT !.at = l, !.broken = FALSE] \in Handlers(n)
         /\ \A l \in SessionPlaces, k \in 0..n : [w EXCEPT !.at = l, !.held = k] \in Handlers(n)
         /\ \A l \in SessionPlaces, k \in 0..n :
               [w EXCEPT !.at = l, !.held = k, !.again = TRUE] \in Handlers(n)
         /\ \A l \in SessionPlaces, k \in 0..n, v \in Nat :
               [w EXCEPT !.seen = v, !.at = l, !.held = k] \in Handlers(n)
         /\ \A l \in SessionPlaces, k \in 0..(n + 1) :
               [w EXCEPT !.at = l, !.held = k, !.broken = FALSE] \in Handlers(n + 1)
         /\ w \in Handlers(n + 1)
<1>1. /\ \A l \in SessionPlaces : [w EXCEPT !.at = l] \in Handlers(n)
      /\ \A l \in SessionPlaces : [w EXCEPT !.at = l, !.broken = TRUE] \in Handlers(n)
      /\ \A l \in SessionPlaces : [w EXCEPT !.at = l, !.broken = FALSE] \in Handlers(n)
  BY DEF Handlers
<1>2. \A l \in SessionPlaces, k \in 0..n : [w EXCEPT !.at = l, !.held = k] \in Handlers(n)
  BY DEF Handlers
<1>3. \A l \in SessionPlaces, k \in 0..n :
         [w EXCEPT !.at = l, !.held = k, !.again = TRUE] \in Handlers(n)
  BY DEF Handlers
<1>4. \A l \in SessionPlaces, k \in 0..n, v \in Nat :
         [w EXCEPT !.seen = v, !.at = l, !.held = k] \in Handlers(n)
  BY DEF Handlers
<1>5. \A l \in SessionPlaces, k \in 0..(n + 1) :
         [w EXCEPT !.at = l, !.held = k, !.broken = FALSE] \in Handlers(n + 1)
  BY DEF Handlers
<1>6. w \in Handlers(n + 1)
  BY DEF Handlers
<1> QED
  BY <1>1, <1>2, <1>3, <1>4, <1>5, <1>6

LEMMA IdleHandler ==
  ASSUME NEW n \in Nat
  PROVE  /\ S!Idle \in Handlers(n) /\ S!NoCache \in Profiles(n)
         /\ S!Idle.at = "idle" /\ S!Idle.seen = 0 /\ S!Idle.held = 0 /\ S!NoCache.rev = -1
         /\ \A j \in S!Jobs, l \in SessionPlaces :
               [S!Idle EXCEPT !.job = j, !.at = l] \in Handlers(n)
<1>1. S!Idle \in Handlers(n) /\ S!Idle.at = "idle" /\ S!Idle.seen = 0 /\ S!Idle.held = 0
  BY DEF S!Idle, S!Absent, Handlers, SessionPlaces
<1>2. S!NoCache \in Profiles(n) /\ S!NoCache.rev = -1
  BY DEF S!NoCache, S!Absent, Profiles
<1>3. \A j \in S!Jobs, l \in SessionPlaces : [S!Idle EXCEPT !.job = j, !.at = l] \in Handlers(n)
  BY <1>1 DEF Handlers
<1> QED
  BY <1>1, <1>2, <1>3

(* What the history of the file says after a step.                         *)
LEMMA Shows ==
  ASSUME S!Shown, NEW q \in Process, 0 \notin valid'
  PROVE  /\ shown'[q] \subseteq shown[q] \cup {file'.session, 0}
         /\ /\ proc'[q].at \in {"look", "read", "ask"} /\ ~proc'[q].again
            /\ shown'[q] \subseteq valid'
            => /\ file'.session \in shown'[q]
               /\ proc'[q].at # "look" => shown[q] \subseteq shown'[q]
<1> DEFINE sessions == IF proc'[q].at = "look" THEN {file'.session}
                       ELSE shown[q] \cup {file'.session}
<1>1. shown'[q] = CASE proc'[q].at \notin {"look", "read", "ask"} \/ proc'[q].again -> {}
                    [] sessions \subseteq valid' -> sessions
                    [] OTHER -> {0}
  BY DEF S!Shown, S!Absent
<1>2. CASE proc'[q].at \notin {"look", "read", "ask"} \/ proc'[q].again
  BY <1>1, <1>2
<1>3. CASE ~(proc'[q].at \notin {"look", "read", "ask"} \/ proc'[q].again)
  <2>1. CASE sessions \subseteq valid'
    <3>1. shown'[q] = sessions
      BY <1>1, <1>3, <2>1
    <3> QED
      BY <3>1
  <2>2. CASE ~(sessions \subseteq valid')
    <3>1. shown'[q] = {0}
      BY <1>1, <1>3, <2>2
    <3> QED
      BY <3>1
  <2> QED
    BY <2>1, <2>2
<1> QED
  BY <1>2, <1>3

(* A handler that stays where it is goes on trying what was there.         *)
LEMMA KeepsTrying ==
  ASSUME SessionInv, S!Shown, NEW q \in Process,
         issued' \in {issued, issued + 1}, valid' \subseteq valid \cup {issued + 1},
         valid' \subseteq 1..issued', file'.session \in -2..issued,
         proc'[q].at = proc[q].at \/ proc'[q].at \notin {"look", "read", "ask"},
         proc'[q].held = proc[q].held, proc'[q].again = proc[q].again
  PROVE  /\ shown'[q] \subseteq -2..issued'
         /\ /\ proc'[q].at \in {"look", "read", "ask"} /\ ~proc'[q].again
            /\ shown'[q] \subseteq valid'
            => /\ file'.session \in shown'[q]
               /\ proc'[q].at = "ask" => proc'[q].held \in shown'[q]
<1>1. issued \in Nat \ {0} /\ shown[q] \subseteq -2..issued /\ valid \subseteq 1..issued
  BY DEF SessionInv, SessionTyped
<1>2. 0 \notin valid'
  BY <1>1
<1>3. shown'[q] \subseteq shown[q] \cup {file'.session, 0}
  BY <1>2, Shows
<1>4. shown'[q] \subseteq -2..issued'
  BY <1>1, <1>3
<1>5. ASSUME proc'[q].at \in {"look", "read", "ask"}, ~proc'[q].again, shown'[q] \subseteq valid'
      PROVE  /\ file'.session \in shown'[q]
             /\ proc'[q].at = "ask" => proc'[q].held \in shown'[q]
  <2>1. file'.session \in shown'[q] /\ (proc'[q].at = "ask" => shown[q] \subseteq shown'[q])
    BY <1>2, <1>5, Shows
  <2>2. ASSUME proc'[q].at = "ask" PROVE proc'[q].held \in shown'[q]
    <3>1. shown[q] \subseteq valid
      <4> SUFFICES ASSUME NEW s \in shown[q] PROVE s \in valid
        OBVIOUS
      <4>1. s \in valid' /\ s \in -2..issued
        BY <1>1, <1>5, <2>1, <2>2
      <4> QED
        BY <1>1, <4>1
    <3>2. proc[q].held \in shown[q]
      BY <1>5, <2>2, <3>1 DEF SessionInv, TriesWhatIsThere
    <3> QED
      BY <2>1, <2>2, <3>2
  <2> QED
    BY <2>1, <2>2
<1> QED
  BY <1>4, <1>5

(* A step of one handler that leaves the file alone and brings nothing new. *)
LEMMA HandlerStep ==
  ASSUME SessionInv, S!Shown, NEW p \in Process,
         NEW r \in Handlers(issued), NEW c \in Profiles(issued),
         proc' = [proc EXCEPT ![p] = r], cache' = [cache EXCEPT ![p] = c],
         UNCHANGED <<file, issued, valid>>,
         r.at \in {"fetched", "write", "lost"} /\ r.held # 0 =>
             Brings(p) /\ r.held = proc[p].held,
         r.at \in {"write", "lost"} => r.held # 0,
         r.seen \in {0, proc[p].seen, file.rev},
         c.rev \in {-1, cache[p].rev, proc[p].seen},
         c.rev = file.rev /\ file.session > 0 => c.session = file.session,
         r.at = "ask" /\ file.session > 0 => r.held = file.session
  PROVE  SessionInv'
<1>1. /\ issued \in Nat \ {0} /\ valid \subseteq 1..issued
      /\ file \in [session : -2..issued, rev : Nat]
      /\ cache \in [Process -> Profiles(issued)] /\ proc \in [Process -> Handlers(issued)]
      /\ \A q \in Process : shown[q] \subseteq -2..issued
  BY DEF SessionInv, SessionTyped
<1>2. /\ proc'[p] = r /\ cache'[p] = c
      /\ \A q \in Process : q # p => proc'[q] = proc[q] /\ cache'[q] = cache[q]
  BY <1>1
<1>3. 0 \notin valid'
  BY <1>1
<1>4. /\ shown'[p] \subseteq -2..issued'
      /\ /\ proc'[p].at \in {"look", "read", "ask"} /\ ~proc'[p].again
         /\ shown'[p] \subseteq valid'
         => /\ file'.session \in shown'[p]
            /\ proc'[p].at = "ask" => proc'[p].held \in shown'[p]
  <2>1. shown'[p] \subseteq shown[p] \cup {file'.session, 0}
    BY <1>3, Shows
  <2>2. shown'[p] \subseteq -2..issued'
    BY <1>1, <2>1
  <2>3. ASSUME proc'[p].at \in {"look", "read", "ask"}, ~proc'[p].again, shown'[p] \subseteq valid'
        PROVE  file'.session \in shown'[p] /\ file'.session > 0
    <3>1. file'.session \in shown'[p]
      BY <1>3, <2>3, Shows
    <3> QED
      BY <1>1, <2>3, <3>1
  <2> QED
    BY <1>2, <2>2, <2>3
<1>5. ASSUME NEW q \in Process, q # p
      PROVE  /\ shown'[q] \subseteq -2..issued'
             /\ /\ proc'[q].at \in {"look", "read", "ask"} /\ ~proc'[q].again
                /\ shown'[q] \subseteq valid'
                => /\ file'.session \in shown'[q]
                   /\ proc'[q].at = "ask" => proc'[q].held \in shown'[q]
  BY <1>1, <1>2, <1>5, KeepsTrying
<1>6. SessionTyped'
  BY <1>1, <1>4, <1>5 DEF SessionTyped
<1>7. TriesWhatIsThere'
  BY <1>4, <1>5 DEF TriesWhatIsThere
<1>8. \A q \in Process : Brings(q)' => Brings(q) /\ proc'[q].held = proc[q].held
  BY <1>2 DEF Brings, S!Absent
<1>9. \A v : Past(v) => Past(v)'
  BY <1>8 DEF Past
<1>10. Past(0) /\ Past(-1)
  <2>1. \A q \in Process : proc[q].held \in Nat
    BY <1>1 DEF Handlers
  <2> QED
    BY <2>1 DEF Past
<1>11. /\ Past(file.rev) /\ Past(proc[p].seen) /\ Past(cache[p].rev)
       /\ file.rev <= 2 * issued + 1 /\ proc[p].seen <= 2 * issued + 1
       /\ cache[p].rev <= 2 * issued + 1 /\ 0 <= 2 * issued + 1 /\ -1 <= 2 * issued + 1
  BY <1>1 DEF SessionInv, RevisionsTell
<1>12. /\ Past(r.seen) /\ r.seen <= 2 * issued + 1
       /\ Past(c.rev) /\ c.rev <= 2 * issued + 1
       /\ r.at \in {"write", "lost"} => Brings(p)'
  BY <1>2, <1>10, <1>11 DEF Brings, S!Absent
<1>13. RevisionsTell'
  <2>1. file'.session > 0 => file'.rev = 2 * file'.session + 1
    BY DEF SessionInv, RevisionsTell
  <2>2. file'.rev <= 2 * issued' + 1 /\ Past(file.rev)'
    BY <1>9, <1>11
  <2>3. ASSUME NEW q \in Process
        PROVE  /\ proc'[q].seen <= 2 * issued' + 1 /\ Past(proc[q].seen)'
               /\ cache'[q].rev <= 2 * issued' + 1 /\ Past(cache[q].rev)'
               /\ cache'[q].rev = file'.rev /\ file'.session > 0 =>
                     cache'[q].session = file'.session
               /\ proc'[q].at \in {"write", "lost"} => Brings(q)'
    <3>1. CASE q = p
      <4>1. Past(r.seen)' /\ Past(c.rev)'
        BY <1>9, <1>12
      <4> QED
        BY <1>2, <1>12, <3>1, <4>1
    <3>2. CASE q # p
      <4>1. Past(proc[q].seen) /\ Past(cache[q].rev)
        BY DEF SessionInv, RevisionsTell
      <4>2. PICK v, u : v = proc[q].seen /\ u = cache[q].rev
        OBVIOUS
      <4>3. Past(v)' /\ Past(u)'
        BY <1>9, <4>1, <4>2
      <4> QED
        BY <1>2, <3>2, <4>2, <4>3 DEF SessionInv, RevisionsTell, Brings, Past
    <3> QED
      BY <3>1, <3>2
  <2>4. \A q, o \in Process :
            Brings(q)' /\ Brings(o)' /\ proc'[q].held = proc'[o].held => q = o
    BY <1>8 DEF SessionInv, RevisionsTell
  <2> QED
    BY <2>1, <2>2, <2>3, <2>4 DEF RevisionsTell
<1> QED
  BY <1>6, <1>7, <1>13 DEF SessionInv

(* A handler that is not looking for a session writes to the file.         *)
LEMMA WriterStep ==
  ASSUME SessionInv, S!Shown, NEW p \in Process,
         NEW r \in Handlers(issued), NEW c \in Profiles(issued),
         proc' = [proc EXCEPT ![p] = r], cache' = [cache EXCEPT ![p] = c],
         UNCHANGED <<issued, valid>>,
         file' \in [session : -2..issued, rev : Nat], file'.rev <= 2 * issued + 1,
         \A q \in Process \ {p} : Brings(q) => file'.rev # 2 * proc[q].held + 1,
         Brings(p)' => Brings(p) /\ r.held = proc[p].held /\ file'.rev # 2 * r.held + 1,
         r.at \in {"write", "lost"} => r.held # 0,
         r.at \in {"look", "read", "ask"} => r.again,
         r.seen = proc[p].seen \/ r.seen = 0, c = cache[p] \/ c.rev = -1,
         file'.session > 0 => /\ file'.rev = 2 * file'.session + 1
                              /\ \A q \in Process : cache[q].rev # file'.rev
  PROVE  SessionInv'
<1>1. /\ issued \in Nat \ {0} /\ valid \subseteq 1..issued
      /\ cache \in [Process -> Profiles(issued)] /\ proc \in [Process -> Handlers(issued)]
      /\ \A q \in Process : shown[q] \subseteq -2..issued
  BY DEF SessionInv, SessionTyped
<1>2. /\ proc'[p] = r /\ cache'[p] = c
      /\ \A q \in Process : q # p => proc'[q] = proc[q] /\ cache'[q] = cache[q]
  BY <1>1
<1>3. ASSUME NEW q \in Process, q # p
      PROVE  /\ shown'[q] \subseteq -2..issued'
             /\ /\ proc'[q].at \in {"look", "read", "ask"} /\ ~proc'[q].again
                /\ shown'[q] \subseteq valid'
                => /\ file'.session \in shown'[q]
                   /\ proc'[q].at = "ask" => proc'[q].held \in shown'[q]
  BY <1>1, <1>2, <1>3, KeepsTrying
<1>4. shown'[p] \subseteq -2..issued'
  <2>1. 0 \notin valid'
    BY <1>1
  <2>2. shown'[p] \subseteq shown[p] \cup {file'.session, 0}
    BY <2>1, Shows
  <2> QED
    BY <1>1, <2>2
<1>5. SessionTyped'
  BY <1>1, <1>3, <1>4 DEF SessionTyped
<1>6. TriesWhatIsThere'
  BY <1>2, <1>3 DEF TriesWhatIsThere
<1>7. \A q \in Process : Brings(q)' => Brings(q) /\ proc'[q].held = proc[q].held
  BY <1>2 DEF Brings
<1>8. \A v : Past(v) => Past(v)'
  BY <1>7 DEF Past
<1>9. Past(0) /\ Past(-1)
  <2>1. \A q \in Process : proc[q].held \in Nat
    BY <1>1 DEF Handlers
  <2> QED
    BY <2>1 DEF Past
<1>10. Past(file.rev)'
  BY <1>2, <1>7 DEF Past
<1>11. ASSUME NEW q \in Process
       PROVE  /\ proc'[q].seen <= 2 * issued' + 1 /\ Past(proc[q].seen)'
              /\ cache'[q].rev <= 2 * issued' + 1 /\ Past(cache[q].rev)'
              /\ cache'[q].rev = file'.rev /\ file'.session > 0 =>
                    cache'[q].session = file'.session
              /\ proc'[q].at \in {"write", "lost"} => Brings(q)'
  <2>1. /\ Past(proc[q].seen) /\ Past(cache[q].rev)
        /\ proc[q].seen <= 2 * issued + 1 /\ cache[q].rev <= 2 * issued + 1
        /\ proc[q].at \in {"write", "lost"} => Brings(q)
    BY DEF SessionInv, RevisionsTell
  <2>2. PICK v, u : v = proc'[q].seen /\ u = cache'[q].rev
    OBVIOUS
  <2>3. v \in {proc[q].seen, 0} /\ u \in {cache[q].rev, -1}
    BY <1>2, <2>2
  <2>4. Past(v)' /\ Past(u)'
    BY <1>8, <1>9, <2>1, <2>3
  <2>5. v <= 2 * issued + 1 /\ u <= 2 * issued + 1
    BY <1>1, <2>1, <2>3
  <2>6. file'.session > 0 => u # file'.rev
    BY <1>1, <2>3
  <2>7. proc'[q].at \in {"write", "lost"} => Brings(q)'
    BY <1>2, <2>1 DEF Brings, S!Absent
  <2>8. Past(proc[q].seen)' /\ Past(cache[q].rev)'
    BY <2>2, <2>4
  <2> QED
    BY <2>2, <2>5, <2>6, <2>7, <2>8
<1>12. \A q, o \in Process :
           Brings(q)' /\ Brings(o)' /\ proc'[q].held = proc'[o].held => q = o
  BY <1>7 DEF SessionInv, RevisionsTell
<1>13. RevisionsTell'
  BY <1>10, <1>11, <1>12 DEF RevisionsTell
<1> QED
  BY <1>5, <1>6, <1>13 DEF SessionInv

(* A new session comes into the hands of a handler.                        *)
LEMMA IssueStep ==
  ASSUME SessionInv, S!Shown, NEW p \in Process, NEW accepted \in BOOLEAN,
         S!Issue(p, accepted), UNCHANGED <<file, cache>>
  PROVE  SessionInv'
<1>1. /\ issued \in Nat \ {0} /\ valid \subseteq 1..issued
      /\ file \in [session : -2..issued, rev : Nat]
      /\ cache \in [Process -> Profiles(issued)] /\ proc \in [Process -> Handlers(issued)]
      /\ \A q \in Process : shown[q] \subseteq -2..issued
  BY DEF SessionInv, SessionTyped
<1>2. /\ issued' = issued + 1 /\ valid' \subseteq valid \cup {issued + 1}
      /\ valid' \subseteq 1..issued'
      /\ proc' = [proc EXCEPT ![p] =
              [proc[p] EXCEPT !.at = "fetched", !.held = issued + 1, !.broken = FALSE]]
  BY <1>1 DEF S!Issue
<1>3. PICK r : r = [proc[p] EXCEPT !.at = "fetched", !.held = issued + 1, !.broken = FALSE]
  OBVIOUS
<1>4. r \in Handlers(issued + 1) /\ r.at = "fetched" /\ r.held = issued + 1 /\ r.seen = proc[p].seen
  <2>1. r \in Handlers(issued + 1)
    <3>1. proc[p] \in Handlers(issued) /\ issued \in Nat /\ issued + 1 \in 0..(issued + 1)
          /\ "fetched" \in SessionPlaces
      BY <1>1 DEF SessionPlaces
    <3> QED
      BY <1>3, <3>1, HandlerUpdates
  <2>2. proc[p] \in Handlers(issued)
    BY <1>1
  <2> QED
    BY <1>3, <2>1, <2>2 DEF Handlers
<1>5. /\ proc'[p] = r
      /\ \A q \in Process : q # p => proc'[q] = proc[q]
  BY <1>1, <1>2, <1>3
<1>6. ASSUME NEW q \in Process
      PROVE  /\ shown'[q] \subseteq -2..issued'
             /\ /\ proc'[q].at \in {"look", "read", "ask"} /\ ~proc'[q].again
                /\ shown'[q] \subseteq valid'
                => /\ file'.session \in shown'[q]
                   /\ proc'[q].at = "ask" => proc'[q].held \in shown'[q]
  <2>1. CASE q = p
    <3>1. 0 \notin valid'
      BY <1>1, <1>2
    <3>2. shown'[q] \subseteq shown[q] \cup {file'.session, 0}
      BY <3>1, Shows
    <3> QED
      BY <1>1, <1>2, <1>4, <1>5, <2>1, <3>2
  <2>2. CASE q # p
    BY <1>1, <1>2, <1>5, <2>2, KeepsTrying
  <2> QED
    BY <2>1, <2>2
<1>7. SessionTyped'
  <2>1. proc' \in [Process -> Handlers(issued')]
    BY <1>1, <1>2, <1>3, <1>4, HandlerUpdates
  <2>2. cache' \in [Process -> Profiles(issued')]
    BY <1>1, <1>2 DEF Profiles
  <2>3. file' \in [session : -2..issued', rev : Nat]
    BY <1>1, <1>2
  <2> QED
    BY <1>1, <1>2, <1>6, <2>1, <2>2, <2>3 DEF SessionTyped
<1>8. TriesWhatIsThere'
  BY <1>6 DEF TriesWhatIsThere
<1>9. \A q \in Process : q # p => (Brings(q)' <=> Brings(q)) /\ proc'[q].held = proc[q].held
  BY <1>5 DEF Brings
<1>10. \A v \in Int : Past(v) /\ v <= 2 * issued + 1 => Past(v)'
  BY <1>1, <1>4, <1>5, <1>9 DEF Past
<1>11. ASSUME NEW q \in Process
       PROVE  /\ proc'[q].seen <= 2 * issued' + 1 /\ Past(proc[q].seen)'
              /\ cache'[q].rev <= 2 * issued' + 1 /\ Past(cache[q].rev)'
              /\ proc'[q].at \in {"write", "lost"} => Brings(q)'
  <2>1. /\ Past(proc[q].seen) /\ Past(cache[q].rev)
        /\ proc[q].seen <= 2 * issued + 1 /\ cache[q].rev <= 2 * issued + 1
        /\ proc[q].at \in {"write", "lost"} => Brings(q)
    BY DEF SessionInv, RevisionsTell
  <2>2. proc[q].seen \in Nat /\ cache[q].rev \in Nat \cup {-1}
    BY <1>1 DEF Handlers, Profiles
  <2>3. PICK v, u : v = proc[q].seen /\ u = cache[q].rev
    OBVIOUS
  <2>4. Past(v)' /\ Past(u)'
    BY <1>10, <2>1, <2>2, <2>3
  <2>5. proc'[q].seen = v /\ cache'[q].rev = u
    BY <1>4, <1>5, <2>3
  <2>6. Past(proc[q].seen)' /\ Past(cache[q].rev)'
    BY <2>4, <2>5
  <2>7. proc'[q].at \in {"write", "lost"} => Brings(q)'
    BY <1>4, <1>5, <1>9, <2>1
  <2> QED
    BY <1>1, <1>2, <2>1, <2>2, <2>3, <2>5, <2>6, <2>7
<1>12. ASSUME NEW q \in Process, NEW o \in Process, Brings(q)', Brings(o)',
              proc'[q].held = proc'[o].held
       PROVE  q = o
  <2>1. \A x \in Process : proc[x].held \in 0..issued
    BY <1>1 DEF Handlers
  <2> QED
    BY <1>1, <1>4, <1>5, <1>9, <1>12, <2>1 DEF SessionInv, RevisionsTell
<1>13. Past(file.rev)' /\ file'.rev <= 2 * issued' + 1
  <2>1. Past(file.rev) /\ file.rev <= 2 * issued + 1
    BY DEF SessionInv, RevisionsTell
  <2>2. PICK v : v = file.rev
    OBVIOUS
  <2>3. Past(v)'
    BY <1>1, <1>10, <2>1, <2>2
  <2> QED
    BY <1>1, <1>2, <2>1, <2>2, <2>3
<1>14. RevisionsTell'
  BY <1>11, <1>12, <1>13 DEF SessionInv, RevisionsTell
<1> QED
  BY <1>7, <1>8, <1>14 DEF SessionInv

(* Dropping the profile takes the file away, also from who is writing it.  *)
LEMMA RemoveStep ==
  ASSUME SessionInv, S!Shown, NEW p \in Process, S!Remove(p) PROVE SessionInv'
<1>1. /\ issued \in Nat \ {0} /\ valid \subseteq 1..issued
      /\ cache \in [Process -> Profiles(issued)] /\ proc \in [Process -> Handlers(issued)]
      /\ \A q \in Process : shown[q] \subseteq -2..issued
  BY DEF SessionInv, SessionTyped
<1>2. /\ proc[p].at = "remove" /\ file'.session = 0 /\ file'.rev = 0
      /\ file' \in [session : -2..issued, rev : Nat]
      /\ UNCHANGED <<issued, valid, cache>>
  BY <1>1 DEF S!Remove, S!NoFile, S!Absent, S!At
<1>3. proc' = [q \in Process |->
                 IF q = p THEN [proc[p] EXCEPT !.at = "look"]
                 ELSE IF proc[q].at = "write" THEN [proc[q] EXCEPT !.at = "lost"] ELSE proc[q]]
  BY DEF S!Remove, S!At
<1>4. ASSUME NEW q \in Process
      PROVE  /\ proc'[q] \in Handlers(issued)
             /\ proc'[q].seen = proc[q].seen /\ proc'[q].held = proc[q].held
             /\ proc'[q].again = proc[q].again
             /\ proc'[q].at = IF q = p THEN "look"
                              ELSE IF proc[q].at = "write" THEN "lost" ELSE proc[q].at
  <2>1. proc[q] \in Handlers(issued) /\ "look" \in SessionPlaces /\ "lost" \in SessionPlaces
    BY <1>1 DEF SessionPlaces
  <2>2. proc'[q] \in Handlers(issued)
    BY <1>1, <1>3, <2>1, HandlerUpdates
  <2> QED
    BY <1>3, <2>1, <2>2 DEF Handlers
<1>5. ASSUME NEW q \in Process
      PROVE  /\ shown'[q] \subseteq -2..issued'
             /\ /\ proc'[q].at \in {"look", "read", "ask"} /\ ~proc'[q].again
                /\ shown'[q] \subseteq valid'
                => /\ file'.session \in shown'[q]
                   /\ proc'[q].at = "ask" => proc'[q].held \in shown'[q]
  <2>1. CASE q = p
    <3>1. 0 \notin valid'
      BY <1>1, <1>2
    <3>2. shown'[q] \subseteq shown[q] \cup {file'.session, 0}
      BY <3>1, Shows
    <3>3. proc'[q].at # "ask"
      BY <1>4, <2>1
    <3>4. proc'[q].at \in {"look", "read", "ask"} /\ ~proc'[q].again /\ shown'[q] \subseteq valid'
              => file'.session \in shown'[q]
      BY <3>1, Shows
    <3> QED
      BY <1>1, <1>2, <3>2, <3>3, <3>4
  <2>2. CASE q # p
    BY <1>1, <1>2, <1>4, <2>2, KeepsTrying
  <2> QED
    BY <2>1, <2>2
<1>6. SessionTyped'
  <2>1. proc' \in [Process -> Handlers(issued')]
    BY <1>2, <1>3, <1>4
  <2> QED
    BY <1>1, <1>2, <1>5, <2>1 DEF SessionTyped
<1>7. TriesWhatIsThere'
  BY <1>5 DEF TriesWhatIsThere
<1>8. \A q \in Process : /\ Brings(q)' => Brings(q) /\ proc'[q].held = proc[q].held
                         /\ proc'[q].at \in {"write", "lost"} => Brings(q)'
  BY <1>2, <1>4 DEF Brings, SessionInv, RevisionsTell
<1>9. \A v : Past(v) => Past(v)'
  BY <1>8 DEF Past
<1>10. Past(0)
  <2>1. \A q \in Process : proc[q].held \in Nat
    BY <1>1 DEF Handlers
  <2> QED
    BY <2>1 DEF Past
<1>11. ASSUME NEW q \in Process
       PROVE  /\ proc'[q].seen <= 2 * issued' + 1 /\ Past(proc[q].seen)'
              /\ cache'[q].rev <= 2 * issued' + 1 /\ Past(cache[q].rev)'
  <2>1. /\ Past(proc[q].seen) /\ Past(cache[q].rev)
        /\ proc[q].seen <= 2 * issued + 1 /\ cache[q].rev <= 2 * issued + 1
    BY DEF SessionInv, RevisionsTell
  <2>2. PICK v, u : v = proc[q].seen /\ u = cache[q].rev
    OBVIOUS
  <2>3. Past(v)' /\ Past(u)'
    BY <1>9, <2>1, <2>2
  <2>4. proc'[q].seen = v /\ cache'[q].rev = u
    BY <1>2, <1>4, <2>2
  <2>5. Past(proc[q].seen)' /\ Past(cache[q].rev)'
    BY <2>3, <2>4
  <2> QED
    BY <1>2, <2>1, <2>2, <2>4, <2>5
<1>12. Past(file.rev)' /\ file'.rev <= 2 * issued' + 1 /\ ~(file'.session > 0)
  <2>1. Past(0)'
    BY <1>9, <1>10
  <2> QED
    BY <1>1, <1>2, <2>1
<1>13. \A q, o \in Process :
           Brings(q)' /\ Brings(o)' /\ proc'[q].held = proc'[o].held => q = o
  BY <1>8 DEF SessionInv, RevisionsTell
<1>14. RevisionsTell'
  BY <1>8, <1>11, <1>12, <1>13 DEF RevisionsTell
<1> QED
  BY <1>6, <1>7, <1>14 DEF SessionInv

LEMMA SessionKnown ==
  ASSUME SessionInv, NEW p \in Process
  PROVE  /\ issued \in Nat \ {0} /\ issued \in Nat /\ valid \subseteq 1..issued
         /\ file.session \in -2..issued /\ file.rev \in Nat
         /\ file.rev <= 2 * issued + 1
         /\ cache \in [Process -> Profiles(issued)] /\ proc \in [Process -> Handlers(issued)]
         /\ cache[p] \in Profiles(issued) /\ proc[p] \in Handlers(issued)
         /\ proc[p].held \in 0..issued /\ proc[p].seen \in Nat
         /\ cache[p].session \in 0..issued /\ cache[p].rev \in Nat \cup {-1}
         /\ cache = [cache EXCEPT ![p] = cache[p]]
         /\ cache[p].rev = file.rev /\ file.session > 0 => cache[p].session = file.session
<1>1. /\ issued \in Nat \ {0} /\ valid \subseteq 1..issued
      /\ file \in [session : -2..issued, rev : Nat]
      /\ cache \in [Process -> Profiles(issued)] /\ proc \in [Process -> Handlers(issued)]
  BY DEF SessionInv, SessionTyped
<1>2. cache[p] \in Profiles(issued) /\ proc[p] \in Handlers(issued)
  BY <1>1
<1>3. file.rev <= 2 * issued + 1
      /\ (cache[p].rev = file.rev /\ file.session > 0 => cache[p].session = file.session)
  BY DEF SessionInv, RevisionsTell
<1> QED
  BY <1>1, <1>2, <1>3 DEF Handlers, Profiles

LEMMA EndStep ==
  ASSUME SessionInv, S!Shown, NEW p \in Process, S!End(p), UNCHANGED <<file, issued, valid>>,
         cache' = cache \/ cache' = [cache EXCEPT ![p] = S!NoCache]
  PROVE  SessionInv'
<1>1. proc' = [proc EXCEPT ![p] = S!Idle]
  BY DEF S!End
<1>2. issued \in Nat /\ file.rev \in Nat
  BY SessionKnown
<1>3. PICK r : r = S!Idle
  OBVIOUS
<1>4. r \in Handlers(issued) /\ r.at = "idle" /\ r.seen = 0 /\ r.held = 0
  BY <1>2, <1>3, IdleHandler
<1>5. PICK c : c = IF cache' = cache THEN cache[p] ELSE S!NoCache
  OBVIOUS
<1>6. /\ c \in Profiles(issued) /\ cache' = [cache EXCEPT ![p] = c]
      /\ c.rev \in {-1, cache[p].rev, proc[p].seen}
      /\ c.rev = file.rev /\ file.session > 0 => c.session = file.session
  <2>1. S!NoCache \in Profiles(issued) /\ S!NoCache.rev = -1
    BY <1>2, IdleHandler
  <2>2. CASE cache' = cache
    BY <1>5, <2>2, SessionKnown
  <2>3. CASE cache' # cache
    <3>1. c = S!NoCache /\ c.rev # file.rev
      BY <1>2, <1>5, <2>1, <2>3
    <3> QED
      BY <2>1, <2>3, <3>1
  <2> QED
    BY <2>2, <2>3
<1> QED
  BY <1>1, <1>3, <1>4, <1>6, HandlerStep

(* A handler moves on and leaves all else as it is.                        *)
LEMMA GoesOn ==
  ASSUME SessionInv, S!Shown, NEW p \in Process, NEW r \in Handlers(issued),
         proc' = [proc EXCEPT ![p] = r], UNCHANGED <<file, issued, valid, cache>>,
         r.at \notin {"fetched", "write", "lost"} \/ r.held = 0,
         r.at \notin {"write", "lost"}, r.seen \in {0, proc[p].seen, file.rev},
         r.at = "ask" /\ file.session > 0 => r.held = file.session
  PROVE  SessionInv'
<1>1. /\ cache[p] \in Profiles(issued) /\ cache' = [cache EXCEPT ![p] = cache[p]]
      /\ cache[p].rev = file.rev /\ file.session > 0 => cache[p].session = file.session
  BY SessionKnown
<1>2. PICK c : c = cache[p]
  OBVIOUS
<1> QED
  BY <1>1, <1>2, HandlerStep

LEMMA RejectedStep ==
  ASSUME SessionInv, S!Shown, NEW p \in Process, S!Rejected(p),
         UNCHANGED <<file, issued, valid, cache>>
  PROVE  SessionInv'
<1>1. CASE S!End(p)
  BY <1>1, EndStep
<1>2. CASE S!Goto(p, "login")
  <2>1. PICK r : r = [proc[p] EXCEPT !.at = "login"]
    OBVIOUS
  <2>2. proc[p] \in Handlers(issued) /\ issued \in Nat /\ "login" \in SessionPlaces
    BY SessionKnown DEF SessionPlaces
  <2>3. r \in Handlers(issued) /\ r.at = "login" /\ r.seen = proc[p].seen
    <3>1. r \in Handlers(issued)
      BY <2>1, <2>2, HandlerUpdates
    <3> QED
      BY <2>1, <2>2, <3>1 DEF Handlers
  <2>4. proc' = [proc EXCEPT ![p] = r]
    BY <1>2, <2>1 DEF S!Goto
  <2> QED
    BY <2>3, <2>4, GoesOn
<1> QED
  BY <1>1, <1>2 DEF S!Rejected

LEMMA UsingStays ==
  ASSUME SessionInv, S!Shown, NEW p \in Process, S!Using(p) PROVE SessionInv'
<1> USE DEF S!At
<1>0. /\ proc[p] \in Handlers(issued) /\ issued \in Nat
      /\ {"login", "ask", "read"} \subseteq SessionPlaces
  BY SessionKnown DEF SessionPlaces
<1>1. CASE S!Remove(p)
  BY <1>1, RemoveStep
<1>2. CASE S!Look(p)
  <2>1. PICK k : k = IF S!Known(p) THEN cache[p].session ELSE 0
    OBVIOUS
  <2>2. PICK l : l = IF S!Known(p) THEN "ask" ELSE "read"
    OBVIOUS
  <2>3. PICK r : r = [proc[p] EXCEPT !.seen = file.rev, !.at = l, !.held = k]
    OBVIOUS
  <2>4. k \in 0..issued /\ l \in {"ask", "read"} /\ file.rev \in Nat
    BY <2>1, <2>2, SessionKnown
  <2>5. r \in Handlers(issued)
    BY <1>0, <2>3, <2>4, HandlerUpdates
  <2>6. r.seen = file.rev /\ r.at = l /\ r.held = k
    BY <1>0, <2>3, <2>5 DEF Handlers
  <2>7. r.at = "ask" /\ file.session > 0 => r.held = file.session
    BY <2>1, <2>2, <2>6, SessionKnown DEF S!Known
  <2>8. proc' = [proc EXCEPT ![p] = r] /\ UNCHANGED <<file, issued, valid, cache>>
    BY <1>2, <2>1, <2>2, <2>3 DEF S!Look, S!Absent
  <2> QED
    BY <2>4, <2>5, <2>6, <2>7, <2>8, GoesOn
<1>3. CASE S!Read(p)
  <2>1. CASE file.session \in S!Unreadable
    BY <1>3, <2>1, RejectedStep DEF S!Read
  <2>2. CASE file.session \notin S!Unreadable
    <3>1. file.session \in 0..issued
      BY <2>2, SessionKnown DEF S!Unreadable, S!Empty, S!Mixed, S!Absent
    <3>2. PICK r, c : /\ r = [proc[p] EXCEPT !.at = "ask", !.held = file.session]
                      /\ c = [session |-> file.session, rev |-> proc[p].seen]
      OBVIOUS
    <3>3. r \in Handlers(issued)
      BY <1>0, <3>1, <3>2, HandlerUpdates
    <3>4. r.at = "ask" /\ r.held = file.session /\ r.seen = proc[p].seen
      BY <1>0, <3>2, <3>3 DEF Handlers
    <3>5. c \in Profiles(issued) /\ c.rev = proc[p].seen /\ c.session = file.session
      BY <3>1, <3>2, SessionKnown DEF Profiles
    <3>6. /\ proc' = [proc EXCEPT ![p] = r] /\ cache' = [cache EXCEPT ![p] = c]
          /\ UNCHANGED <<file, issued, valid>>
      BY <1>3, <2>2, <3>2 DEF S!Read
    <3> QED
      BY <3>3, <3>4, <3>5, <3>6, HandlerStep
  <2> QED
    BY <2>1, <2>2
<1>4. CASE S!Accepted(p) \/ S!Doubted(p)
  BY <1>4, EndStep DEF S!Accepted, S!Doubted
<1>5. CASE S!Expired(p)
  BY <1>5, RejectedStep DEF S!Expired
<1>6. CASE S!Unanswered(p)
  <2>1. UNCHANGED <<file, issued, valid, cache>>
    BY <1>6 DEF S!Unanswered
  <2>2. CASE S!End(p)
    BY <2>1, <2>2, EndStep
  <2>3. CASE proc' = [proc EXCEPT ![p] = [proc[p] EXCEPT !.at = "login", !.broken = TRUE]]
    <3>1. PICK r : r = [proc[p] EXCEPT !.at = "login", !.broken = TRUE]
      OBVIOUS
    <3>2. r \in Handlers(issued)
      BY <1>0, <3>1, HandlerUpdates
    <3>3. r.at = "login" /\ r.seen = proc[p].seen
      BY <1>0, <3>1, <3>2 DEF Handlers
    <3> QED
      BY <2>1, <2>3, <3>1, <3>2, <3>3, GoesOn
  <2> QED
    BY <1>6, <2>2, <2>3 DEF S!Unanswered
<1> QED
  BY <1>1, <1>2, <1>3, <1>4, <1>5, <1>6 DEF S!Using

(* The bundle is in the file, or in one that is gone: nothing is expected  *)
(* of the file any more, and the profile is dropped.                       *)
LEMMA SavedHandler ==
  ASSUME SessionInv, NEW p \in Process, S!Saved(p)
  PROVE  \E r \in Handlers(issued), c \in Profiles(issued) :
             /\ proc' = [proc EXCEPT ![p] = r] /\ cache' = [cache EXCEPT ![p] = c]
             /\ r.at = "idle" \/ (r.at = "look" /\ r.again)
             /\ r.held = 0 /\ (r.seen = proc[p].seen \/ r.seen = 0)
             /\ c = cache[p] \/ c.rev = -1
             /\ c.rev = file.rev /\ file.session > 0 => c.session = file.session
<1>1. /\ proc[p] \in Handlers(issued) /\ issued \in Nat /\ "look" \in SessionPlaces
      /\ 0 \in 0..issued
  BY SessionKnown DEF SessionPlaces
<1>2. PICK c : c = IF proc[p].job = "import" THEN cache[p] ELSE S!NoCache
  OBVIOUS
<1>3. /\ c \in Profiles(issued) /\ cache' = [cache EXCEPT ![p] = c]
      /\ c = cache[p] \/ c.rev = -1
      /\ c.rev = file.rev /\ file.session > 0 => c.session = file.session
  <2>1. S!NoCache \in Profiles(issued) /\ S!NoCache.rev = -1 /\ file.rev \in Nat
    BY <1>1, IdleHandler, SessionKnown
  <2>2. CASE proc[p].job = "import"
    BY <1>2, <2>2, SessionKnown DEF S!Saved
  <2>3. CASE proc[p].job # "import"
    <3>1. c = S!NoCache /\ c.rev # file.rev
      BY <1>2, <2>1, <2>3
    <3> QED
      BY <1>2, <2>1, <2>3, <3>1 DEF S!Saved
  <2> QED
    BY <2>2, <2>3
<1>4. CASE proc[p].job \in {"auth", "force"}
  <2>1. PICK r : r = S!Idle
    OBVIOUS
  <2>2. r \in Handlers(issued) /\ r.at = "idle" /\ r.seen = 0 /\ r.held = 0
    BY <1>1, <2>1, IdleHandler
  <2>3. proc' = [proc EXCEPT ![p] = r]
    BY <1>4, <2>1 DEF S!Saved, S!End
  <2> QED
    BY <1>3, <2>2, <2>3
<1>5. CASE proc[p].job \notin {"auth", "force"}
  <2>1. PICK r : r = [proc[p] EXCEPT !.at = "look", !.held = 0, !.again = TRUE]
    OBVIOUS
  <2>2. r \in Handlers(issued)
    BY <1>1, <2>1, HandlerUpdates
  <2>3. r.at = "look" /\ r.again = TRUE /\ r.seen = proc[p].seen /\ r.held = 0
    BY <1>1, <2>1, <2>2 DEF Handlers
  <2>4. proc' = [proc EXCEPT ![p] = r]
    BY <1>5, <2>1 DEF S!Saved, S!Absent
  <2> QED
    BY <1>3, <2>2, <2>3, <2>4
<1> QED
  BY <1>4, <1>5

LEMMA LoggingInStays ==
  ASSUME SessionInv, S!Shown, NEW p \in Process, S!LoggingIn(p) PROVE SessionInv'
<1> USE DEF S!At
<1>0. /\ proc[p] \in Handlers(issued) /\ issued \in Nat
      /\ {"submitted", "write"} \subseteq SessionPlaces
  BY SessionKnown DEF SessionPlaces
<1>1. CASE S!Submit(p)
  <2>1. PICK r : r = [proc[p] EXCEPT !.at = "submitted", !.broken = FALSE]
    OBVIOUS
  <2>2. r \in Handlers(issued)
    BY <1>0, <2>1, HandlerUpdates
  <2>3. r.at = "submitted" /\ r.seen = proc[p].seen
    BY <1>0, <2>1, <2>2 DEF Handlers
  <2>4. proc' = [proc EXCEPT ![p] = r] /\ UNCHANGED <<file, issued, valid, cache>>
    BY <1>1, <2>1 DEF S!Submit
  <2> QED
    BY <2>2, <2>3, <2>4, GoesOn
<1>2. CASE S!LeftLogin(p) \/ S!LoginDeadline(p) \/ S!BringBundle(p)
  BY <1>2, IssueStep DEF S!LeftLogin, S!LoginDeadline, S!BringBundle
<1>3. CASE S!LoginFails(p) \/ S!SaveFails(p)
  BY <1>3, EndStep DEF S!LoginFails, S!SaveFails
<1>4. CASE S!Truncate(p)
  <2>1. PICK r : r = [proc[p] EXCEPT !.at = "write"]
    OBVIOUS
  <2>2. r \in Handlers(issued)
    BY <1>0, <2>1, HandlerUpdates
  <2>3. r.at = "write" /\ r.seen = proc[p].seen /\ r.held = proc[p].held
    BY <1>0, <2>1, <2>2 DEF Handlers
  <2>4. PICK c : c = cache[p]
    OBVIOUS
  <2>5. /\ c \in Profiles(issued) /\ cache' = [cache EXCEPT ![p] = c]
        /\ proc' = [proc EXCEPT ![p] = r] /\ UNCHANGED <<issued, valid>>
    BY <1>4, <2>1, <2>4, SessionKnown DEF S!Truncate, S!Goto
  <2>6. proc[p].held \in 1..issued /\ Brings(p)
    BY <1>4, SessionKnown DEF S!Truncate, S!Absent, Brings
  <2>7. file'.session = -1 /\ file'.rev = 2 * proc[p].held
        /\ file' \in [session : -2..issued, rev : Nat]
    BY <1>0, <1>4, <2>6 DEF S!Truncate, S!Truncated, S!Empty
  <2>8. \A q \in Process : file'.rev # 2 * proc[q].held + 1
    <3> SUFFICES ASSUME NEW q \in Process PROVE file'.rev # 2 * proc[q].held + 1
      OBVIOUS
    <3>1. proc[q].held \in Nat
      BY SessionKnown
    <3> QED
      BY <2>6, <2>7, <3>1
  <2>9. file'.rev <= 2 * issued + 1 /\ r.held # 0 /\ ~(file'.session > 0)
    BY <1>0, <2>3, <2>6, <2>7
  <2> QED
    BY <2>2, <2>3, <2>4, <2>5, <2>6, <2>7, <2>8, <2>9, WriterStep
<1>5. CASE S!WriteBundle(p)
  <2>1. PICK r \in Handlers(issued), c \in Profiles(issued) :
             /\ proc' = [proc EXCEPT ![p] = r] /\ cache' = [cache EXCEPT ![p] = c]
             /\ r.at = "idle" \/ (r.at = "look" /\ r.again)
             /\ r.held = 0 /\ (r.seen = proc[p].seen \/ r.seen = 0)
             /\ c = cache[p] \/ c.rev = -1
    BY <1>5, SavedHandler DEF S!WriteBundle
  <2>2. Brings(p) /\ proc[p].held \in 1..issued
    BY <1>5, SessionKnown DEF S!WriteBundle, SessionInv, RevisionsTell, Brings, S!Absent
  <2>3. /\ file'.session \in {proc[p].held, -2} /\ file'.rev = 2 * proc[p].held + 1
        /\ file' \in [session : -2..issued, rev : Nat] /\ UNCHANGED <<issued, valid>>
    BY <1>0, <1>5, <2>2 DEF S!WriteBundle, S!Written, S!Mixed
  <2>4. ASSUME NEW q \in Process \ {p}, Brings(q) PROVE file'.rev # 2 * proc[q].held + 1
    <3>1. proc[q].held # proc[p].held /\ proc[q].held \in Nat
      BY <2>2, <2>4, SessionKnown DEF SessionInv, RevisionsTell
    <3> QED
      BY <2>2, <2>3, <3>1
  <2>5. ~Brings(p)'
    <3>1. proc'[p] = r
      BY <2>1, SessionKnown
    <3> QED
      BY <2>1, <3>1 DEF Brings
  <2>6. file'.session > 0 => /\ file'.rev = 2 * file'.session + 1
                             /\ \A q \in Process : cache[q].rev # file'.rev
    BY <2>2, <2>3 DEF SessionInv, RevisionsTell, Past
  <2>7. file'.rev <= 2 * issued + 1
    BY <1>0, <2>2, <2>3
  <2> QED
    BY <2>1, <2>3, <2>4, <2>5, <2>6, <2>7, WriterStep
<1>6. CASE S!WriteLost(p)
  <2>1. UNCHANGED <<file, issued, valid>>
    BY <1>6 DEF S!WriteLost
  <2>2. PICK r \in Handlers(issued), c \in Profiles(issued) :
             /\ proc' = [proc EXCEPT ![p] = r] /\ cache' = [cache EXCEPT ![p] = c]
             /\ r.at = "idle" \/ (r.at = "look" /\ r.again)
             /\ r.held = 0 /\ (r.seen = proc[p].seen \/ r.seen = 0)
             /\ c = cache[p] \/ c.rev = -1
             /\ c.rev = file.rev /\ file.session > 0 => c.session = file.session
    BY <1>6, SavedHandler DEF S!WriteLost
  <2> QED
    BY <2>1, <2>2, HandlerStep
<1> QED
  BY <1>1, <1>2, <1>3, <1>4, <1>5, <1>6 DEF S!LoggingIn

LEMMA SessionStays == SessionInv /\ [S!Next]_(S!vars) => SessionInv'
<1> SUFFICES ASSUME SessionInv, [S!Next]_(S!vars) PROVE SessionInv'
  OBVIOUS
<1>1. CASE UNCHANGED S!vars
  BY <1>1 DEF S!vars, SessionInv, SessionTyped, RevisionsTell, TriesWhatIsThere, Brings, Past
<1>2. CASE S!Next
  <2>0. S!Shown
    BY <1>2 DEF S!Next
  <2>1. ASSUME NEW p \in Process, S!Using(p) \/ S!LoggingIn(p) PROVE SessionInv'
    BY <2>0, <2>1, UsingStays, LoggingInStays
  <2>2. ASSUME NEW p \in Process, S!Dies(p) PROVE SessionInv'
    BY <2>0, <2>2, EndStep DEF S!Dies
  <2>3. ASSUME NEW p \in Process, NEW job \in S!Jobs, S!Begin(p, job) PROVE SessionInv'
    <3>1. PICK l : l = CASE job = "force" -> "login" [] job = "profile" -> "remove"
                         [] job = "import" -> "fetched" [] OTHER -> "look"
      OBVIOUS
    <3>2. l \in {"login", "remove", "fetched", "look"} /\ l \in SessionPlaces
      BY <3>1 DEF SessionPlaces
    <3>3. PICK r : r = [S!Idle EXCEPT !.job = job, !.at = l]
      OBVIOUS
    <3>4. r \in Handlers(issued)
      BY <3>2, <3>3, SessionKnown, IdleHandler
    <3>5. r.at = l /\ r.seen = 0 /\ r.held = 0
      BY <3>3, <3>4 DEF S!Idle, S!Absent
    <3>6. proc' = [proc EXCEPT ![p] = r] /\ UNCHANGED <<file, issued, valid, cache>>
      BY <2>3, <3>1, <3>3 DEF S!Begin
    <3> QED
      BY <2>0, <3>2, <3>4, <3>5, <3>6, GoesOn
  <2>4. ASSUME NEW s \in valid, S!Revoke(s) PROVE SessionInv'
    <3>1. valid' = valid \ {s} /\ UNCHANGED <<file, issued, cache, proc>>
      BY <2>4 DEF S!Revoke
    <3>2. /\ valid \subseteq 1..issued /\ issued \in Nat
          /\ file.session \in -2..issued
      BY DEF SessionInv, SessionTyped
    <3>3. ASSUME NEW q \in Process
          PROVE  /\ shown'[q] \subseteq -2..issued'
                 /\ /\ proc'[q].at \in {"look", "read", "ask"} /\ ~proc'[q].again
                    /\ shown'[q] \subseteq valid'
                    => /\ file'.session \in shown'[q]
                       /\ proc'[q].at = "ask" => proc'[q].held \in shown'[q]
      BY <2>0, <3>1, <3>2, KeepsTrying
    <3>4. SessionTyped'
      BY <3>1, <3>2, <3>3 DEF SessionInv, SessionTyped
    <3>5. TriesWhatIsThere'
      BY <3>3 DEF TriesWhatIsThere
    <3>6. RevisionsTell'
      BY <3>1 DEF SessionInv, RevisionsTell, Brings, Past
    <3> QED
      BY <3>4, <3>5, <3>6 DEF SessionInv
  <2> QED
    BY <1>2, <2>1, <2>2, <2>3, <2>4 DEF S!Next
<1> QED
  BY <1>1, <1>2

(* Credentials are submitted only if a request got no answer, or the file  *)
(* has held, since the handler looked, what could not be used.             *)
THEOREM LoginsHaveReasons == S!Spec => LoginNeeded
<1>1. S!Init => SessionInv
  <2> SUFFICES ASSUME S!Init PROVE SessionInv
    OBVIOUS
  <2>1. /\ file \in [session : {0, 1}, rev : {0, 3}] /\ issued = 1 /\ valid = {1}
        /\ file.session > 0 => file.rev = 3
        /\ cache = [p \in Process |-> S!NoCache] /\ proc = [p \in Process |-> S!Idle]
        /\ shown = [p \in Process |-> {}]
    BY DEF S!Init, S!NoFile, S!Absent
  <2>2. \A p \in Process : /\ cache[p] = S!NoCache /\ proc[p] = S!Idle /\ shown[p] = {}
    BY <2>1
  <2>3. SessionTyped
    <3>1. issued = 1 /\ file \in [session : -2..issued, rev : Nat]
      BY <2>1
    <3>2. S!Idle \in Handlers(issued) /\ S!NoCache \in Profiles(issued)
      BY <3>1, IdleHandler
    <3>3. cache \in [Process -> Profiles(issued)] /\ proc \in [Process -> Handlers(issued)]
      BY <2>1, <3>2
    <3> QED
      BY <2>1, <2>2, <3>1, <3>3 DEF SessionTyped
  <2>4. \A p \in Process : /\ proc[p].at = "idle" /\ proc[p].seen = 0 /\ cache[p].rev = -1
    BY <2>1, <2>2, IdleHandler
  <2>5. \A p \in Process : ~Brings(p)
    BY <2>4 DEF Brings
  <2>6. RevisionsTell
    BY <2>1, <2>4, <2>5 DEF RevisionsTell, Past
  <2>7. TriesWhatIsThere
    BY <2>4 DEF TriesWhatIsThere
  <2> QED
    BY <2>3, <2>6, <2>7 DEF SessionInv
<1>2. ASSUME SessionInv, S!Next, NEW p \in Process, ~S!At(p, "login"),
             proc'[p].at = "login", proc'[p].job # "force"
      PROVE  proc'[p].broken \/ ~(shown[p] \subseteq valid)
  <2>0. proc \in [Process -> Handlers(issued)] /\ proc[p] \in Handlers(issued)
    BY SessionKnown, <1>2
  <2>1. ASSUME NEW q \in Process, S!Rejected(q), S!At(q, "read") \/ S!At(q, "ask")
        PROVE  q = p /\ ~proc[p].again
    BY <1>2, <2>0, <2>1 DEF S!Rejected, S!Goto, S!End, S!Idle, S!At
  <2>2. ASSUME NEW q \in Process, S!Read(q) PROVE ~(shown[p] \subseteq valid)
    <3>1. CASE file.session \in S!Unreadable
      <4>1. q = p /\ ~proc[p].again /\ proc[p].at = "read"
        BY <2>1, <2>2, <3>1 DEF S!Read, S!At
      <4>2. file.session \notin valid
        BY <1>2, <3>1, SessionKnown DEF S!Unreadable, S!Absent, S!Empty, S!Mixed
      <4> QED
        BY <1>2, <4>1, <4>2 DEF SessionInv, TriesWhatIsThere
    <3>2. CASE file.session \notin S!Unreadable
      BY <1>2, <2>0, <2>2, <3>2 DEF S!Read, S!At, Handlers
    <3> QED
      BY <3>1, <3>2
  <2>3. ASSUME NEW q \in Process, S!Expired(q) PROVE ~(shown[p] \subseteq valid)
    <3>1. q = p /\ ~proc[p].again /\ proc[p].at = "ask" /\ proc[p].held \notin valid
      BY <2>1, <2>3 DEF S!Expired, S!At
    <3> QED
      BY <1>2, <3>1 DEF SessionInv, TriesWhatIsThere
  <2>4. ASSUME NEW q \in Process, S!Unanswered(q) PROVE proc'[p].broken
    <3>1. proc[q] \in Handlers(issued)
      BY <2>0
    <3>2. CASE S!End(q)
      BY <1>2, <2>0, <3>2 DEF S!End, S!Idle, S!At
    <3>3. CASE proc' = [proc EXCEPT ![q] = [@ EXCEPT !.at = "login", !.broken = TRUE]]
      <4>1. p = q
        BY <1>2, <2>0, <3>3 DEF S!At
      <4>2. proc'[p] = [proc[p] EXCEPT !.at = "login", !.broken = TRUE]
        BY <2>0, <3>3, <4>1
      <4>3. [proc[p] EXCEPT !.at = "login", !.broken = TRUE].broken = TRUE
        BY <2>0 DEF Handlers
      <4> QED
        BY <4>2, <4>3, Zenon
    <3> QED
      BY <2>4, <3>2, <3>3 DEF S!Unanswered
  <2>5. ASSUME NEW q \in Process, NEW job \in S!Jobs, S!Begin(q, job) PROVE FALSE
    <3>1. proc'[q].job = job /\ (proc'[q].at = "login" => job = "force")
      BY <2>0, <2>5 DEF S!Begin, S!Idle
    <3> QED
      BY <1>2, <2>0, <2>5, <3>1 DEF S!Begin, S!At
  <2>6. ASSUME NEW q \in Process,
               \/ S!Remove(q) \/ S!Look(q) \/ S!Accepted(q) \/ S!Doubted(q)
               \/ S!Submit(q) \/ S!LeftLogin(q) \/ S!LoginDeadline(q) \/ S!LoginFails(q)
               \/ S!BringBundle(q) \/ S!Truncate(q) \/ S!WriteBundle(q) \/ S!WriteLost(q)
               \/ S!SaveFails(q) \/ S!Dies(q)
        PROVE  FALSE
    <3>1. CASE S!Remove(q)
      BY <1>2, <2>0, <3>1 DEF S!Remove, S!At
    <3>2. CASE S!Look(q)
      BY <1>2, <2>0, <3>2 DEF S!Look, S!At
    <3>3. CASE S!End(q)
      BY <1>2, <2>0, <3>3 DEF S!End, S!Idle, S!At
    <3>4. CASE S!Submit(q)
      BY <1>2, <2>0, <3>4 DEF S!Submit, S!At
    <3>5. CASE \E accepted \in BOOLEAN : S!Issue(q, accepted)
      BY <1>2, <2>0, <3>5 DEF S!Issue, S!At
    <3>6. CASE S!Truncate(q)
      BY <1>2, <2>0, <3>6 DEF S!Truncate, S!Goto, S!At
    <3>7. CASE S!Saved(q)
      <4>1. CASE proc' = [proc EXCEPT ![q] =
                            [@ EXCEPT !.at = "look", !.held = S!Absent, !.again = TRUE]]
        <5>1. proc'[q] = [proc[q] EXCEPT !.at = "look", !.held = S!Absent, !.again = TRUE]
          BY <2>0, <4>1
        <5>2. [proc[q] EXCEPT !.at = "look", !.held = S!Absent, !.again = TRUE].at = "look"
          BY <2>0 DEF Handlers
        <5>3. p # q
          BY <1>2, <5>1, <5>2
        <5> QED
          BY <1>2, <2>0, <4>1, <5>3 DEF S!At
      <4> QED
        BY <3>3, <3>7, <4>1 DEF S!Saved
    <3> QED
      BY <2>6, <3>1, <3>2, <3>3, <3>4, <3>5, <3>6, <3>7
         DEF S!Accepted, S!Doubted, S!LeftLogin, S!LoginDeadline, S!LoginFails, S!BringBundle,
             S!WriteBundle, S!WriteLost, S!SaveFails, S!Dies
  <2>7. ASSUME NEW s \in valid, S!Revoke(s) PROVE FALSE
    BY <1>2, <2>7 DEF S!Revoke, S!At
  <2> QED
    BY <1>2, <2>2, <2>3, <2>4, <2>5, <2>6, <2>7 DEF S!Next, S!Using, S!LoggingIn
<1>3. SessionInv /\ [S!Next]_(S!vars) =>
      [\A p \in Process :
          ~S!At(p, "login") /\ proc'[p].at = "login" /\ proc'[p].job # "force"
             => proc'[p].broken \/ ~(shown[p] \subseteq valid)]_(S!vars)
  BY <1>2
<1> QED
  BY <1>1, <1>3, SessionStays, PTL DEF S!Spec, LoginNeeded, S!LoginNeeded
================================================================================
