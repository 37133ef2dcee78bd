----------------------------- MODULE Forwarder ------------------------------
(***************************************************************************)
(* WebhookForwarder of ingest/src/resender/forwarder.py: sends by          *)
(* concurrent tasks, one lock and one pacing clock per webhook URL, up to  *)
(* three requests per send, cooldowns slept with the lock held.            *)
(*                                                                         *)
(* Time is counted in ticks.  A sleep lasts at least its timer, a tick may *)
(* pass between any two steps, and last_sent is kept as its age, which is  *)
(* not told apart beyond the minimum interval.                             *)
(***************************************************************************)
EXTENDS Naturals, Sequences

CONSTANTS
    Caller,       \* tasks that send: the create handlers and the sweeper
    Url,          \* webhooks
    NoUrl,        \* of a caller that is not sending
    MinInterval,  \* MIN_INTERVAL_SECONDS, in ticks
    Cooldowns     \* what _retry_after may return, in ticks

ASSUME NoUrlAssumption == NoUrl \notin Url
ASSUME MinIntervalAssumption == MinInterval \in Nat \ {0}
ASSUME CooldownsAssumption == Cooldowns \subseteq Nat /\ Cooldowns # {}

MaxRequests == 3

VARIABLES
    pc,        \* per caller: where its send is
    url,       \* per caller: the webhook of its send
    requests,  \* per caller: requests made by its send
    taken,     \* per caller: requests of its send that made a copy
    timer,     \* per caller: ticks left of its sleep
    outcome,   \* per caller: how its last send ended
    queue,     \* per webhook: holder of the lock, then its waiters, in order
    age        \* per webhook: ticks since last_sent, up to MinInterval

vars == <<pc, url, requests, taken, timer, outcome, queue, age>>

PC == {"idle", "lock", "pace", "request", "taken", "cool"}

Outcome == {"none", "sent", "retryable", "permanent", "raised", "blank"}

TypeOK ==
    /\ pc \in [Caller -> PC]
    /\ url \in [Caller -> Url \cup {NoUrl}]
    /\ \A c \in Caller : url[c] = NoUrl <=> pc[c] = "idle"
    /\ requests \in [Caller -> 0 .. MaxRequests]
    /\ taken \in [Caller -> 0 .. MaxRequests]
    /\ timer \in [Caller -> Nat]
    /\ outcome \in [Caller -> Outcome]
    /\ queue \in [Url -> Seq(Caller)]
    /\ age \in [Url -> 0 .. MinInterval]

\* last_sent.get(url, 0.0): a webhook never used was used long ago.
Init ==
    /\ pc = [c \in Caller |-> "idle"]
    /\ url = [c \in Caller |-> NoUrl]
    /\ requests = [c \in Caller |-> 0]
    /\ taken = [c \in Caller |-> 0]
    /\ timer = [c \in Caller |-> 0]
    /\ outcome = [c \in Caller |-> "none"]
    /\ queue = [u \in Url |-> <<>>]
    /\ age = [u \in Url |-> MinInterval]

-----------------------------------------------------------------------------
\* build_payload raises before the lock is asked for.
SendBlank(c) ==
    /\ pc[c] = "idle"
    /\ outcome' = [outcome EXCEPT ![c] = "blank"]
    /\ UNCHANGED <<pc, url, requests, taken, timer, queue, age>>

\* async with lock: asyncio.Lock serves its waiters in the order they came.
Send(c, u) ==
    /\ pc[c] = "idle"
    /\ pc' = [pc EXCEPT ![c] = "lock"]
    /\ url' = [url EXCEPT ![c] = u]
    /\ taken' = [taken EXCEPT ![c] = 0]
    /\ outcome' = [outcome EXCEPT ![c] = "none"]
    /\ queue' = [queue EXCEPT ![u] = Append(@, c)]
    /\ UNCHANGED <<requests, timer, age>>

\* Mutant: no lock.
HoldsNothing(c) == TRUE

HoldsLock(c) == queue[url[c]] # <<>> /\ Head(queue[url[c]]) = c

\* _throttle up to its sleep: what is missing of the interval is computed once.
Throttle(c) ==
    /\ pc' = [pc EXCEPT ![c] = "pace"]
    /\ timer' = [timer EXCEPT ![c] = MinInterval - age[url[c]]]
    /\ UNCHANGED <<url, requests, taken, outcome, queue, age>>

Acquire(c) ==
    /\ pc[c] = "lock"
    /\ HoldsLock(c)
    /\ Throttle(c)

\* The sleep is over: last_sent is set and the request goes out.
Post(c) ==
    /\ pc[c] = "pace"
    /\ timer[c] = 0
    /\ pc' = [pc EXCEPT ![c] = "request"]
    /\ requests' = [requests EXCEPT ![c] = @ + 1]
    /\ age' = [age EXCEPT ![url[c]] = 0]
    /\ UNCHANGED <<url, taken, timer, outcome, queue>>

\* The webhook takes the message.
Take(c) ==
    /\ pc[c] = "request"
    /\ pc' = [pc EXCEPT ![c] = "taken"]
    /\ taken' = [taken EXCEPT ![c] = @ + 1]
    /\ UNCHANGED <<url, requests, timer, outcome, queue, age>>

\* Mutant: the lock is not released.
EndsHolding(c, result) ==
    /\ pc' = [pc EXCEPT ![c] = "idle"]
    /\ url' = [url EXCEPT ![c] = NoUrl]
    /\ requests' = [requests EXCEPT ![c] = 0]
    /\ outcome' = [outcome EXCEPT ![c] = result]
    /\ timer' = [timer EXCEPT ![c] = 0]
    /\ UNCHANGED <<taken, queue, age>>

\* send() returns or raises, which releases the lock.
Ends(c, result) ==
    /\ pc' = [pc EXCEPT ![c] = "idle"]
    /\ url' = [url EXCEPT ![c] = NoUrl]
    /\ requests' = [requests EXCEPT ![c] = 0]
    /\ outcome' = [outcome EXCEPT ![c] = result]
    /\ queue' = [queue EXCEPT ![url[c]] = Tail(@)]
    /\ timer' = [timer EXCEPT ![c] = 0]
    /\ UNCHANGED <<taken, age>>

\* Mutant: the status is not looked at.
SuccessAnyStatus(c) ==
    /\ pc[c] \in {"request", "taken"}
    /\ Ends(c, "sent")

\* 200 or 204.
Success(c) ==
    /\ pc[c] = "taken"
    /\ Ends(c, "sent")

\* Mutant: a timeout is one more round of the loop.
RequestFailsOver(c) ==
    /\ pc[c] \in {"request", "taken"}
    /\ IF requests[c] < MaxRequests THEN Throttle(c) ELSE Ends(c, "retryable")

\* TimeoutError or ClientError, whether the message was taken or not; a status
\* from 500 up; or a status whose body cannot be read.
RequestFails(c) ==
    /\ pc[c] \in {"request", "taken"}
    /\ Ends(c, "retryable")

\* Another status.
Rejected(c) ==
    /\ pc[c] = "request"
    /\ Ends(c, "permanent")

\* 429: the lock is kept through the sleep, after the last request as well.
RateLimited(c) ==
    /\ pc[c] = "request"
    /\ pc' = [pc EXCEPT ![c] = "cool"]
    /\ \E ticks \in Cooldowns : timer' = [timer EXCEPT ![c] = ticks]
    /\ UNCHANGED <<url, requests, taken, outcome, queue, age>>

\* 429 whose body is not JSON and whose Retry-After header is not a number:
\* float() raises what send() does not catch.
RateLimitedUnreadably(c) ==
    /\ pc[c] = "request"
    /\ Ends(c, "raised")

\* Mutant: the loop has no end.
CooledForever(c) ==
    /\ pc[c] = "cool"
    /\ timer[c] = 0
    /\ Throttle(c)

\* Mutant: after a cooldown the request is repeated unpaced.
CooledUnpaced(c) ==
    /\ pc[c] = "cool"
    /\ timer[c] = 0
    /\ \/ /\ requests[c] < MaxRequests
          /\ pc' = [pc EXCEPT ![c] = "pace"]
          /\ UNCHANGED <<url, requests, taken, timer, outcome, queue, age>>
       \/ requests[c] = MaxRequests /\ Ends(c, "retryable")

\* The cooldown is over: next round of the loop, or its end.
Cooled(c) ==
    /\ pc[c] = "cool"
    /\ timer[c] = 0
    /\ \/ requests[c] < MaxRequests /\ Throttle(c)
       \/ requests[c] = MaxRequests /\ Ends(c, "retryable")

Tick ==
    /\ timer' = [c \in Caller |-> IF timer[c] > 0 THEN timer[c] - 1 ELSE 0]
    /\ age' = [u \in Url |-> IF age[u] < MinInterval THEN age[u] + 1 ELSE age[u]]
    /\ UNCHANGED <<pc, url, requests, taken, outcome, queue>>

-----------------------------------------------------------------------------
Answered(c) == Success(c) \/ RequestFails(c) \/ Rejected(c) \/ RateLimited(c)
               \/ RateLimitedUnreadably(c)

Next ==
    \/ \E c \in Caller :
         \/ SendBlank(c)
         \/ \E u \in Url : Send(c, u)
         \/ Acquire(c) \/ Post(c) \/ Take(c) \/ Answered(c) \/ Cooled(c)
    \/ Tick

Spec == Init /\ [][Next]_vars

\* ClientTimeout(total) ends every request, time passes and the loop runs what
\* is ready.
FairSpec ==
    /\ Spec
    /\ WF_vars(Tick)
    /\ \A c \in Caller :
         WF_vars(Acquire(c)) /\ WF_vars(Post(c)) /\ WF_vars(Cooled(c))
         /\ WF_vars(Answered(c))

-----------------------------------------------------------------------------
(* Correctness. *)

\* forwarder.py: "Half a second between sends stays under" the bucket.  The
\* sleep is computed from a clock read before it; the gap holds when it ends.
MinIntervalKept ==
    [][\A c \in Caller :
          pc[c] = "pace" /\ pc'[c] = "request" => age[url[c]] >= MinInterval]_vars

\* One send at a time is at work on a webhook, and while it waits out a 429
\* nobody asks that webhook for anything.
OneAtATime ==
    \A c, d \in Caller :
        (/\ c # d /\ url[c] = url[d]
         /\ pc[c] \in {"pace", "request", "taken", "cool"})
            => pc[d] \in {"idle", "lock"}

\* However often a send asks, at most one copy comes of it; it reports success
\* exactly when the copy is known, and a permanent failure only without one.
OneCopyPerSend ==
    \A c \in Caller :
        /\ taken[c] <= 1
        /\ outcome[c] = "sent" => taken[c] = 1
        /\ outcome[c] \in {"permanent", "raised"} => taken[c] = 0

\* Behind any queue of senders and any cooldowns, every send returns.
SendReturns == \A c \in Caller : pc[c] = "lock" ~> pc[c] = "idle"

Stage ==
    [c \in Caller |-> CASE pc[c] = "idle" -> "idle"
                        [] pc[c] = "taken" -> "accepted"
                        [] OTHER -> "send"]

S == INSTANCE WebhookSend WITH stage <- Stage, outcome <- outcome

\* Locks, pacing, cooldowns and repeated requests keep the contract of a send.
ImplementsSend == S!Spec
=============================================================================
