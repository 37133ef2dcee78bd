--------------------------- MODULE ForwarderProofs --------------------------
(***************************************************************************)
(* Proofs about module Forwarder, for any callers, webhooks, interval and  *)
(* cooldowns.                                                              *)
(***************************************************************************)
EXTENDS Forwarder, SequenceTheorems, TLAPS

-----------------------------------------------------------------------------
(* The inductive invariant. *)

Holding(c) == pc[c] \in {"pace", "request", "taken", "cool"}

\* A sender past the lock stands at the head of its webhook's queue.
LockHeld == \A c \in Caller : Holding(c) => HoldsLock(c)

\* The loop of requests: there is one left whenever one is paced.
RequestsLeft ==
    \A c \in Caller : /\ pc[c] \in {"idle", "lock"} => requests[c] = 0
                      /\ pc[c] = "pace" => requests[c] < MaxRequests

\* Until the webhook takes the message nothing is taken and nothing concluded.
OneTaken ==
    \A c \in Caller :
        /\ pc[c] \in {"lock", "pace", "request", "cool"} => taken[c] = 0
        /\ pc[c] = "taken" => taken[c] = 1
        /\ pc[c] # "idle" => outcome[c] = "none"

\* What is left of a pacing sleep is never less than what is missing of the
\* interval.
Paced ==
    \A c \in Caller : pc[c] = "pace" => timer[c] + age[url[c]] >= MinInterval

IInv == TypeOK /\ LockHeld /\ RequestsLeft /\ OneTaken /\ Paced /\ OneCopyPerSend

\* The initial states are invariant.
LEMMA InitInv == Init => IInv
BY MinIntervalAssumption, NoUrlAssumption
   DEF Init, IInv, TypeOK, PC, Outcome, MaxRequests, LockHeld, Holding, RequestsLeft,
       OneTaken, Paced, OneCopyPerSend

\* A sender that is not idle has a webhook, and a queue there.
LEMMA UrlOfSender ==
    ASSUME TypeOK, NEW c \in Caller, pc[c] # "idle"
    PROVE  url[c] \in Url /\ queue[url[c]] \in Seq(Caller) /\ age[url[c]] \in 0 .. MinInterval
BY DEF TypeOK

\* A waiter joins at the end of a queue: its head stays.
LEMMA JoinsAtEnd ==
    ASSUME NEW s \in Seq(Caller), NEW c \in Caller
    PROVE  /\ Append(s, c) \in Seq(Caller)
           /\ s # <<>> => Append(s, c) # <<>> /\ Head(Append(s, c)) = Head(s)
BY AppendProperties, HeadTailProperties

\* Two senders past the lock are not on one webhook.
LEMMA Exclusive ==
    ASSUME LockHeld, NEW c \in Caller, NEW d \in Caller,
           Holding(c), Holding(d), url[c] = url[d]
    PROVE  c = d
BY DEF LockHeld, HoldsLock

\* A send that ends leaves the others' places as they were.
LEMMA EndsInv ==
    ASSUME IInv, NEW c \in Caller, Holding(c),
           NEW result \in Outcome, Ends(c, result),
           result \in {"sent", "retryable", "permanent", "raised"},
           result = "sent" => pc[c] = "taken",
           result \in {"permanent", "raised"} => pc[c] # "taken"
    PROVE  IInv'
<1> USE DEF IInv
<1>1. pc[c] \in PC /\ pc[c] # "idle" /\ url[c] \in Url /\ queue[url[c]] \in Seq(Caller)
  BY UrlOfSender DEF Holding, TypeOK
<1>2. queue[url[c]] # <<>> /\ Tail(queue[url[c]]) \in Seq(Caller)
  BY <1>1, HeadTailProperties DEF LockHeld, HoldsLock
<1>3. TypeOK'
  BY <1>1, <1>2, NoUrlAssumption DEF Ends, TypeOK, PC, MaxRequests
<1>4. LockHeld'
  <2>1. SUFFICES ASSUME NEW d \in Caller, Holding(d)' PROVE HoldsLock(d)'
    BY DEF LockHeld
  <2>2. d # c /\ Holding(d) /\ url'[d] = url[d]
    BY <2>1 DEF Ends, Holding, TypeOK
  <2>3. url[d] # url[c]
    BY <2>2, Exclusive
  <2>4. queue'[url[d]] = queue[url[d]]
    BY <2>2, <2>3, UrlOfSender DEF Ends, TypeOK, Holding
  <2>5. QED
    BY <2>2, <2>4 DEF LockHeld, HoldsLock
<1>5. RequestsLeft'
  BY DEF Ends, RequestsLeft, TypeOK
<1>6. OneTaken' /\ OneCopyPerSend'
  BY <1>1 DEF Ends, OneTaken, OneCopyPerSend, TypeOK, PC
<1>7. Paced'
  <2>1. SUFFICES ASSUME NEW d \in Caller, pc'[d] = "pace"
                 PROVE  timer'[d] + age'[url'[d]] >= MinInterval
    BY DEF Paced
  <2>2. d # c /\ pc[d] = "pace" /\ url'[d] = url[d] /\ timer'[d] = timer[d] /\ age' = age
    BY <2>1 DEF Ends, TypeOK
  <2>3. QED
    BY <2>2 DEF Paced
<1>8. QED
  BY <1>3, <1>4, <1>5, <1>6, <1>7

\* A sender that goes to its pacing sleep keeps its place.
LEMMA ThrottleInv ==
    ASSUME IInv, NEW c \in Caller, pc[c] \in {"lock", "cool"}, HoldsLock(c),
           requests[c] < MaxRequests, Throttle(c)
    PROVE  IInv'
<1> USE DEF IInv
<1>1. url[c] \in Url /\ age[url[c]] \in 0 .. MinInterval
  BY UrlOfSender
<1>2. MinInterval - age[url[c]] \in Nat
  BY <1>1, MinIntervalAssumption
<1>3. TypeOK'
  BY <1>1, <1>2 DEF Throttle, TypeOK, PC
<1>4. LockHeld'
  BY DEF Throttle, LockHeld, Holding, HoldsLock, TypeOK
<1>5. RequestsLeft'
  BY DEF Throttle, RequestsLeft, TypeOK
<1>6. OneTaken' /\ OneCopyPerSend'
  BY DEF Throttle, OneTaken, OneCopyPerSend, TypeOK
<1>7. Paced'
  <2>1. SUFFICES ASSUME NEW d \in Caller, pc'[d] = "pace"
                 PROVE  timer'[d] + age'[url'[d]] >= MinInterval
    BY DEF Paced
  <2>2. CASE d = c
    BY <1>1, <2>2, MinIntervalAssumption DEF Throttle, TypeOK
  <2>3. CASE d # c
    BY <2>1, <2>3 DEF Throttle, Paced, TypeOK
  <2>4. QED
    BY <2>2, <2>3
<1>8. QED
  BY <1>3, <1>4, <1>5, <1>6, <1>7

\* Every step of a send, and time, preserve the invariant.
LEMMA NextInv ==
    ASSUME IInv, [Next]_vars
    PROVE  IInv'
<1> USE DEF IInv
<1>0. \A c \in Caller : timer[c] \in Nat
  BY DEF TypeOK
<1>1. ASSUME NEW c \in Caller, SendBlank(c) PROVE IInv'
  <2>1. TypeOK' /\ LockHeld' /\ RequestsLeft' /\ Paced'
    BY <1>1 DEF SendBlank, TypeOK, Outcome, LockHeld, Holding, HoldsLock, RequestsLeft, Paced
  <2>2. OneTaken' /\ OneCopyPerSend'
    BY <1>1 DEF SendBlank, TypeOK, OneTaken, OneCopyPerSend
  <2>3. QED
    BY <2>1, <2>2
<1>2. ASSUME NEW c \in Caller, NEW u \in Url, Send(c, u) PROVE IInv'
  <2>1. queue[u] \in Seq(Caller)
    BY DEF TypeOK
  <2>2. TypeOK'
    BY <1>2, <2>1, JoinsAtEnd, NoUrlAssumption DEF Send, TypeOK, PC, Outcome, MaxRequests
  <2>3. LockHeld'
    <3>1. SUFFICES ASSUME NEW d \in Caller, Holding(d)' PROVE HoldsLock(d)'
      BY DEF LockHeld
    <3>2. d # c /\ Holding(d) /\ url'[d] = url[d]
      BY <1>2, <3>1 DEF Send, Holding, TypeOK
    <3>3. url[d] \in Url /\ queue[url[d]] # <<>> /\ Head(queue[url[d]]) = d
      BY <3>2, UrlOfSender DEF LockHeld, HoldsLock, Holding
    <3>4. queue'[url[d]] # <<>> /\ Head(queue'[url[d]]) = Head(queue[url[d]])
      BY <1>2, <2>1, <3>3, JoinsAtEnd DEF Send, TypeOK
    <3>5. QED
      BY <3>2, <3>3, <3>4 DEF HoldsLock
  <2>4. RequestsLeft' /\ OneTaken' /\ OneCopyPerSend'
    BY <1>2 DEF Send, TypeOK, RequestsLeft, OneTaken, OneCopyPerSend
  <2>5. Paced'
    BY <1>2 DEF Send, TypeOK, Paced
  <2>6. QED
    BY <2>2, <2>3, <2>4, <2>5
<1>3. ASSUME NEW c \in Caller, Acquire(c) PROVE IInv'
  BY <1>3, ThrottleInv DEF Acquire, RequestsLeft, MaxRequests
<1>4. ASSUME NEW c \in Caller, Post(c) PROVE IInv'
  <2>1. url[c] \in Url /\ Holding(c) /\ HoldsLock(c) /\ requests[c] < MaxRequests
    BY <1>4, UrlOfSender DEF Post, Holding, LockHeld, RequestsLeft
  <2>2. TypeOK'
    <3>1. requests[c] \in 0 .. MaxRequests
      BY DEF TypeOK
    <3>2. requests[c] + 1 \in 0 .. MaxRequests
      BY <2>1, <3>1 DEF MaxRequests
    <3>3. requests' \in [Caller -> 0 .. MaxRequests]
      BY <1>4, <3>2 DEF Post, TypeOK
    <3>4. age' \in [Url -> 0 .. MinInterval]
      BY <1>4, <2>1, MinIntervalAssumption DEF Post, TypeOK
    <3>5. QED
      BY <1>4, <3>3, <3>4 DEF Post, TypeOK, PC
  <2>3. LockHeld'
    BY <1>4 DEF Post, TypeOK, LockHeld, Holding, HoldsLock
  <2>4. RequestsLeft' /\ OneTaken' /\ OneCopyPerSend'
    BY <1>4 DEF Post, TypeOK, RequestsLeft, OneTaken, OneCopyPerSend
  <2>5. Paced'
    <3>1. SUFFICES ASSUME NEW d \in Caller, pc'[d] = "pace"
                   PROVE  timer'[d] + age'[url'[d]] >= MinInterval
      BY DEF Paced
    <3>2. d # c /\ pc[d] = "pace" /\ url[d] \in Url
      BY <1>4, <3>1, UrlOfSender DEF Post, TypeOK
    <3>3. url[d] # url[c]
      BY <2>1, <3>2, Exclusive DEF Holding
    <3>4. QED
      BY <1>4, <3>2, <3>3 DEF Post, Paced, TypeOK
  <2>6. QED
    BY <2>2, <2>3, <2>4, <2>5
<1>5. ASSUME NEW c \in Caller, Take(c) PROVE IInv'
  <2>1. TypeOK' /\ LockHeld' /\ RequestsLeft'
    BY <1>5 DEF Take, TypeOK, PC, MaxRequests, LockHeld, Holding, HoldsLock, RequestsLeft, OneTaken
  <2>2. OneTaken' /\ OneCopyPerSend'
    BY <1>5 DEF Take, TypeOK, OneTaken, OneCopyPerSend
  <2>3. Paced'
    BY <1>5 DEF Take, TypeOK, Paced
  <2>4. QED
    BY <2>1, <2>2, <2>3
<1>6. ASSUME NEW c \in Caller,
             Success(c) \/ RequestFails(c) \/ Rejected(c) \/ RateLimitedUnreadably(c)
      PROVE  IInv'
  BY <1>6, EndsInv DEF Success, RequestFails, Rejected, RateLimitedUnreadably, Holding, Outcome
<1>7. ASSUME NEW c \in Caller, RateLimited(c) PROVE IInv'
  <2>1. TypeOK' /\ LockHeld' /\ RequestsLeft'
    BY <1>7, CooldownsAssumption
    DEF RateLimited, TypeOK, PC, LockHeld, Holding, HoldsLock, RequestsLeft
  <2>2. OneTaken' /\ OneCopyPerSend'
    BY <1>7 DEF RateLimited, TypeOK, OneTaken, OneCopyPerSend
  <2>3. Paced'
    BY <1>7 DEF RateLimited, TypeOK, Paced
  <2>4. QED
    BY <2>1, <2>2, <2>3
<1>8. ASSUME NEW c \in Caller, Cooled(c) PROVE IInv'
  <2>1. Holding(c) /\ HoldsLock(c)
    BY <1>8 DEF Cooled, Holding, LockHeld
  <2>2. CASE requests[c] < MaxRequests /\ Throttle(c)
    BY <1>8, <2>1, <2>2, ThrottleInv DEF Cooled
  <2>3. CASE Ends(c, "retryable")
    BY <2>1, <2>3, EndsInv DEF Outcome
  <2>4. QED
    BY <1>8, <2>2, <2>3 DEF Cooled
<1>9. ASSUME Tick PROVE IInv'
  <2>1. TypeOK'
    BY <1>9, MinIntervalAssumption DEF Tick, TypeOK
  <2>2. LockHeld' /\ RequestsLeft' /\ OneTaken' /\ OneCopyPerSend'
    BY <1>9 DEF Tick, LockHeld, Holding, HoldsLock, RequestsLeft, OneTaken, OneCopyPerSend
  <2>3. Paced'
    <3>1. SUFFICES ASSUME NEW c \in Caller, pc[c] = "pace"
                   PROVE  timer'[c] + age'[url[c]] >= MinInterval
      BY <1>9 DEF Tick, Paced
    <3>2. /\ url[c] \in Url /\ age[url[c]] \in 0 .. MinInterval /\ timer[c] \in Nat
          /\ timer[c] + age[url[c]] >= MinInterval
      BY <1>0, <3>1, UrlOfSender DEF Paced
    <3>3. /\ timer'[c] = IF timer[c] > 0 THEN timer[c] - 1 ELSE 0
          /\ age'[url[c]] = IF age[url[c]] < MinInterval THEN age[url[c]] + 1 ELSE age[url[c]]
      BY <1>9, <3>2 DEF Tick
    <3>4. QED
      BY <3>2, <3>3, MinIntervalAssumption
  <2>4. QED
    BY <2>1, <2>2, <2>3
<1>10. ASSUME UNCHANGED vars PROVE IInv'
  BY <1>10 DEF vars, TypeOK, LockHeld, Holding, HoldsLock, RequestsLeft, OneTaken, Paced,
               OneCopyPerSend
<1>11. QED
  BY <1>1, <1>2, <1>3, <1>4, <1>5, <1>6, <1>7, <1>8, <1>9, <1>10 DEF Next, Answered

\* The invariant holds in every reachable state.
LEMMA Invariance == Spec => []IInv
<1>1. Init => IInv
  BY InitInv
<1>2. IInv /\ [Next]_vars => IInv'
  BY NextInv
<1>3. QED
  BY <1>1, <1>2, PTL DEF Spec

-----------------------------------------------------------------------------
(* What the invariant gives. *)

\* A send makes at most three requests, and its state keeps its shape.
THEOREM SendsTyped == Spec => []TypeOK
<1>1. IInv => TypeOK
  BY DEF IInv
<1>2. QED
  BY <1>1, Invariance, PTL

\* The lock keeps requests, pacing and cooldowns of one webhook apart.
THEOREM Exclusion == Spec => []OneAtATime
<1>1. ASSUME IInv PROVE OneAtATime
  <2>1. SUFFICES ASSUME NEW c \in Caller, NEW d \in Caller, c # d, url[c] = url[d], Holding(c)
                 PROVE  pc[d] \in {"idle", "lock"}
    BY DEF OneAtATime, Holding
  <2>2. ~Holding(d)
    BY <1>1, <2>1, Exclusive DEF IInv
  <2>3. QED
    BY <1>1, <2>2 DEF IInv, TypeOK, PC, Holding
<1>2. QED
  BY <1>1, Invariance, PTL

\* Repeated requests never make a second copy, and a send reports its copy.
THEOREM AtMostOneCopy == Spec => []OneCopyPerSend
<1>1. IInv => OneCopyPerSend
  BY DEF IInv
<1>2. QED
  BY <1>1, Invariance, PTL

\* The gap between two requests to one webhook is at least the interval.
THEOREM PacingHolds == Spec => MinIntervalKept
<1>1. ASSUME IInv, [Next]_vars, NEW c \in Caller, pc[c] = "pace", pc'[c] = "request"
      PROVE  age[url[c]] >= MinInterval
  <2>1. Post(c)
    BY <1>1 DEF IInv, TypeOK, Next, vars, SendBlank, Send, Acquire, Throttle, Post, Take,
                Answered, Success, RequestFails, Rejected, RateLimited,
                RateLimitedUnreadably, Cooled, Ends, Tick
  <2>2. url[c] \in Url /\ age[url[c]] \in 0 .. MinInterval
    BY <1>1, UrlOfSender DEF IInv
  <2>3. timer[c] = 0 /\ timer[c] + age[url[c]] >= MinInterval
    BY <1>1, <2>1 DEF IInv, Post, Paced
  <2>4. QED
    BY <2>2, <2>3, MinIntervalAssumption
<1>2. IInv /\ [Next]_vars =>
         [\A c \in Caller :
             pc[c] = "pace" /\ pc'[c] = "request" => age[url[c]] >= MinInterval]_vars
  BY <1>1
<1>3. QED
  BY <1>2, Invariance, PTL DEF Spec, MinIntervalKept

-----------------------------------------------------------------------------
(* The forwarder implements WebhookSend. *)

\* A step of a send is one of WebhookSend, or none of its business.
LEMMA SendStep ==
    ASSUME IInv, [Next]_vars
    PROVE  [S!Next]_(S!vars)
<1> USE DEF IInv
<1>0. pc \in [Caller -> PC] /\ outcome \in [Caller -> Outcome]
  BY DEF TypeOK
<1>a. ASSUME NEW c \in Caller, NEW result, Ends(c, result)
      PROVE  Stage' = [Stage EXCEPT ![c] = "idle"] /\ outcome' = [outcome EXCEPT ![c] = result]
  BY <1>0, <1>a DEF Ends, Stage
<1>b. ASSUME NEW c \in Caller, NEW p \in {"lock", "pace", "request", "cool"},
             pc[c] \in {"lock", "pace", "request", "cool"},
             pc' = [pc EXCEPT ![c] = p], outcome' = outcome
      PROVE  UNCHANGED S!vars
  <2>1. Stage' = Stage
    BY <1>0, <1>b DEF Stage
  <2>2. QED
    BY <1>b, <2>1 DEF S!vars
<1>1. ASSUME NEW c \in Caller, SendBlank(c) PROVE S!Next
  <2>1. Stage[c] = "idle" /\ Stage' = [Stage EXCEPT ![c] = "idle"]
    BY <1>0, <1>1 DEF SendBlank, Stage
  <2>2. S!Return(c, "blank")
    BY <1>1, <2>1 DEF SendBlank, S!Return
  <2>3. QED
    BY <2>2 DEF S!Next
<1>2. ASSUME NEW c \in Caller, NEW u \in Url, Send(c, u) PROVE S!Next
  <2>1. Stage[c] = "idle" /\ Stage' = [Stage EXCEPT ![c] = "send"]
    BY <1>0, <1>2 DEF Send, Stage
  <2>2. S!Begin(c)
    BY <1>2, <2>1 DEF Send, S!Begin
  <2>3. QED
    BY <2>2 DEF S!Next
<1>3. ASSUME NEW c \in Caller, Acquire(c) \/ Post(c) \/ RateLimited(c) PROVE UNCHANGED S!vars
  BY <1>3, <1>b DEF Acquire, Throttle, Post, RateLimited
<1>4. ASSUME NEW c \in Caller, Take(c) PROVE S!Next
  <2>1. Stage[c] = "send" /\ Stage' = [Stage EXCEPT ![c] = "accepted"]
    BY <1>0, <1>4 DEF Take, Stage
  <2>2. S!Accept(c)
    BY <1>4, <2>1 DEF Take, S!Accept
  <2>3. QED
    BY <2>2 DEF S!Next
<1>5. ASSUME NEW c \in Caller, NEW result \in {"sent", "retryable", "permanent", "raised"},
             Ends(c, result),
             \/ pc[c] = "taken" /\ result \in {"sent", "retryable"}
             \/ pc[c] \in {"request", "cool"} /\ result \in {"retryable", "permanent", "raised"}
      PROVE  S!Next
  <2>1. \/ Stage[c] = "accepted" /\ result \in {"sent", "retryable"}
        \/ Stage[c] = "send" /\ result \in {"retryable", "permanent", "raised"}
    BY <1>5 DEF Stage
  <2>2. S!Return(c, result)
    BY <1>5, <1>a, <2>1 DEF S!Return
  <2>3. QED
    BY <2>2 DEF S!Next
<1>6. ASSUME NEW c \in Caller,
             Success(c) \/ RequestFails(c) \/ Rejected(c) \/ RateLimitedUnreadably(c)
      PROVE  S!Next
  BY <1>5, <1>6 DEF Success, RequestFails, Rejected, RateLimitedUnreadably
<1>7. ASSUME NEW c \in Caller, Cooled(c) PROVE S!Next \/ UNCHANGED S!vars
  BY <1>5, <1>7, <1>b DEF Cooled, Throttle
<1>8. ASSUME Tick \/ UNCHANGED vars PROVE UNCHANGED S!vars
  BY <1>8 DEF Tick, vars, Stage, S!vars
<1>9. QED
  BY <1>1, <1>2, <1>3, <1>4, <1>6, <1>7, <1>8 DEF Next, Answered

\* A send with its lock, pacing, cooldowns and repetitions is the send that the
\* pipeline relies on.
THEOREM SendImplements == Spec => ImplementsSend
<1>1. Init => S!Init
  BY DEF Init, S!Init, Stage
<1>2. IInv /\ [Next]_vars => [S!Next]_(S!vars)
  BY SendStep
<1>3. QED
  BY <1>1, <1>2, Invariance, PTL DEF Spec, ImplementsSend, S!Spec
=============================================================================
