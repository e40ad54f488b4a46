---------------------------- MODULE IngressProofs ----------------------------
(***************************************************************************)
(* For any requests, transactions, subscriptions, rates, lengths of month  *)
(* and day, and delays: the types, how old the data is that a verdict is   *)
(* made on, and when a subscription is free.                               *)
(***************************************************************************)
EXTENDS Ingress, TLAPS

Request ==
  [stage : Stages, kind : Kinds \cup {None}, tx : Txs \cup {None}, data : Data \cup {None},
   readAt : Nat \cup {None}, at : Nat \cup {None}, answer : Answers \cup {None}]

Entry == [data : Data, readAt : Nat, expire : Nat]

\* The time s is on the last day of the month of the time t.
OnTheLastDay(s, t) == s > t - (t % MonthLength) /\ s % MonthLength >= MonthLength - DayLength

\* What holds of a request at time t, by its stage.
RequestOK(q, t) ==
  /\ q.stage = "answered" => q.answer \in Answers
  /\ q.stage \in {"handling", "pool"} => q.tx \in Txs
  /\ q.stage = "pool" => q.tx \notin BadVersion
  /\ q.stage \in Accepted => q.tx \in Txs \ (BadVersion \cup BadAddress)
  /\ q.stage \in {"called", "valid"} => q.data \in Data /\ q.readAt \in 0..t
  /\ q.stage = "called" => t <= q.readAt + MaxDelay
  /\ q.stage = "valid" => /\ q.at \in q.readAt..t
                          /\ q.at <= q.readAt + CacheTimeout + MaxDelay
                          /\ q.data.tokens = 0 => OnTheLastDay(q.data.startTime, q.at)

\* An entry was cached while the delay of its call was not over.
EntryOK(e, t) ==
  e # None => /\ e.readAt \in 0..t
              /\ e.expire \in e.readAt + CacheTimeout..t + CacheTimeout
              /\ e.expire <= e.readAt + CacheTimeout + MaxDelay

IInv ==
  /\ now \in 0..MaxTime /\ listening \in BOOLEAN
  /\ billing \in [Keys -> Data]
  /\ cache \in [Keys -> Entry \cup {None}] /\ \A k \in Keys : EntryOK(cache[k], now)
  /\ req \in [Requests -> Request] /\ \A r \in Requests : RequestOK(req[r], now)
  /\ pending \subseteq Txs \ (BadVersion \cup BadAddress)

-----------------------------------------------------------------------------
(***************************************************************************)
(* The records that the actions make.                                      *)
(***************************************************************************)
Rec(s, k, x, d, ra, at, an) ==
  [stage |-> s, kind |-> k, tx |-> x, data |-> d, readAt |-> ra, at |-> at, answer |-> an]

(* A record of parts of the right types is a request.                      *)
LEMMA RecType ==
  ASSUME NEW s \in Stages, NEW k \in Kinds \cup {None}, NEW x \in Txs \cup {None},
         NEW d \in Data \cup {None}, NEW ra \in Nat \cup {None}, NEW at \in Nat \cup {None},
         NEW an \in Answers \cup {None}
  PROVE  Rec(s, k, x, d, ra, at, an) \in Request
BY DEF Rec, Request

\* One request is replaced.
Replaced(r, q) == req' = [req EXCEPT ![r] = q]

(* A request that has just come in, or was stored.                         *)
LEMMA Fresh ==
  ASSUME NEW s, NEW k, NEW x
  PROVE  [NewRequest EXCEPT !.stage = s, !.kind = k, !.tx = x]
           = Rec(s, k, x, None, None, None, None)
<1> DEFINE a == Rec(s, None, None, None, None, None, None)
           b == Rec(s, k, None, None, None, None, None)
<1>1. [NewRequest EXCEPT !.stage = s] = a
  BY DEF NewRequest, Rec
<1>2. [a EXCEPT !.kind = k] = b
  BY DEF Rec
<1>3. [b EXCEPT !.tx = x] = Rec(s, k, x, None, None, None, None)
  BY DEF Rec
<1> HIDE DEF a, b
<1> QED
  BY <1>1, <1>2, <1>3

(* An answered request carries nothing that an invariant is about.         *)
LEMMA Answered ==
  ASSUME NEW r \in Requests, NEW a \in Answers, Answer(r, a)
  PROVE  \E q \in Request : Replaced(r, q) /\ \A t : RequestOK(q, t)
<1> DEFINE b == Rec("answered", None, None, None, None, None, None)
           q == Rec("answered", None, None, None, None, None, a)
<1>1. [NewRequest EXCEPT !.stage = "answered"] = b
  BY DEF NewRequest, Rec
<1>2. [b EXCEPT !.answer = a] = q
  BY DEF Rec
<1> HIDE DEF b
<1>3. [NewRequest EXCEPT !.stage = "answered", !.answer = a] = q
  BY <1>1, <1>2
<1>4. q \in Request
  BY RecType DEF Stages
<1>5. \A t : RequestOK(q, t)
  BY DEF RequestOK, Rec, Accepted
<1> QED
  BY <1>3, <1>4, <1>5 DEF Answer, Replaced

(* A request that moves on keeps what it has got.                          *)
LEMMA Moved ==
  ASSUME req \in [Requests -> Request], NEW r \in Requests, NEW s \in Stages, GoTo(r, s)
  PROVE  Replaced(r, Rec(s, req[r].kind, req[r].tx, req[r].data, req[r].readAt, req[r].at,
                         req[r].answer))
<1>1. [req[r] EXCEPT !.stage = s]
        = Rec(s, req[r].kind, req[r].tx, req[r].data, req[r].readAt, req[r].at, req[r].answer)
  BY DEF Request, Rec
<1>2. [req EXCEPT ![r].stage = s] = [req EXCEPT ![r] = [req[r] EXCEPT !.stage = s]]
  OBVIOUS
<1> QED
  BY <1>1, <1>2 DEF GoTo, Replaced

(* The contract's answer is noted; the verdict on it is noted too.         *)
LEMMA Called ==
  ASSUME NEW q \in Request, NEW s, NEW d, NEW t
  PROVE  [q EXCEPT !.stage = s, !.data = d, !.readAt = t]
           = Rec(s, q.kind, q.tx, d, t, q.at, q.answer)
<1> DEFINE a == Rec(s, q.kind, q.tx, q.data, q.readAt, q.at, q.answer)
           b == Rec(s, q.kind, q.tx, d, q.readAt, q.at, q.answer)
<1>1. [q EXCEPT !.stage = s] = a
  BY DEF Request, Rec
<1>2. [a EXCEPT !.data = d] = b
  BY DEF Rec
<1>3. [b EXCEPT !.readAt = t] = Rec(s, q.kind, q.tx, d, t, q.at, q.answer)
  BY DEF Rec
<1> HIDE DEF a, b
<1> QED
  BY <1>1, <1>2, <1>3

(* The contract's answer is noted together with the time of the verdict.   *)
LEMMA Valid ==
  ASSUME NEW q \in Request, NEW s, NEW d, NEW t, NEW u
  PROVE  [q EXCEPT !.stage = s, !.data = d, !.readAt = t, !.at = u]
           = Rec(s, q.kind, q.tx, d, t, u, q.answer)
<1> DEFINE a == Rec(s, q.kind, q.tx, d, t, q.at, q.answer)
<1>1. [q EXCEPT !.stage = s, !.data = d, !.readAt = t] = a
  BY Called
<1>2. [a EXCEPT !.at = u] = Rec(s, q.kind, q.tx, d, t, u, q.answer)
  BY DEF Rec
<1> HIDE DEF a
<1> QED
  BY <1>1, <1>2

-----------------------------------------------------------------------------
(***************************************************************************)
(* The price.                                                              *)
(***************************************************************************)
(* A time of the month of t, but before t, has the remainder it is after   *)
(* the beginning of the month.                                             *)
LEMMA SameMonth ==
  ASSUME NEW t \in Nat, NEW s \in Nat, NEW m \in Nat \ {0}, s <= t, s >= t - (t % m)
  PROVE  s % m = s - (t - (t % m))
BY Z3

(* With no tokens the fee must not be positive: the start is on the last day.*)
LEMMA FreeOnTheLastDay ==
  ASSUME now \in Nat, NEW d \in Data, IsValid(d), d.tokens = 0
  PROVE  OnTheLastDay(d.startTime, now)
<1>1. MonthLength \in Nat \ {0} /\ DayLength \in Nat /\ MonthLength - DayLength \in Nat
  BY IngressAssumption
<1>2. d.startTime \in Nat /\ d.startTime < now
  BY IngressAssumption DEF IsValid
<1>3. PICK rate \in Nat \ {0} : PaysFee(d, rate)
  BY IngressAssumption DEF IsValid, IsInForce, nonExpiredRates
<1>4. beginningOfThisMonth \in Int /\ endOfThisMonth = beginningOfThisMonth + MonthLength - DayLength
  BY <1>1 DEF beginningOfThisMonth, endOfThisMonth
<1>5. /\ d.startTime > beginningOfThisMonth
      /\ 0 >= rate * (endOfThisMonth - d.startTime)
  BY <1>1, <1>2, <1>3, <1>4 DEF PaysFee
<1>6. d.startTime >= endOfThisMonth
  <2> DEFINE e == endOfThisMonth - d.startTime
  <2>1. e \in Int /\ 0 >= rate * e
    BY <1>1, <1>2, <1>4, <1>5
  <2> HIDE DEF e
  <2>2. e <= 0
    BY <2>1
  <2> QED
    BY <1>1, <1>2, <1>4, <2>2 DEF e
<1>7. d.startTime % MonthLength = d.startTime - beginningOfThisMonth
  <2>1. now \in Nat /\ d.startTime <= now /\ d.startTime >= now - (now % MonthLength)
    BY <1>1, <1>2, <1>4, <1>5 DEF beginningOfThisMonth
  <2>2. d.startTime % MonthLength = d.startTime - (now - (now % MonthLength))
    BY <1>1, <1>2, <2>1, SameMonth, Zenon
  <2> QED
    BY <2>2 DEF beginningOfThisMonth
<1> QED
  BY <1>1, <1>2, <1>4, <1>5, <1>6, <1>7 DEF OnTheLastDay, beginningOfThisMonth

(* Data that was read no longer ago than the cache and a call allow gives  *)
(* a verdict that is as good.                                              *)
LEMMA Judged ==
  ASSUME IInv, NEW r \in Requests, NEW d \in Data, NEW ra \in 0..now,
         req[r].tx \in Txs \ (BadVersion \cup BadAddress),
         now <= ra + CacheTimeout + MaxDelay, Judge(r, d, ra)
  PROVE  \E q \in Request : Replaced(r, q) /\ RequestOK(q, now)
<1>1. CASE IsValid(d)
  <2> DEFINE q == Rec("valid", req[r].kind, req[r].tx, d, ra, now, req[r].answer)
  <2>1. now \in Nat /\ ra \in Nat /\ req[r] \in Request
    BY IngressAssumption DEF IInv
  <2>2. [req[r] EXCEPT !.stage = "valid", !.data = d, !.readAt = ra, !.at = now] = q
    BY <2>1, Valid
  <2>3. Replaced(r, q)
    <3> HIDE DEF q
    <3> QED BY <1>1, <2>2 DEF Judge, Replaced
  <2>4. q \in Request
    <3>1. /\ req[r].kind \in Kinds \cup {None} /\ req[r].tx \in Txs \cup {None}
          /\ req[r].answer \in Answers \cup {None} /\ "valid" \in Stages
      BY <2>1 DEF Request, Stages
    <3> QED BY <2>1, <3>1, RecType
  <2>5. d.tokens = 0 => OnTheLastDay(d.startTime, now)
    BY <1>1, <2>1, FreeOnTheLastDay
  <2>6. RequestOK(q, now)
    BY <2>1, <2>5 DEF RequestOK, Rec
  <2> QED
    BY <2>3, <2>4, <2>6
<1>2. CASE ~ IsValid(d)
  BY <1>2, Answered DEF Judge, Answers
<1> QED
  BY <1>1, <1>2

-----------------------------------------------------------------------------
(***************************************************************************)
(* The steps.                                                              *)
(***************************************************************************)
LEMMA IInvInit == Init => IInv
<1> SUFFICES ASSUME Init PROVE IInv
  OBVIOUS
<1>1. NewRequest \in Request
  BY DEF NewRequest, Request, Stages
<1>2. RequestOK(NewRequest, 0)
  BY DEF NewRequest, RequestOK, Accepted
<1> QED
  <2>1. \A k \in Keys : cache[k] = None
    BY DEF Init
  <2>2. now = 0 /\ 0 \in 0..MaxTime /\ billing \in [Keys -> Data]
    BY IngressAssumption DEF Init
  <2>3. req \in [Requests -> Request] /\ \A r \in Requests : RequestOK(req[r], now)
    BY <1>1, <1>2 DEF Init
  <2> QED
    BY <2>1, <2>2, <2>3 DEF Init, IInv, EntryOK

\* What is left of the invariant when one request is replaced.
Rest ==
  /\ now \in 0..MaxTime /\ listening \in BOOLEAN
  /\ billing \in [Keys -> Data]
  /\ cache \in [Keys -> Entry \cup {None}] /\ \A k \in Keys : EntryOK(cache[k], now)
  /\ pending \subseteq Txs \ (BadVersion \cup BadAddress)

(* A step that replaces one request needs to be checked for that one only. *)
LEMMA StepOfOne ==
  ASSUME IInv, NEW r \in Requests, NEW q \in Request, Replaced(r, q), RequestOK(q, now),
         now' = now, Rest'
  PROVE  IInv'
<1>1. req' \in [Requests -> Request]
  BY DEF IInv, Replaced
<1>2. \A p \in Requests : req'[p] = IF p = r THEN q ELSE req[p]
  BY DEF IInv, Replaced
<1>3. \A p \in Requests : RequestOK(req'[p], now')
  BY <1>2 DEF IInv
<1> QED
  BY <1>1, <1>3 DEF IInv, Rest

(* The steps that only begin, answer or move a request.                    *)
LEMMA RequestStep ==
  ASSUME IInv, NEW r \in Requests, UNCHANGED <<now, listening, billing, cache, pending>>
  PROVE  /\ \A kind \in Kinds \cup {None}, tx \in Txs \cup {None},
              s \in {"handling", "running", "hung"} :
              (s = "handling" => tx \in Txs) /\ Begin(r, kind, tx, s) => IInv'
         /\ \A a \in Answers : Answer(r, a) => IInv'
         /\ \A s \in {"pool", "subscription", "ethereum"} :
              /\ req[r].tx \in Txs \ BadVersion
              /\ s \in Accepted => req[r].tx \notin BadAddress
              /\ GoTo(r, s)
              => IInv'
<1>1. Rest'
  BY DEF IInv, Rest
<1>2. ASSUME NEW kind \in Kinds \cup {None}, NEW tx \in Txs \cup {None},
             NEW s \in {"handling", "running", "hung"}, s = "handling" => tx \in Txs,
             Begin(r, kind, tx, s)
      PROVE  IInv'
  <2> DEFINE q == Rec(s, kind, tx, None, None, None, None)
  <2>1. Replaced(r, q)
    <3>1. [NewRequest EXCEPT !.stage = s, !.kind = kind, !.tx = tx] = q
      BY Fresh
    <3> HIDE DEF q
    <3> QED BY <1>2, <3>1 DEF Begin, Replaced
  <2>2. q \in Request
    BY RecType DEF Stages
  <2>3. RequestOK(q, now)
    BY <1>2 DEF RequestOK, Rec, Accepted
  <2> HIDE DEF q
  <2> QED
    BY <1>1, <2>1, <2>2, <2>3, StepOfOne
<1>3. ASSUME NEW a \in Answers, Answer(r, a)
      PROVE  IInv'
  BY <1>1, <1>3, Answered, StepOfOne
<1>4. ASSUME NEW s \in {"pool", "subscription", "ethereum"}, req[r].tx \in Txs \ BadVersion,
             s \in Accepted => req[r].tx \notin BadAddress, GoTo(r, s)
      PROVE  IInv'
  <2> DEFINE q == Rec(s, req[r].kind, req[r].tx, req[r].data, req[r].readAt, req[r].at,
                      req[r].answer)
  <2>1. req \in [Requests -> Request] /\ req[r] \in Request /\ s \in Stages
    BY DEF IInv, Stages
  <2>2. Replaced(r, q)
    BY <1>4, <2>1, Moved
  <2>3. q \in Request
    BY <2>1 DEF Request, Rec
  <2>4. RequestOK(q, now)
    BY <1>4 DEF RequestOK, Rec, Accepted
  <2> HIDE DEF q
  <2> QED
    BY <1>1, <2>2, <2>3, <2>4, StepOfOne
<1> QED
  BY <1>2, <1>3, <1>4

(* Every action keeps the invariant.                                       *)
LEMMA IInvStep == IInv /\ [Next]_vars => IInv'
<1> SUFFICES ASSUME IInv, [Next]_vars PROVE IInv'
  OBVIOUS
<1>0. /\ \A r \in Requests : RequestOK(req[r], now)
      /\ now \in Nat /\ MaxTime \in Nat /\ CacheTimeout \in Nat /\ MaxDelay \in Nat
      /\ req \in [Requests -> Request]
  BY IngressAssumption DEF IInv
<1>1. CASE \E r \in Requests : \/ sendTransactionHandler(r) \/ callContractHandler(r)
                              \/ getTransactionStatusHandler(r) \/ startupCheckHandler(r)
                              \/ HandlerThrows(r)
  <2> PICK r \in Requests : \E kind \in Kinds \cup {None}, tx \in Txs \cup {None},
                               s \in {"handling", "running", "hung"} :
                              (s = "handling" => tx \in Txs) /\ Begin(r, kind, tx, s)
    BY <1>1 DEF sendTransactionHandler, callContractHandler, getTransactionStatusHandler,
       startupCheckHandler, HandlerThrows, Kinds
  <2>1. UNCHANGED <<now, listening, billing, cache, pending>>
    BY DEF Begin
  <2> QED
    BY <2>1, RequestStep
<1>2. CASE \E r \in Requests : \/ Fail(r) \/ callContract(r) \/ getTransactionStatus(r)
                              \/ run(r) \/ broadcastTransactionToOtherNodes(r)
  <2> PICK r \in Requests : \E a \in Answers : Answer(r, a)
                              /\ UNCHANGED <<now, listening, billing, cache, pending>>
    BY <1>2 DEF Fail, callContract, getTransactionStatus, run,
       broadcastTransactionToOtherNodes, Answers
  <2> QED
    BY RequestStep
<1>3. CASE \E r \in Requests : handle(r) \/ validate(r)
  <2> PICK r \in Requests : handle(r) \/ validate(r)
    BY <1>3
  <2>1. RequestOK(req[r], now) /\ UNCHANGED <<now, listening, billing, cache, pending>>
    BY <1>0 DEF handle, validate
  <2>2. CASE handle(r)
    <3>1. req[r].tx \in Txs \ BadVersion /\ GoTo(r, "pool") /\ "pool" \notin Accepted
      BY <2>1, <2>2 DEF handle, AtStage, RequestOK, Accepted
    <3> QED
      BY <2>1, <3>1, RequestStep
  <2>3. CASE validate(r)
    <3>1. req[r].tx \in Txs \ BadVersion /\ req[r].tx \notin BadAddress
          /\ GoTo(r, "subscription")
      BY <2>1, <2>3 DEF validate, AtStage, RequestOK
    <3> QED
      BY <2>1, <3>1, RequestStep
  <2> QED
    BY <2>2, <2>3
<1>4. CASE \E r \in Requests : storePendingTransaction(r)
  <2> PICK r \in Requests : storePendingTransaction(r)
    BY <1>4
  <2> DEFINE q == Rec("stored", "send", req[r].tx, None, None, None, None)
  <2>1. req[r].tx \in Txs \ (BadVersion \cup BadAddress)
    BY <1>0 DEF storePendingTransaction, AtStage, RequestOK, Accepted
  <2>2. [NewRequest EXCEPT !.stage = "stored", !.kind = "send", !.tx = req[r].tx] = q
    BY Fresh
  <2>3. q \in Request
    BY <2>1, RecType DEF Stages, Kinds
  <2>4. RequestOK(q, now)
    BY <2>1 DEF RequestOK, Rec
  <2> HIDE DEF q
  <2>5. Replaced(r, q)
    BY <2>2 DEF storePendingTransaction, Replaced
  <2>6. now' = now /\ Rest'
    BY <2>1 DEF storePendingTransaction, Rest, IInv
  <2> QED
    BY <2>3, <2>4, <2>5, <2>6, StepOfOne
<1>5. CASE \E r \in Requests : isSubscriptionValid(r)
  <2> PICK r \in Requests : isSubscriptionValid(r)
    BY <1>5
  <2> DEFINE k == Key[req[r].tx]
  <2>1. /\ req[r].tx \in Txs \ (BadVersion \cup BadAddress) /\ k \in Keys
        /\ UNCHANGED <<now, listening, billing, cache, pending>>
    BY <1>0, IngressAssumption DEF isSubscriptionValid, AtStage, RequestOK, Accepted
  <2>2. CASE Cached(k)
    <3>1. /\ cache[k] \in Entry /\ cache[k].readAt \in 0..now
          /\ now <= cache[k].expire
          /\ cache[k].expire <= cache[k].readAt + CacheTimeout + MaxDelay
      BY <2>1, <2>2 DEF Cached, IInv, EntryOK
    <3>2. /\ cache[k].data \in Data /\ now <= cache[k].readAt + CacheTimeout + MaxDelay
          /\ Judge(r, cache[k].data, cache[k].readAt)
      BY <1>0, <2>2, <3>1 DEF Entry, isSubscriptionValid
    <3>3. PICK q \in Request : Replaced(r, q) /\ RequestOK(q, now)
      BY <2>1, <3>1, <3>2, Judged
    <3>4. Rest'
      BY <2>1 DEF Rest, IInv
    <3> QED
      BY <2>1, <3>3, <3>4, StepOfOne
  <2>3. CASE ~ Cached(k)
    <3>1. GoTo(r, "ethereum")
      BY <2>3 DEF isSubscriptionValid
    <3> QED
      BY <2>1, <3>1, RequestStep
  <2> QED
    BY <2>2, <2>3
<1>6. CASE \E r \in Requests : callEthereumContract(r)
  <2> PICK r \in Requests : callEthereumContract(r)
    BY <1>6
  <2> DEFINE d == billing[Key[req[r].tx]]
             q == Rec("called", req[r].kind, req[r].tx, d, now, req[r].at, req[r].answer)
  <2>1. /\ req[r].tx \in Txs \ (BadVersion \cup BadAddress) /\ req[r] \in Request
        /\ UNCHANGED <<now, listening, billing, cache, pending>>
    BY <1>0 DEF callEthereumContract, AtStage, RequestOK, Accepted
  <2>2. d \in Data
    BY <2>1, IngressAssumption DEF IInv
  <2>3. [req[r] EXCEPT !.stage = "called", !.data = d, !.readAt = now] = q
    BY <2>1, Called
  <2>4. q \in Request
    <3>1. /\ req[r].kind \in Kinds \cup {None} /\ req[r].at \in Nat \cup {None}
          /\ req[r].answer \in Answers \cup {None} /\ "called" \in Stages
      BY <2>1 DEF Request, Stages
    <3> HIDE DEF d
    <3> QED
      BY <1>0, <2>1, <2>2, <3>1, RecType
  <2>5. RequestOK(q, now)
    BY <1>0, <2>1, <2>2 DEF RequestOK, Rec
  <2>6. req' = [req EXCEPT ![r] = [req[r] EXCEPT !.stage = "called", !.data = d, !.readAt = now]]
    BY DEF callEthereumContract, LatestBlock
  <2> HIDE DEF q
  <2>7. Replaced(r, q) /\ Rest'
    BY <2>1, <2>3, <2>6 DEF Replaced, Rest, IInv
  <2> QED
    BY <2>1, <2>4, <2>5, <2>7, StepOfOne
<1>7. CASE \E r \in Requests : getSubscriptionData(r)
  <2> PICK r \in Requests : getSubscriptionData(r)
    BY <1>7
  <2> DEFINE k == Key[req[r].tx]
             e == [data |-> req[r].data, readAt |-> req[r].readAt, expire |-> now + CacheTimeout]
  <2>1. /\ req[r].tx \in Txs \ (BadVersion \cup BadAddress)
        /\ req[r].data \in Data /\ req[r].readAt \in 0..now
        /\ now <= req[r].readAt + MaxDelay
    BY <1>0 DEF getSubscriptionData, AtStage, RequestOK, Accepted
  <2>2. now <= req[r].readAt + CacheTimeout + MaxDelay
    BY <1>0, <2>1
  <2>3. PICK q \in Request : Replaced(r, q) /\ RequestOK(q, now)
    BY <2>1, <2>2, Judged DEF getSubscriptionData
  <2>4. e \in Entry /\ EntryOK(e, now)
    BY <1>0, <2>1 DEF Entry, EntryOK
  <2> HIDE DEF e
  <2>5. cache' = [cache EXCEPT ![k] = e]
    BY DEF getSubscriptionData, e
  <2>6. /\ cache' \in [Keys -> Entry \cup {None}]
        /\ \A x \in Keys : EntryOK(cache'[x], now)
    BY <2>4, <2>5 DEF IInv
  <2>7. now' = now /\ Rest'
    BY <2>6 DEF Rest, IInv, getSubscriptionData
  <2> QED
    BY <2>3, <2>7, StepOfOne
<1>8. CASE Tick
  <2>1. now' = now + 1 /\ UNCHANGED <<listening, billing, cache, req, pending>>
        /\ now' \in 0..MaxTime
    BY <1>0, <1>8 DEF Tick
  <2>2. ASSUME NEW k \in Keys, cache[k] # None
        PROVE  EntryOK(cache[k], now')
    <3>1. cache[k] \in Entry /\ EntryOK(cache[k], now)
      BY <2>2 DEF IInv
    <3> QED
      BY <1>0, <2>1, <2>2, <3>1 DEF EntryOK, Entry
  <2>3. ASSUME NEW r \in Requests
        PROVE  RequestOK(req[r], now')
    <3>1. RequestOK(req[r], now) /\ (req[r].stage = "called" => now < req[r].readAt + MaxDelay)
      BY <1>0, <1>8 DEF Tick, AtStage
    <3>2. 0..now \subseteq 0..now' /\ \A i \in Nat : i..now \subseteq i..now'
      BY <1>0, <2>1
    <3>3. req[r].stage = "called" => now' <= req[r].readAt + MaxDelay
      BY <1>0, <2>1, <3>1 DEF RequestOK
    <3>4. req[r].stage = "valid" => req[r].at \in req[r].readAt..now'
      BY <1>0, <2>1, <3>1 DEF RequestOK
    <3> QED
      BY <3>1, <3>2, <3>3, <3>4 DEF RequestOK
  <2>4. \A k \in Keys : EntryOK(cache[k], now')
    BY <2>2 DEF EntryOK
  <2> QED
    BY <2>1, <2>3, <2>4 DEF IInv
<1>9. CASE Listen \/ (\E k \in Keys : ChangeSubscription(k)) \/ UNCHANGED vars
  BY <1>9 DEF Listen, ChangeSubscription, vars, IInv
<1> QED
  BY <1>1, <1>2, <1>3, <1>4, <1>5, <1>6, <1>7, <1>8, <1>9 DEF Next, Serve

(* The invariant holds in every state that Ingress reaches.                *)
THEOREM Invariance == Spec => []IInv
<1> QED
  BY IInvInit, IInvStep, PTL DEF Spec

(* Only transactions with a good version and good addresses are past the   *)
(* validator (transaction-validator.ts:24-48) and in the pool, and every   *)
(* entry of the cache and every verdict has the times it was made at.      *)
THEOREM TypeCorrect == Spec => []TypeOK
<1>1. IInv => TypeOK
  <2> SUFFICES ASSUME IInv PROVE TypeOK
    OBVIOUS
  <2>1. \A k \in Keys : cache[k] # None => cache[k] \in Entry /\ EntryOK(cache[k], now)
    BY DEF IInv
  <2>2. \A r \in Requests : req[r] \in Request /\ RequestOK(req[r], now)
    BY DEF IInv
  <2> QED
    BY <2>1, <2>2 DEF IInv, TypeOK, Entry, EntryOK, Request, RequestOK
<1> QED
  BY Invariance, <1>1, PTL

(* However misses of the cache overlap and in whatever order they are      *)
(* answered, a subscription is found valid only on data that was read no   *)
(* longer ago than a call and a period of the cache take together.         *)
THEOREM VerdictsAreRecent == Spec => []ValidOnRecentData
<1>1. IInv => ValidOnRecentData
  BY DEF IInv, RequestOK, ValidOnRecentData, AtStage
<1> QED
  BY Invariance, <1>1, PTL

(* Whatever the rates, only a subscription that began on the last day of   *)
(* its month, in that month, is valid without tokens.                      *)
THEOREM NoTokensOnlyOnTheLastDay == Spec => []FreeOnlyOnTheLastDay
<1>1. IInv => FreeOnlyOnTheLastDay
  BY DEF IInv, RequestOK, FreeOnlyOnTheLastDay, AtStage, OnTheLastDay
<1> QED
  BY Invariance, <1>1, PTL
=============================================================================
