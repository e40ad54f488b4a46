------------------------------- MODULE Ingress -------------------------------
(***************************************************************************)
(* The way in: the HTTP handlers of the public api service, the            *)
(* transaction handler, the pool's validator, the subscription manager     *)
(* with its cache, and the sidechain connector that reads the billing      *)
(* contract on Ethereum.  Every arrow between two of them is an RPC that   *)
(* may fail, and every answer is awaited while other requests go on.       *)
(*                                                                         *)
(* What the pool checks beside the subscription is the subject of          *)
(* TransactionPool; here it may refuse.                                    *)
(***************************************************************************)
EXTENDS Integers, FiniteSets

CONSTANTS
  Requests,     \* the HTTP connections: a request on each at a time
  Txs,          \* the transactions that clients send
  BadVersion,   \* those whose header.version is not 0
  BadAddress,   \* those with a bad signature or address, or one of another chain
  Keys,         \* subscription keys
  Key,          \* Key[tx]: of the virtual chain of tx's contract
  Data,         \* [profile, startTime, tokens] that the billing contract may hold
  Rates,        \* config.subscriptionProfiles: Rates[profile], [rate, expiresAt]s
  None,         \* undefined
  MonthLength,  \* in units of the clock, as are the next three
  DayLength,
  CacheTimeout, \* CACHE_TIMEOUT_IN_MS
  MaxDelay,     \* bound: time that an Ethereum node takes to answer
  MaxTime       \* bound: the clock stops here

ASSUME IngressAssumption ==
  /\ BadVersion \subseteq Txs /\ BadAddress \subseteq Txs
  /\ Key \in [Txs -> Keys]
  /\ \A d \in Data : d.startTime \in Nat /\ d.tokens \in Nat
  /\ \A p \in DOMAIN Rates : \A r \in Rates[p] :
       r.rate \in Nat \ {0} /\ r.expiresAt \in Nat \cup {None}
  /\ None \notin Data /\ None \notin Nat /\ None \notin Txs
  /\ MonthLength \in Nat /\ DayLength \in Nat /\ MonthLength > DayLength
  /\ CacheTimeout \in Nat /\ MaxDelay \in Nat /\ MaxTime \in Nat

VARIABLES
  now,      \* the clock
  listening,\* the HTTP server of the API accepts connections
  billing,  \* Ethereum: the data that the billing contract holds for each key
  cache,    \* subscriptionCache: [data, readAt, expire] of each key, or None
  req,      \* the request on each connection: its stage and what it has got
  pending   \* the transactions that the pool has stored

vars == <<now, listening, billing, cache, req, pending>>

Kinds == {"send", "call", "status", "check"}
\* idle: not sent; hung: its handler threw outside its try and never answers;
\* handling: at the transaction handler; pool: at the pool; subscription: at
\* the subscription manager; ethereum: waits for the latest block; called:
\* waits for the contract's data; valid: the validator may go on; stored:
\* waits for gossip; running: at the virtual machine, the pool's status or the
\* startup check.
Stages == {"idle", "hung", "handling", "pool", "subscription", "ethereum", "called",
           "valid", "stored", "running", "answered"}
\* The validator has found version and addresses in order.
Accepted == {"subscription", "ethereum", "called", "valid", "stored"}
Answers == {"txid", "result", "status", "200", "500", "503"}

NewRequest ==
  [stage |-> "idle", kind |-> None, tx |-> None,
   data |-> None, readAt |-> None, at |-> None, answer |-> None]

TypeOK ==
  /\ now \in 0..MaxTime
  /\ listening \in BOOLEAN
  /\ billing \in [Keys -> Data]
  /\ \A k \in Keys : cache[k] # None =>
       /\ cache[k].data \in Data
       /\ cache[k].readAt \in 0..now
       /\ cache[k].expire \in cache[k].readAt + CacheTimeout..now + CacheTimeout
  /\ \A r \in Requests :
       /\ req[r].stage \in Stages
       /\ req[r].kind \in Kinds \cup {None}
       /\ req[r].stage = "answered" => req[r].answer \in Answers
       /\ req[r].stage \in {"handling", "pool"} => req[r].tx \in Txs
       /\ req[r].stage \in Accepted => req[r].tx \in Txs \ (BadVersion \cup BadAddress)
       /\ req[r].stage \in {"called", "valid"} => req[r].data \in Data /\ req[r].readAt \in 0..now
       /\ req[r].stage = "valid" => req[r].at \in req[r].readAt..now
  /\ pending \subseteq Txs \ (BadVersion \cup BadAddress)

Init ==
  /\ now = 0
  /\ listening = FALSE
  /\ billing \in [Keys -> Data]
  /\ cache = [k \in Keys |-> None]
  /\ req = [r \in Requests |-> NewRequest]
  /\ pending = {}

-----------------------------------------------------------------------------
(***************************************************************************)
(* The price of a subscription.                                            *)
(***************************************************************************)
beginningOfThisMonth == now - (now % MonthLength)
\* new Date(year, month + 1, 0) is the last day, at its beginning.
endOfThisMonth == beginningOfThisMonth + MonthLength - DayLength

\* The rates of the profile that have not expired; of these the first to
\* expire is in force.
nonExpiredRates(profile) ==
  IF profile \in DOMAIN Rates
  THEN {r \in Rates[profile] : r.expiresAt = None \/ r.expiresAt > now}
  ELSE {}

IsInForce(rate, profile) ==
  /\ rate \in nonExpiredRates(profile)
  /\ \A r \in nonExpiredRates(profile) :
       r.expiresAt = None \/ (rate.expiresAt # None /\ rate.expiresAt <= r.expiresAt)

\* The fee is the rate times the part of the month after the start; both
\* sides are multiplied by the length of the month, less its last day.
PaysFee_FromNow(data, rate) ==  \* Mutant: the part of the month that is left.
  data.tokens * (MonthLength - DayLength) >= rate * (endOfThisMonth - now)

PaysFee(data, rate) ==
  IF data.startTime <= beginningOfThisMonth
  THEN data.tokens >= rate
  ELSE data.tokens * (MonthLength - DayLength) >= rate * (endOfThisMonth - data.startTime)

IsValid(data) ==
  /\ data.startTime < now
  /\ \E rate \in nonExpiredRates(data.profile) :
       IsInForce(rate, data.profile) /\ PaysFee(data, rate.rate)

-----------------------------------------------------------------------------
(***************************************************************************)
(* The HTTP handlers and the transaction handler.                          *)
(***************************************************************************)
AtStage(r, stage) == req[r].stage = stage
GoTo(r, stage) == req' = [req EXCEPT ![r].stage = stage]
Answer(r, a) == req' = [req EXCEPT ![r] = [NewRequest EXCEPT !.stage = "answered", !.answer = a]]

Begin(r, kind, tx, stage) ==
  /\ req[r].stage \in {"idle", "answered"}
  /\ req' = [req EXCEPT ![r] = [NewRequest EXCEPT !.stage = stage, !.kind = kind, !.tx = tx]]
  /\ UNCHANGED <<now, listening, billing, cache, pending>>

\* The server listens, some time after the management server may be asked.
Listen ==
  /\ ~ listening
  /\ listening' = TRUE
  /\ UNCHANGED <<now, billing, cache, req, pending>>

sendTransactionHandler(r) == listening /\ \E tx \in Txs : Begin(r, "send", tx, "handling")
callContractHandler(r) == listening /\ Begin(r, "call", None, "running")
getTransactionStatusHandler(r) == listening /\ Begin(r, "status", None, "running")
startupCheckHandler(r) == Begin(r, "check", None, "running")

\* The body or an address in it cannot be decoded: the handler throws before
\* its try, the rejection is only logged.
HandlerThrows(r) == listening /\ Begin(r, None, None, "hung")

\* Any of the calls may fail or be refused; the error comes back through all
\* the callers to the HTTP handler.  A transaction that is stored stays so.
\* The runner of a startup check makes an error a status.
Fail_NoAnswer(r) ==  \* Mutant: the error is logged and not sent.
  /\ req[r].stage \notin {"idle", "hung", "answered"} /\ req[r].kind # "check"
  /\ GoTo(r, "hung")
  /\ UNCHANGED <<now, listening, billing, cache, pending>>

Fail(r) ==
  /\ req[r].stage \notin {"idle", "hung", "answered"} /\ req[r].kind # "check"
  /\ Answer(r, "500")
  /\ UNCHANGED <<now, listening, billing, cache, pending>>

handle(r) ==
  /\ AtStage(r, "handling")
  /\ req[r].tx \notin BadVersion
  /\ GoTo(r, "pool")
  /\ UNCHANGED <<now, listening, billing, cache, pending>>

\* The virtual machine's result, or the pools' status, goes to the client.
callContract(r) ==
  /\ AtStage(r, "running") /\ req[r].kind = "call"
  /\ Answer(r, "result")
  /\ UNCHANGED <<now, listening, billing, cache, pending>>

getTransactionStatus(r) ==
  /\ AtStage(r, "running") /\ req[r].kind = "status"
  /\ Answer(r, "status")
  /\ UNCHANGED <<now, listening, billing, cache, pending>>

\* PublicApi: it has all its parts once it is constructed.
startupCheck == "OK"
startupCheckHttpService == IF listening THEN "OK" ELSE "FAIL"

mergeStartupStatuses(statuses) ==
  CASE "FAIL" \notin statuses -> "OK"
    [] "OK" \notin statuses -> "FAIL"
    [] OTHER -> "PARTIALLY_OPERATIONAL"

\* StartupCheckRunner, and the answer that the management server makes of it.
run(r) ==
  /\ AtStage(r, "running") /\ req[r].kind = "check"
  /\ Answer(r, IF mergeStartupStatuses({startupCheck}) = "OK" /\ startupCheckHttpService = "OK"
               THEN "200" ELSE "503")
  /\ UNCHANGED <<now, listening, billing, cache, pending>>

-----------------------------------------------------------------------------
(***************************************************************************)
(* The pool and its validator.                                             *)
(***************************************************************************)
\* Mutant: the addresses are not compared.
validate_AnyAddress(r) ==
  /\ AtStage(r, "pool")
  /\ req[r].tx \notin pending
  /\ GoTo(r, "subscription")
  /\ UNCHANGED <<now, listening, billing, cache, pending>>

validate(r) ==
  /\ AtStage(r, "pool")
  /\ req[r].tx \notin pending
  /\ req[r].tx \notin BadAddress
  /\ GoTo(r, "subscription")
  /\ UNCHANGED <<now, listening, billing, cache, pending>>

storePendingTransaction(r) ==
  /\ AtStage(r, "valid")
  /\ pending' = pending \cup {req[r].tx}
  /\ req' = [req EXCEPT ![r] = [NewRequest EXCEPT !.stage = "stored", !.kind = "send", !.tx = req[r].tx]]
  /\ UNCHANGED <<now, listening, billing, cache>>

\* The broadcast has been handed to gossip, the id goes back to the client.
broadcastTransactionToOtherNodes(r) ==
  /\ AtStage(r, "stored")
  /\ Answer(r, "txid")
  /\ UNCHANGED <<now, listening, billing, cache, pending>>

-----------------------------------------------------------------------------
(***************************************************************************)
(* The subscription manager and the sidechain connector.                   *)
(***************************************************************************)
Cached(k) == cache[k] # None /\ now <= cache[k].expire

\* The verdict on data that was read at readAt; an invalid subscription ends
\* the request with an error.
Judge(r, data, readAt) ==
  IF IsValid(data)
  THEN req' = [req EXCEPT ![r] =
         [@ EXCEPT !.stage = "valid", !.data = data, !.readAt = readAt, !.at = now]]
  ELSE Answer(r, "500")

\* Mutant: a hit keeps the entry for another period.
isSubscriptionValid_Renews(r) ==
  LET k == Key[req[r].tx] IN
  /\ AtStage(r, "subscription")
  /\ IF Cached(k)
     THEN /\ Judge(r, cache[k].data, cache[k].readAt)
          /\ cache' = [cache EXCEPT ![k].expire = now + CacheTimeout]
     ELSE GoTo(r, "ethereum") /\ UNCHANGED cache
  /\ UNCHANGED <<now, listening, billing, pending>>

isSubscriptionValid(r) ==
  LET k == Key[req[r].tx] IN
  /\ AtStage(r, "subscription")
  /\ IF Cached(k)
     THEN Judge(r, cache[k].data, cache[k].readAt)
     ELSE GoTo(r, "ethereum")
  /\ UNCHANGED <<now, listening, billing, cache, pending>>

\* The contract is called at the latest block: once that is known, so is what
\* the call will return.
LatestBlock(k) == [data |-> billing[k], timestamp |-> now]

callEthereumContract(r) ==
  LET latest == LatestBlock(Key[req[r].tx]) IN
  /\ AtStage(r, "ethereum")
  /\ req' = [req EXCEPT ![r] =
       [@ EXCEPT !.stage = "called", !.data = latest.data, !.readAt = latest.timestamp]]
  /\ UNCHANGED <<now, listening, billing, cache, pending>>

\* The answer is cached, whatever another request has cached meanwhile.
getSubscriptionData(r) ==
  /\ AtStage(r, "called")
  /\ cache' = [cache EXCEPT ![Key[req[r].tx]] =
       [data |-> req[r].data, readAt |-> req[r].readAt, expire |-> now + CacheTimeout]]
  /\ Judge(r, req[r].data, req[r].readAt)
  /\ UNCHANGED <<now, listening, billing, pending>>

-----------------------------------------------------------------------------
(***************************************************************************)
(* The environment.                                                        *)
(***************************************************************************)
ChangeSubscription(k) ==
  /\ \E d \in Data : billing' = [billing EXCEPT ![k] = d]
  /\ UNCHANGED <<now, listening, cache, req, pending>>

Tick ==
  /\ now < MaxTime
  /\ \A r \in Requests : AtStage(r, "called") => now < req[r].readAt + MaxDelay
  /\ now' = now + 1
  /\ UNCHANGED <<listening, billing, cache, req, pending>>

-----------------------------------------------------------------------------
(***************************************************************************)
(* Specification.                                                          *)
(***************************************************************************)
Serve(r) ==
  \/ handle(r) \/ callContract(r) \/ getTransactionStatus(r) \/ run(r)
  \/ validate(r) \/ storePendingTransaction(r) \/ broadcastTransactionToOtherNodes(r)
  \/ isSubscriptionValid(r) \/ callEthereumContract(r) \/ getSubscriptionData(r)
  \/ Fail(r)

Next ==
  \/ \E r \in Requests :
       \/ sendTransactionHandler(r) \/ callContractHandler(r)
       \/ getTransactionStatusHandler(r) \/ startupCheckHandler(r) \/ HandlerThrows(r)
       \/ Serve(r)
  \/ \E k \in Keys : ChangeSubscription(k)
  \/ Listen
  \/ Tick

Spec == Init /\ [][Next]_vars

(***************************************************************************)
(* A call returns or fails: an RPC does not stay open for ever.            *)
(***************************************************************************)
FairSpec == Spec /\ \A r \in Requests : WF_vars(Serve(r))

-----------------------------------------------------------------------------
(***************************************************************************)
(* Properties.                                                             *)
(***************************************************************************)

(***************************************************************************)
(* The cache and the calls under way bound how old the data is on which a  *)
(* subscription is found valid (subscription-manager.ts:42-46): a          *)
(* subscription that lapsed earlier than that admits nothing any more, in  *)
(* whatever order concurrent misses are answered and cached.               *)
(***************************************************************************)
ValidOnRecentData ==
  \A r \in Requests : AtStage(r, "valid") =>
    req[r].at <= req[r].readAt + CacheTimeout + MaxDelay

(***************************************************************************)
(* A subscription without tokens is valid only if it started in the month  *)
(* of the verdict and on its last day: endOfThisMonth is the beginning of  *)
(* that day (subscription-manager.ts:72-78), so the fee is zero or less.   *)
(***************************************************************************)
FreeOnlyOnTheLastDay ==
  \A r \in Requests : AtStage(r, "valid") /\ req[r].data.tokens = 0 =>
    /\ req[r].data.startTime > req[r].at - (req[r].at % MonthLength)
    /\ req[r].data.startTime % MonthLength >= MonthLength - DayLength

(***************************************************************************)
(* Every request whose body could be decoded is answered, whichever of the *)
(* services behind it fails; one that could not is left open for ever      *)
(* (service.ts:102-118 of the public api: outside the try).                *)
(***************************************************************************)
DecodedRequestsAreAnswered ==
  \A r \in Requests :
    req[r].stage \notin {"idle", "hung"} ~> req[r].stage = "answered"
=============================================================================
