------------------------------ MODULE Contracts ------------------------------
(***************************************************************************)
(* The smart contracts of virtual-machine/hard-coded-contracts/registry as *)
(* pure operators: which keys a method loads, in which order, when it      *)
(* stops, and what it stores.  They are executed by module VirtualMachine. *)
(*                                                                         *)
(* A transaction is a record; its amount stands for all its arguments but  *)
(* the account: 0 is one the method refuses before it loads anything (an   *)
(* argument of the wrong type, an empty message, a time in the future).    *)
(* An event name (with its sender) and an inbox are accounts too, and an   *)
(* inbox is the number of its messages.                                    *)
(***************************************************************************)
EXTENDS Integers, Sequences

CONSTANTS
  Accounts,
  Short,         \* the account whose key is left when a key is decoded
  Transactions,  \* the transactions clients may send
  DefaultBalance,\* KinAtnSmartContract.DEFAULT_BALANCE
  Allocations,   \* POOL_INITIAL_VALUE / DEFAULT_BALANCE
  MaxSafeInteger,
  NoValue        \* a key that was never stored

Methods == {"kin.transfer", "kin.financeAccount", "foobar.transfer", "foobar.initBalance",
            "eventCounter.reportEvent", "textMessage.sendMessage", "unknown"}

Transaction == [method : Methods, from : Accounts, to : Accounts, amount : Int]

ASSUME ContractsAssumption ==
  /\ Transactions \subseteq Transaction
  /\ Short \in [Accounts -> Accounts] /\ "pool" \notin Accounts
  /\ \A a \in Accounts : Short[Short[a]] = Short[a]
  /\ DefaultBalance \in Nat \ {0} /\ Allocations \in Nat \ {0}
  /\ MaxSafeInteger \in Nat /\ DefaultBalance <= MaxSafeInteger
  /\ NoValue \notin Int

Kin(a) == <<"kin", a>>
FooBar(a) == <<"foobar", a>>
EventCounter(a) == <<"eventCounter", a>>
TextMessage(a) == <<"textMessage", a>>
Pool == Kin("pool")
Keys == ({"kin", "foobar", "eventCounter", "textMessage"} \X Accounts) \cup {Pool}

\* What a contract may ever have stored under a key.
PoolValues == {DefaultBalance * i : i \in 0..Allocations}
Values(k) ==
  IF k = Pool THEN PoolValues
  ELSE IF k[1] = "kin" THEN 0..MaxSafeInteger
  ELSE IF k[1] = "foobar" THEN Int ELSE Nat

\* What a map of the keys holds, by its type and by what contracts store.
Stores == [Keys -> Int \cup {NoValue}]
InRange(store) == \A k \in Keys : store[k] \in Values(k) \cup {NoValue}

NothingStored == [k \in Keys |-> NoValue]

\* The value a contract computes with: an unset key counts as 0.
OrZero(v) == IF v = NoValue THEN 0 ELSE v

\* The cache joins contract and key with a colon, and takes what is before
\* the second one when it splits them again.
decodeMapKey(k) == IF k = Pool THEN k ELSE <<k[1], Short[k[2]]>>

-----------------------------------------------------------------------------
(***************************************************************************)
(* The methods.                                                            *)
(***************************************************************************)

\* The keys a method loads, one readKeys after the other.
Loads(t) ==
  CASE t.method = "kin.transfer" -> <<Kin(t.from), Kin(t.to)>>
    [] t.method = "kin.financeAccount" -> <<Pool>>
    [] t.method = "foobar.transfer" -> <<FooBar(t.from), FooBar(t.to)>>
    [] t.method = "eventCounter.reportEvent" -> <<EventCounter(t.to)>>
    [] t.method = "textMessage.sendMessage" -> <<TextMessage(t.to)>>
    [] OTHER -> <<>>

\* The contract is in the registry, and has the method.
Registered(t) == t.method # "unknown"

\* An error without the mark "expected": no such contract or method, a
\* payload that is not JSON, and the plain Errors of the text messages.
FailsUnexpectedly(t) ==
  ~ Registered(t) \/ (t.method = "textMessage.sendMessage" /\ t.amount = 0)

\* Mutant: KinAtn does not look whether the recipient overflows.
FailsValidation_NoOverflowCheck(t, vals) ==
  \/ t.amount = 0 /\ t.method # "foobar.initBalance"
  \/ t.amount < 0 /\ t.method = "kin.transfer"
  \/ /\ t.method \in {"kin.transfer", "foobar.transfer"}
     /\ Len(vals) >= 1 /\ vals[1] < t.amount

\* A ValidationError, after the values in vals were loaded.
FailsValidation(t, vals) ==
  \/ t.amount = 0 /\ t.method # "foobar.initBalance"
  \/ t.amount < 0 /\ t.method = "kin.transfer"
  \/ /\ t.method \in {"kin.transfer", "foobar.transfer"}
     /\ Len(vals) >= 1 /\ vals[1] < t.amount
  \/ /\ t.method = "kin.transfer"
     /\ Len(vals) = 2 /\ vals[2] > MaxSafeInteger - t.amount

Write(k, v) == [key |-> k, value |-> v]

(* What each method stores, in this order, from the values it loaded.      *)
(* Sender and recipient may be one account: then the second store wins.    *)
transfer(t, vals) ==
  <<Write(Kin(t.from), vals[1] - t.amount), Write(Kin(t.to), vals[2] + t.amount)>>

\* The pool starts anew when it is used up, or was never set.
reduceFromPool(balance) ==
  (IF balance = 0 THEN DefaultBalance * Allocations ELSE balance) - DefaultBalance

financeAccount(t, vals) ==
  <<Write(Kin(t.to), DefaultBalance), Write(Pool, reduceFromPool(vals[1]))>>

fooBarTransfer(t, vals) ==
  <<Write(FooBar(t.from), vals[1] - t.amount), Write(FooBar(t.to), vals[2] + t.amount)>>

initBalance(t) == <<Write(FooBar(t.to), t.amount)>>

reportEvent(t, vals) == <<Write(EventCounter(t.to), vals[1] + 1)>>

sendMessage(t, vals) == <<Write(TextMessage(t.to), vals[1] + 1)>>

\* processMethod: the stores of a transaction that does not fail.
Writes(t, vals) ==
  CASE t.method = "kin.transfer" -> transfer(t, vals)
    [] t.method = "kin.financeAccount" -> financeAccount(t, vals)
    [] t.method = "foobar.transfer" -> fooBarTransfer(t, vals)
    [] t.method = "foobar.initBalance" -> initBalance(t)
    [] t.method = "eventCounter.reportEvent" -> reportEvent(t, vals)
    [] t.method = "textMessage.sendMessage" -> sendMessage(t, vals)
    [] OTHER -> <<>>

\* A map of keys after the stores; the last one of a key wins.
Stored(map, writes) ==
  [k \in Keys |->
     LET at == {i \in DOMAIN writes : decodeMapKey(writes[i].key) = k}
     IN  IF at = {} THEN map[k]
         ELSE writes[CHOOSE i \in at : \A j \in at : j <= i].value]
=============================================================================
