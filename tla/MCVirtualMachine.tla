-------------------------- MODULE MCVirtualMachine --------------------------
(***************************************************************************)
(* VirtualMachine for TLC: a pool of one allocation of 2, numbers up to 2, *)
(* and an account "b:x" whose key comes back from the cache as that of b.  *)
(***************************************************************************)
EXTENDS VirtualMachine

Tx(method, from, to, amount) == [method |-> method, from |-> from, to |-> to, amount |-> amount]

MCAccounts == {"a", "b", "b:x"}
MCShort == [a \in MCAccounts |-> IF a = "b:x" THEN "b" ELSE a]
MCTransactions ==
  {Tx("kin.financeAccount", "a", "a", 1),
   Tx("kin.financeAccount", "a", "b", 1),
   Tx("kin.transfer", "a", "b", 1),
   Tx("kin.transfer", "a", "a", 1),
   Tx("kin.transfer", "a", "b:x", 1),
   Tx("foobar.transfer", "a", "b", -1),
   Tx("textMessage.sendMessage", "a", "b", 0)}
=============================================================================
