------------------------------- MODULE MCGossip -------------------------------
(***************************************************************************)
(* Gossip for TLC: two nodes that list each other, one of them also itself, *)
(* and a node without connections: a message to it goes to everybody.      *)
(***************************************************************************)
EXTENDS Gossip

CONSTANTS n1, n2, n3

ThreeNodes == {n1, n2, n3}
Lists == {<<n1, n1>>, <<n1, n2>>, <<n2, n1>>}
=============================================================================
