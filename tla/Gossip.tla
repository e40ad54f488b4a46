------------------------------- MODULE Gossip -------------------------------
(***************************************************************************)
(* The gossip service: the web sockets between the nodes (gossip.ts), the  *)
(* table that each node keeps of them, and the poll that connects a node   *)
(* without peers again (service.ts).                                       *)
(*                                                                         *)
(* A socket is named by the pair of the node that dialled it and the node  *)
(* it dialled; it has two ends, 1 and 2, in that order.  What happens on   *)
(* the wire is the ws library's and the network's part: messages arrive in *)
(* order, an end learns late that the other one is gone, and no "terminate" *)
(* event is ever emitted (ws emits "close"), so that the handler of        *)
(* gossip.ts:55 that deletes a table entry does not run.                   *)
(***************************************************************************)
EXTENDS Integers, Sequences, FiniteSets

CONSTANTS
  Nodes,
  GossipPeers,  \* pairs <<n, p>>: p is in n's list, which may name n itself
  None,         \* no entry in the table
  Closed,       \* an entry whose socket's end is no longer open
  MaxMessages,  \* bound: messages sent
  MaxCrashes,   \* bound: crashes of a gossip process
  MaxFaults     \* bound: sockets cut and connection attempts lost

ASSUME GossipAssumption ==
  /\ GossipPeers \subseteq Nodes \X Nodes
  /\ {None, Closed} \cap {1, 2} = {} /\ None # Closed
  /\ MaxMessages \in Nat /\ MaxCrashes \in Nat /\ MaxFaults \in Nat

VARIABLES
  up,        \* the nodes whose gossip process runs
  dialing,   \* the connections being attempted, by the pair
  open,      \* the open ends of each socket
  wire,      \* what is on the way to each end of a socket, oldest first
  clients,   \* clients[n][p]: the end by which n reaches p
  messages,  \* the messages sent so far, a sequence
  received,  \* received[i][n]: times message i was handed to n's listener
  crashes,   \* number of crashes
  broken     \* history: pairs that a fault separated since either started

faultVars == <<crashes, broken>>
vars == <<up, dialing, open, wire, clients, messages, received, crashes, broken>>

Ends == {1, 2}
\* A frame on the wire: a hello or the number of a message.
Hello == 0
All == Nodes  \* the recipient of a broadcast

\* The socket that n's end e of a connection with p belongs to.
Socket(n, p, e) == IF e = 1 THEN <<n, p>> ELSE <<p, n>>

TypeOK ==
  /\ up \subseteq Nodes
  /\ dialing \subseteq GossipPeers
  /\ open \in [GossipPeers -> SUBSET Ends]
  /\ DOMAIN wire = GossipPeers
  /\ \A s \in GossipPeers, e \in Ends :
       /\ \A i \in DOMAIN wire[s][e] : wire[s][e][i] \in {Hello} \cup 1..Len(messages)
       /\ e \notin open[s] => wire[s][e] = <<>>
  /\ clients \in [Nodes -> [Nodes -> {None, Closed} \cup Ends]]
  /\ \A n, p \in Nodes : clients[n][p] \in Ends =>
       /\ n # p
       /\ clients[n][p] \in open[Socket(n, p, clients[n][p])]
  /\ Len(messages) <= MaxMessages
  /\ received \in [1..MaxMessages -> [Nodes -> Nat]]
  /\ crashes \in 0..MaxCrashes
  /\ \A pair \in broken : pair \subseteq Nodes

NoFrames == [e \in Ends |-> <<>>]

Init ==
  /\ up = {}
  /\ dialing = {}
  /\ open = [s \in GossipPeers |-> {}]
  /\ wire = [s \in GossipPeers |-> NoFrames]
  /\ clients = [n \in Nodes |-> [p \in Nodes |-> None]]
  /\ messages = <<>>
  /\ received = [i \in 1..MaxMessages |-> [n \in Nodes |-> 0]]
  /\ crashes = 0
  /\ broken = {}

activePeers(n) == {p \in Nodes : clients[n][p] # None}
connectToGossipPeers(n) == {s \in GossipPeers : s[1] = n}

-----------------------------------------------------------------------------
(***************************************************************************)
(* The gossip process.                                                     *)
(***************************************************************************)
initGossip(n) ==
  /\ n \notin up
  /\ up' = up \cup {n}
  /\ dialing' = dialing \cup connectToGossipPeers(n)
  /\ broken' = {pair \in broken : n \notin pair}
  /\ UNCHANGED <<open, wire, clients, messages, received, crashes>>

\* The poll timer.  Its interval is long: an attempt has been answered and
\* the hello has arrived before it fires again.
Poll(n) ==
  /\ n \in up
  /\ activePeers(n) = {}
  /\ \A s \in connectToGossipPeers(n) : s \notin dialing /\ wire[s][1] = <<>>
  /\ dialing' = dialing \cup connectToGossipPeers(n)
  /\ UNCHANGED <<up, open, wire, clients, messages, received, faultVars>>

\* The process ends; its sockets close on its side.
Crash(n) ==
  /\ n \in up
  /\ crashes < MaxCrashes
  /\ crashes' = crashes + 1
  /\ up' = up \ {n}
  /\ dialing' = dialing \ connectToGossipPeers(n)
  /\ open' = [s \in GossipPeers |-> open[s] \ {e \in Ends : s[e] = n}]
  /\ wire' = [s \in GossipPeers |-> [e \in Ends |-> IF s[e] = n THEN <<>> ELSE wire[s][e]]]
  /\ clients' = [clients EXCEPT ![n] = [p \in Nodes |-> None]]
  /\ UNCHANGED <<messages, received, broken>>

-----------------------------------------------------------------------------
(***************************************************************************)
(* Sockets.                                                                *)
(***************************************************************************)
\* n's table when the ends gone of its sockets with p have closed.
WithoutEnds(n, p, gone) ==
  IF clients[n][p] \in gone THEN [clients EXCEPT ![n][p] = Closed] ELSE clients

\* The socket opens: both ends are prepared and say hello.  What was left of
\* an earlier socket of the pair at the other end is closed by now.
Connected(n, p) ==
  /\ <<n, p>> \in dialing
  /\ p \in up
  /\ 1 \notin open[<<n, p>>]
  /\ dialing' = dialing \ {<<n, p>>}
  /\ open' = [open EXCEPT ![<<n, p>>] = Ends]
  /\ wire' = [wire EXCEPT ![<<n, p>>] = [e \in Ends |-> <<Hello>>]]
  /\ clients' = WithoutEnds(p, n, {2})
  /\ UNCHANGED <<up, messages, received, faultVars>>

\* The attempt fails, because p does not run or by a fault: the error is
\* logged and nothing else.
NotConnected(n, p) ==
  /\ <<n, p>> \in dialing
  /\ dialing' = dialing \ {<<n, p>>}
  /\ \/ p \notin up /\ UNCHANGED broken
     \/ Cardinality(broken) < MaxFaults /\ p # n /\ broken' = broken \cup {{n, p}}
  /\ UNCHANGED <<up, open, wire, clients, messages, received, crashes>>

\* n's end e closes: nothing more arrives at it, and its table keeps it.
CloseEnd(n, p, e) ==
  LET s == Socket(n, p, e) IN
  /\ open' = [open EXCEPT ![s] = @ \ {e}]
  /\ clients' = WithoutEnds(n, p, {e})

\* n learns that the other end has closed, after all that was sent on it.
PeerClosed(n, p, e) ==
  LET s == Socket(n, p, e) IN
  /\ s \in GossipPeers
  /\ e \in open[s] /\ (3 - e) \notin open[s]
  /\ wire[s][e] = <<>>
  /\ CloseEnd(n, p, e)
  /\ UNCHANGED <<up, dialing, wire, messages, received, faultVars>>

\* The network cuts the socket: n sees it at once, the other end later.
Cut(n, p, e) ==
  LET s == Socket(n, p, e) IN
  /\ s \in GossipPeers
  /\ e \in open[s] /\ n # p
  /\ Cardinality(broken) < MaxFaults
  /\ broken' = broken \cup {{n, p}}
  /\ CloseEnd(n, p, e)
  /\ wire' = [wire EXCEPT ![s] = NoFrames]
  /\ UNCHANGED <<up, dialing, messages, received, crashes>>

-----------------------------------------------------------------------------
(***************************************************************************)
(* Messages.                                                               *)
(***************************************************************************)
\* Frame f is sent by n on the sockets of the given entries of its table.
\* On an end that is not open the library only reports an error.
Sent(n, peers, f) ==
  [s \in GossipPeers |-> [e \in Ends |->
     IF /\ e \in open[s]
        /\ s[3 - e] = n
        /\ s[e] \in peers
        /\ clients[n][s[e]] = 3 - e
     THEN Append(wire[s][e], f)
     ELSE wire[s][e]]]

NewMessage(n, to) == messages' = Append(messages, [sender |-> n, to |-> to])

broadcastMessage(n) ==
  /\ n \in up
  /\ Len(messages) < MaxMessages
  /\ NewMessage(n, All)
  /\ wire' = Sent(n, activePeers(n), Len(messages) + 1)
  /\ UNCHANGED <<up, dialing, open, clients, received, faultVars>>

\* To the recipient if the table has it, whatever its socket's state;
\* otherwise to everybody.
unicastMessage(n, r) ==
  /\ n \in up
  /\ Len(messages) < MaxMessages
  /\ NewMessage(n, {r})
  /\ wire' = Sent(n, IF clients[n][r] # None THEN {r} ELSE activePeers(n), Len(messages) + 1)
  /\ UNCHANGED <<up, dialing, open, clients, received, faultVars>>

\* A node that dialled itself reads its own address in the hello.
DisconnectFromSelf(n, e) ==
  /\ wire' = [wire EXCEPT ![<<n, n>>][e] = <<>>]
  /\ CloseEnd(n, n, e)
  /\ UNCHANGED <<received, broken>>

\* Mutant: a connection that is already registered is kept.
Register_KeepsFirst(n, p, e) ==
  /\ wire' = [wire EXCEPT ![Socket(n, p, e)][e] = Tail(@)]
  /\ clients' = IF clients[n][p] = None THEN [clients EXCEPT ![n][p] = e] ELSE clients
  /\ UNCHANGED <<open, received, broken>>

\* The later hello wins, be it a late one from a process that is gone: that
\* separates n from the next process of p.
Register(n, p, e) ==
  LET s == Socket(n, p, e) IN
  /\ wire' = [wire EXCEPT ![s][e] = Tail(@)]
  /\ clients' = [clients EXCEPT ![n][p] = e]
  /\ broken' = IF open[s] # Ends /\ clients[n][p] \in Ends THEN broken \cup {{n, p}} ELSE broken
  /\ UNCHANGED <<open, received>>

\* Mutant: the recipient is not looked at.
Deliver_ToAnyone(n, p, e) ==
  LET s == Socket(n, p, e)  i == Head(wire[s][e]) IN
  /\ received' = [received EXCEPT ![i][n] = @ + 1]
  /\ wire' = [wire EXCEPT ![s][e] = Tail(@)]
  /\ UNCHANGED <<open, clients, broken>>

\* gossipMessageReceived is called unless the message is for another node.
Deliver(n, p, e) ==
  LET s == Socket(n, p, e)  i == Head(wire[s][e]) IN
  /\ received' = IF n \in messages[i].to THEN [received EXCEPT ![i][n] = @ + 1] ELSE received
  /\ wire' = [wire EXCEPT ![s][e] = Tail(@)]
  /\ UNCHANGED <<open, clients, broken>>

\* Mutant: a node does not recognize itself.
OnMessage_NoSelfCheck(n, p, e) ==
  LET s == Socket(n, p, e) IN
  /\ s \in GossipPeers
  /\ e \in open[s] /\ wire[s][e] # <<>>
  /\ IF Head(wire[s][e]) = Hello THEN Register(n, p, e) ELSE Deliver(n, p, e)
  /\ UNCHANGED <<up, dialing, messages, crashes>>

OnMessage(n, p, e) ==
  LET s == Socket(n, p, e) IN
  /\ s \in GossipPeers
  /\ e \in open[s] /\ wire[s][e] # <<>>
  /\ IF p = n THEN DisconnectFromSelf(n, e)
     ELSE IF Head(wire[s][e]) = Hello THEN Register(n, p, e)
     ELSE Deliver(n, p, e)
  /\ UNCHANGED <<up, dialing, messages, crashes>>

-----------------------------------------------------------------------------
(***************************************************************************)
(* Specification.                                                          *)
(***************************************************************************)
Next ==
  \/ \E n \in Nodes : initGossip(n) \/ Poll(n) \/ Crash(n) \/ broadcastMessage(n)
  \/ \E n, p \in Nodes : Connected(n, p) \/ NotConnected(n, p) \/ unicastMessage(n, p)
  \/ \E n, p \in Nodes, e \in Ends : PeerClosed(n, p, e) \/ Cut(n, p, e) \/ OnMessage(n, p, e)

Spec == Init /\ [][Next]_vars

(***************************************************************************)
(* The poll timer fires, attempts are answered, frames arrive and a closed *)
(* socket is noticed; a process need neither crash nor start.              *)
(***************************************************************************)
FairSpec ==
  /\ Spec
  /\ \A n \in Nodes : WF_vars(Poll(n))
  /\ \A n, p \in Nodes : WF_vars(Connected(n, p) \/ (p \notin up /\ NotConnected(n, p)))
  /\ \A n, p \in Nodes, e \in Ends :
       WF_vars(PeerClosed(n, p, e)) /\ WF_vars(OnMessage(n, p, e))

-----------------------------------------------------------------------------
(***************************************************************************)
(* Properties.                                                             *)
(***************************************************************************)

(***************************************************************************)
(* However many sockets two nodes have between them and however they come  *)
(* and go, a message is handed to a listener at most once, never at the    *)
(* node that sent it (a node dials itself), and a unicast message only at  *)
(* its recipient, though it may be sent to every peer (gossip.ts:80, 155). *)
(***************************************************************************)
DeliveredOnceToItsRecipients ==
  \A i \in 1..Len(messages), n \in Nodes :
    /\ received[i][n] <= 1
    /\ received[i][n] = 1 => n \in messages[i].to \ {messages[i].sender}

Reaches(n, p) == clients[n][p] \in Ends /\ Ends \subseteq open[Socket(n, p, clients[n][p])]
Mutual == {s \in GossipPeers : s[1] # s[2] /\ <<s[2], s[1]>> \in GossipPeers}

(***************************************************************************)
(* A node that has no entry in its table keeps dialling (service.ts:63-70) *)
(* and so does not stay alone while a node in its list runs.  Two running  *)
(* nodes that list each other even end up with a working socket in both    *)
(* tables, whatever the order in which they start and after a restart of   *)
(* either, unless the network failed between them, or a late hello of an   *)
(* earlier process replaced an entry: then the table is not empty and      *)
(* neither dials again (service.ts:65).                                    *)
(***************************************************************************)
NodesFindEachOther ==
  /\ \A s \in GossipPeers : s[1] # s[2] =>
       []<>(s[1] \notin up \/ s[2] \notin up \/ activePeers(s[1]) # {})
  /\ \A s \in Mutual :
       <>[](({s[1], s[2]} \subseteq up /\ {s[1], s[2]} \notin broken)
              => Reaches(s[1], s[2]) /\ Reaches(s[2], s[1]))
=============================================================================
