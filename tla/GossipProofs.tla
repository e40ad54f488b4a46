---------------------------- MODULE GossipProofs ----------------------------
(***************************************************************************)
(* For any nodes and lists of peers: the types, and that a message is      *)
(* handed to a listener once at most and only where it belongs.            *)
(***************************************************************************)
EXTENDS Gossip, SequenceTheorems, TLAPS

Message == [sender : Nodes, to : SUBSET Nodes]

Typed ==
  /\ up \subseteq Nodes /\ dialing \subseteq GossipPeers
  /\ open \in [GossipPeers -> SUBSET Ends]
  /\ wire \in [GossipPeers -> [Ends -> Seq(Nat)]]
  /\ clients \in [Nodes -> [Nodes -> {None, Closed} \cup Ends]]
  /\ messages \in Seq(Message) /\ Len(messages) <= MaxMessages
  /\ received \in [1..MaxMessages -> [Nodes -> Nat]]
  /\ crashes \in 0..MaxCrashes
  /\ \A pair \in broken : pair \subseteq Nodes

\* An entry of the table is an open end of a socket with another node, and
\* nothing is on the way to an end that is not open.
Table ==
  /\ \A n, p \in Nodes : clients[n][p] \in Ends =>
       LET s == Socket(n, p, clients[n][p])
       IN  n # p /\ s \in GossipPeers /\ clients[n][p] \in open[s]
  /\ \A s \in GossipPeers, e \in Ends : e \notin open[s] => wire[s][e] = <<>>

\* A message on the way was sent by the node at the other end, the listener
\* at this end has not had it, and it is on no other way to that listener: a
\* node sends to another on the one socket that its table names.
Carried ==
  \A s \in GossipPeers, e \in Ends : \A k \in 1..Len(wire[s][e]) :
    wire[s][e][k] # Hello =>
      /\ wire[s][e][k] \in 1..Len(messages)
      /\ s[1] # s[2] /\ messages[wire[s][e][k]].sender = s[3 - e]
      /\ received[wire[s][e][k]][s[e]] = 0
      /\ \A t \in GossipPeers, f \in Ends : \A l \in 1..Len(wire[t][f]) :
           wire[t][f][l] = wire[s][e][k] /\ t[f] = s[e] => t = s /\ f = e /\ l = k

\* Nobody has had a message that was not sent.
Unsent == \A i \in 1..MaxMessages, n \in Nodes : i > Len(messages) => received[i][n] = 0

Once == DeliveredOnceToItsRecipients

IInv == Typed /\ Table /\ Carried /\ Unsent /\ Once

-----------------------------------------------------------------------------
(***************************************************************************)
(* Sockets and their ends.                                                 *)
(***************************************************************************)
(* A socket is determined by the node at one of its ends and the other.    *)
LEMMA Sockets ==
  /\ \A s \in GossipPeers : s[1] \in Nodes /\ s[2] \in Nodes /\ s = <<s[1], s[2]>>
  /\ \A e \in Ends : e \in {1, 2} /\ 3 - e \in Ends /\ 3 - e # e /\ 3 - (3 - e) = e
  /\ \A s \in GossipPeers, e \in Ends : s[e] \in Nodes /\ s[3 - e] \in Nodes
  /\ \A n, p \in Nodes, e \in Ends : Socket(n, p, e)[e] = n /\ Socket(n, p, e)[3 - e] = p
  /\ \A s, t \in GossipPeers, e \in Ends : s[e] = t[e] /\ s[3 - e] = t[3 - e] => s = t
<1>1. \A s \in GossipPeers : s[1] \in Nodes /\ s[2] \in Nodes /\ s = <<s[1], s[2]>>
  BY GossipAssumption DEF GossipAssumption
<1>2. \A e \in Ends : (e = 1 /\ 3 - e = 2) \/ (e = 2 /\ 3 - e = 1)
  BY DEF Ends
<1>3. \A e \in Ends : e \in {1, 2} /\ 3 - e \in Ends /\ 3 - e # e /\ 3 - (3 - e) = e
  BY DEF Ends
<1>4. \A s \in GossipPeers, e \in Ends : s[e] \in Nodes /\ s[3 - e] \in Nodes
  BY <1>1, <1>2
<1>5. \A n, p \in Nodes, e \in Ends : Socket(n, p, e)[e] = n /\ Socket(n, p, e)[3 - e] = p
  BY <1>2 DEF Socket
<1>6. \A s, t \in GossipPeers, e \in Ends : s[e] = t[e] /\ s[3 - e] = t[3 - e] => s = t
  BY <1>1, <1>2
<1> QED
  BY <1>1, <1>3, <1>4, <1>5, <1>6

(* What is on a wire.                                                      *)
LEMMA Wires ==
  ASSUME Typed
  PROVE  /\ Len(messages) \in Nat /\ MaxMessages \in Nat
         /\ \A s \in GossipPeers, e \in Ends : wire[s][e] \in Seq(Nat) /\ Len(wire[s][e]) \in Nat
BY GossipAssumption DEF Typed, GossipAssumption

-----------------------------------------------------------------------------
(***************************************************************************)
(* What is on the way.                                                     *)
(***************************************************************************)
\* No frame is new but hellos; the first frame of an end may be gone.
Shrinks ==
  \A s \in GossipPeers, e \in Ends : \E d \in {0, 1} : \A k \in 1..Len(wire'[s][e]) :
    wire'[s][e][k] = Hello \/ (k + d \in 1..Len(wire[s][e]) /\ wire'[s][e][k] = wire[s][e][k + d])

(* Then what is carried keeps to the invariant.                            *)
LEMMA Shrunk ==
  ASSUME Typed, Typed', Carried, Shrinks, messages' = messages,
         \A s \in GossipPeers, e \in Ends : \A k \in 1..Len(wire'[s][e]) :
           wire'[s][e][k] # Hello => received'[wire'[s][e][k]][s[e]] = 0
  PROVE  Carried'
<1> SUFFICES ASSUME NEW s \in GossipPeers, NEW e \in Ends, NEW k \in 1..Len(wire'[s][e]),
                    wire'[s][e][k] # Hello
             PROVE  LET i == wire'[s][e][k]
                    IN  /\ i \in 1..Len(messages')
                        /\ s[1] # s[2] /\ messages'[i].sender = s[3 - e]
                        /\ received'[i][s[e]] = 0
                        /\ \A t \in GossipPeers, f \in Ends : \A l \in 1..Len(wire'[t][f]) :
                             wire'[t][f][l] = i /\ t[f] = s[e] => t = s /\ f = e /\ l = k
  BY DEF Carried
<1> DEFINE i == wire'[s][e][k]
<1>1. PICK d \in {0, 1} : \A j \in 1..Len(wire'[s][e]) :
        \/ wire'[s][e][j] = Hello
        \/ j + d \in 1..Len(wire[s][e]) /\ wire'[s][e][j] = wire[s][e][j + d]
  BY DEF Shrinks
<1>2. k + d \in 1..Len(wire[s][e]) /\ wire[s][e][k + d] = i /\ i # Hello
  BY <1>1
<1>3. /\ i \in 1..Len(messages) /\ s[1] # s[2] /\ messages[i].sender = s[3 - e]
      /\ \A t \in GossipPeers, f \in Ends : \A l \in 1..Len(wire[t][f]) :
           wire[t][f][l] = i /\ t[f] = s[e] => t = s /\ f = e /\ l = k + d
  <2> HIDE DEF i
  <2> DEFINE m == k + d
  <2>1. m \in 1..Len(wire[s][e]) /\ wire[s][e][m] = i /\ wire[s][e][m] # Hello
    BY <1>2
  <2> HIDE DEF m
  <2>2. /\ i \in 1..Len(messages) /\ s[1] # s[2] /\ messages[i].sender = s[3 - e]
        /\ \A t \in GossipPeers, f \in Ends : \A l \in 1..Len(wire[t][f]) :
             wire[t][f][l] = i /\ t[f] = s[e] => t = s /\ f = e /\ l = m
    BY <2>1 DEF Carried
  <2> QED
    BY <2>2 DEF m
<1> HIDE DEF i
<1>4. ASSUME NEW t \in GossipPeers, NEW f \in Ends, NEW l \in 1..Len(wire'[t][f]),
             wire'[t][f][l] = i, t[f] = s[e]
      PROVE  t = s /\ f = e /\ l = k
  <2>1. PICK c \in {0, 1} : \A j \in 1..Len(wire'[t][f]) :
          \/ wire'[t][f][j] = Hello
          \/ j + c \in 1..Len(wire[t][f]) /\ wire'[t][f][j] = wire[t][f][j + c]
    BY DEF Shrinks
  <2>2. l + c \in 1..Len(wire[t][f]) /\ wire[t][f][l + c] = i
    BY <1>2, <1>4, <2>1
  <2>3. t = s /\ f = e
    BY <1>3, <1>4, <2>2
  <2>4. l \in 1..Len(wire'[s][e]) /\ wire'[s][e][l] = i
    BY <1>4, <2>3
  <2>5. l + d \in 1..Len(wire[s][e]) /\ wire[s][e][l + d] = i
    BY <1>1, <1>2, <2>4
  <2>6. l + d = k + d
    BY <1>3, <2>5
  <2>7. l \in Int /\ k \in Int
    BY Wires
  <2> QED
    BY <2>3, <2>6, <2>7
<1> QED
  BY <1>3, <1>4 DEF i

\* One end's wire is changed.
OnlyWire(s, e, w) == wire' = [wire EXCEPT ![s][e] = w]

(* The first frame of an end is taken, or the end is emptied.              *)
LEMMA ShrinkOne ==
  ASSUME Typed, NEW s \in GossipPeers, NEW e \in Ends, NEW w \in Seq(Nat),
         w = <<>> \/ (wire[s][e] # <<>> /\ w = Tail(wire[s][e])),
         OnlyWire(s, e, w)
  PROVE  /\ wire' \in [GossipPeers -> [Ends -> Seq(Nat)]] /\ Shrinks
         /\ \A t \in GossipPeers, f \in Ends :
              wire'[t][f] = IF t = s /\ f = e THEN w ELSE wire[t][f]
<1>1. /\ wire' \in [GossipPeers -> [Ends -> Seq(Nat)]]
      /\ \A t \in GossipPeers, f \in Ends :
           wire'[t][f] = IF t = s /\ f = e THEN w ELSE wire[t][f]
  BY DEF OnlyWire, Typed
<1>2. ASSUME NEW t \in GossipPeers, NEW f \in Ends
      PROVE  \E d \in {0, 1} : \A k \in 1..Len(wire'[t][f]) :
               \/ wire'[t][f][k] = Hello
               \/ k + d \in 1..Len(wire[t][f]) /\ wire'[t][f][k] = wire[t][f][k + d]
  <2>1. wire[t][f] \in Seq(Nat) /\ Len(wire[t][f]) \in Nat
    BY Wires
  <2>2. CASE wire'[t][f] = wire[t][f]
    <3>1. \A k \in 1..Len(wire'[t][f]) :
            k + 0 \in 1..Len(wire[t][f]) /\ wire'[t][f][k] = wire[t][f][k + 0]
      BY <2>1, <2>2
    <3> QED
      BY <3>1
  <2>3. CASE wire'[t][f] = <<>>
    <3>1. 1..Len(wire'[t][f]) = {}
      BY <2>3
    <3> QED
      BY <3>1
  <2>4. CASE wire[t][f] # <<>> /\ wire'[t][f] = Tail(wire[t][f])
    <3>1. /\ Len(wire'[t][f]) = Len(wire[t][f]) - 1
          /\ \A k \in 1..Len(wire'[t][f]) : wire'[t][f][k] = wire[t][f][k + 1]
      BY <2>1, <2>4, HeadTailProperties
    <3>2. \A k \in 1..Len(wire'[t][f]) :
            k + 1 \in 1..Len(wire[t][f]) /\ wire'[t][f][k] = wire[t][f][k + 1]
      BY <2>1, <3>1
    <3> QED
      BY <3>2
  <2> QED
    BY <1>1, <2>2, <2>3, <2>4
<1> QED
  BY <1>1, <1>2 DEF Shrinks

(* Frames that were there stay as they were, or are gone with all others   *)
(* of their end.                                                           *)
LEMMA ShrinkEnds ==
  ASSUME Typed, wire' \in [GossipPeers -> [Ends -> Seq(Nat)]],
         \A s \in GossipPeers, e \in Ends : wire'[s][e] \in {wire[s][e], <<>>, <<Hello>>}
  PROVE  Shrinks
<1>1. ASSUME NEW t \in GossipPeers, NEW f \in Ends
      PROVE  \E d \in {0, 1} : \A k \in 1..Len(wire'[t][f]) :
               \/ wire'[t][f][k] = Hello
               \/ k + d \in 1..Len(wire[t][f]) /\ wire'[t][f][k] = wire[t][f][k + d]
  <2>1. wire[t][f] \in Seq(Nat) /\ Len(wire[t][f]) \in Nat
    BY Wires
  <2>2. CASE wire'[t][f] = wire[t][f]
    <3>1. \A k \in 1..Len(wire'[t][f]) :
            k + 0 \in 1..Len(wire[t][f]) /\ wire'[t][f][k] = wire[t][f][k + 0]
      BY <2>1, <2>2
    <3> QED
      BY <3>1
  <2>3. CASE wire'[t][f] = <<>>
    <3>1. 1..Len(wire'[t][f]) = {}
      BY <2>3
    <3> QED
      BY <3>1
  <2>4. CASE wire'[t][f] = <<Hello>>
    <3>1. \A k \in 1..Len(wire'[t][f]) : wire'[t][f][k] = Hello
      BY <2>4
    <3> QED
      BY <3>1
  <2> QED
    BY <2>2, <2>3, <2>4
<1> QED
  BY <1>1 DEF Shrinks

(* With the same messages and nothing handed over, the rest follows.       *)
LEMMA Nothing ==
  ASSUME IInv, Typed', Shrinks, messages' = messages, received' = received
  PROVE  Carried' /\ Unsent' /\ Once'
<1>1. Carried'
  <2>1. ASSUME NEW s \in GossipPeers, NEW e \in Ends, NEW k \in 1..Len(wire'[s][e]),
               wire'[s][e][k] # Hello
        PROVE  received'[wire'[s][e][k]][s[e]] = 0
    <3>1. PICK d \in {0, 1} : \A j \in 1..Len(wire'[s][e]) :
            \/ wire'[s][e][j] = Hello
            \/ j + d \in 1..Len(wire[s][e]) /\ wire'[s][e][j] = wire[s][e][j + d]
      BY DEF Shrinks
    <3> DEFINE m == k + d
    <3>2. m \in 1..Len(wire[s][e]) /\ wire'[s][e][k] = wire[s][e][m] /\ wire[s][e][m] # Hello
      BY <2>1, <3>1
    <3> HIDE DEF m
    <3>3. received[wire[s][e][m]][s[e]] = 0
      BY <3>2 DEF IInv, Carried
    <3> QED
      BY <3>2, <3>3
  <2> QED
    BY <2>1, Shrunk DEF IInv
<1>2. Unsent' /\ Once'
  BY DEF IInv, Unsent, Once, DeliveredOnceToItsRecipients
<1> QED
  BY <1>1, <1>2

-----------------------------------------------------------------------------
(***************************************************************************)
(* A message is sent.                                                      *)
(***************************************************************************)
(* It is on one way at most to each listener, and behind all others.       *)
LEMMA SendStep ==
  ASSUME IInv, NEW n \in Nodes, NEW to \in SUBSET Nodes, NEW peers,
         Len(messages) < MaxMessages, NewMessage(n, to),
         wire' = Sent(n, peers, Len(messages) + 1),
         UNCHANGED <<up, dialing, open, clients, received, crashes, broken>>
  PROVE  IInv'
<1> DEFINE i == Len(messages) + 1
           Way(s, e) == e \in open[s] /\ s[3 - e] = n /\ s[e] \in peers /\ clients[n][s[e]] = 3 - e
<1>0. /\ Len(messages) \in Nat /\ i \in Nat /\ i \in 1..MaxMessages
      /\ messages \in Seq(Message) /\ [sender |-> n, to |-> to] \in Message
      /\ \A s \in GossipPeers, e \in Ends : wire[s][e] \in Seq(Nat) /\ Len(wire[s][e]) \in Nat
  BY Wires DEF IInv, Typed, Message
<1>1. /\ messages' \in Seq(Message) /\ Len(messages') = i
      /\ messages'[i].sender = n /\ messages'[i].to = to
      /\ \A j \in 1..Len(messages) : messages'[j] = messages[j]
  BY <1>0 DEF NewMessage
<1>2. \A s \in GossipPeers, e \in Ends :
        wire'[s][e] = IF Way(s, e) THEN Append(wire[s][e], i) ELSE wire[s][e]
  BY DEF Sent
<1>3. wire' \in [GossipPeers -> [Ends -> Seq(Nat)]]
  <2> HIDE DEF i, Way
  <2>1. \A s \in GossipPeers, e \in Ends : wire'[s][e] \in Seq(Nat)
    <3> TAKE s \in GossipPeers, e \in Ends
    <3>1. wire[s][e] \in Seq(Nat) /\ i \in Nat
      BY <1>0
    <3>2. Append(wire[s][e], i) \in Seq(Nat)
      BY <3>1, AppendProperties
    <3> QED
      BY <1>2, <3>1, <3>2
  <2> QED
    BY <2>1 DEF Sent
<1> HIDE DEF i, Way
<1>4. Typed'
  BY <1>0, <1>1, <1>3 DEF IInv, Typed, Message
<1>5. Table'
  <2>1. \A s \in GossipPeers, e \in Ends : e \notin open[s] => wire'[s][e] = wire[s][e]
    BY <1>2 DEF Way
  <2> QED
    BY <2>1 DEF IInv, Table
<1>6. ASSUME NEW s \in GossipPeers, NEW e \in Ends, NEW k \in 1..Len(wire'[s][e])
      PROVE  \/ k \in 1..Len(wire[s][e]) /\ wire'[s][e][k] = wire[s][e][k]
             \/ Way(s, e) /\ wire'[s][e][k] = i /\ k = Len(wire[s][e]) + 1
  <2>1. CASE Way(s, e)
    <3>1. wire'[s][e] = Append(wire[s][e], i) /\ wire[s][e] \in Seq(Nat) /\ i \in Nat
      BY <1>0, <1>2, <2>1
    <3>2. /\ Len(wire'[s][e]) = Len(wire[s][e]) + 1
          /\ \A j \in 1..Len(wire[s][e]) : wire'[s][e][j] = wire[s][e][j]
          /\ wire'[s][e][Len(wire[s][e]) + 1] = i
      BY <3>1, AppendProperties
    <3>3. Len(wire[s][e]) \in Nat /\ (k \in 1..Len(wire[s][e]) \/ k = Len(wire[s][e]) + 1)
      BY <1>0, <3>2
    <3> QED
      BY <2>1, <3>2, <3>3
  <2>2. CASE ~ Way(s, e)
    BY <1>2, <2>2
  <2> QED
    BY <2>1, <2>2
<1>7. \A s \in GossipPeers, e \in Ends : \A k \in 1..Len(wire[s][e]) : wire[s][e][k] # i
  <2>1. i \notin 1..Len(messages) /\ i # Hello
    BY <1>0 DEF i, Hello
  <2> QED
    BY <2>1 DEF IInv, Carried
<1>8. \A s, t \in GossipPeers, e, f \in Ends :
        Way(s, e) /\ Way(t, f) /\ t[f] = s[e] => t = s /\ f = e
  <2> TAKE s, t \in GossipPeers, e, f \in Ends
  <2> HAVE Way(s, e) /\ Way(t, f) /\ t[f] = s[e]
  <2>1. 3 - e = 3 - f
    BY DEF Way
  <2>2. e = f
    BY <2>1 DEF Ends
  <2> QED
    BY <2>2, Sockets DEF Way
<1>9. ASSUME NEW s \in GossipPeers, NEW e \in Ends, Way(s, e)
      PROVE  /\ i \in 1..Len(messages') /\ s[1] # s[2] /\ messages'[i].sender = s[3 - e]
             /\ received'[i][s[e]] = 0
  <2>1. clients[n][s[e]] \in Ends /\ s[e] \in Nodes /\ s[3 - e] = n
    BY <1>9, Sockets DEF Way
  <2>2. n # s[e]
    BY <2>1 DEF IInv, Table
  <2>3. s[1] # s[2]
    BY <2>1, <2>2 DEF Ends
  <2>4. received[i][s[e]] = 0
    BY <1>0, <2>1 DEF IInv, Unsent, i
  <2> QED
    BY <1>0, <1>1, <2>1, <2>3, <2>4
<1>10. Carried'
  <2> SUFFICES ASSUME NEW s \in GossipPeers, NEW e \in Ends, NEW k \in 1..Len(wire'[s][e]),
                      wire'[s][e][k] # Hello
               PROVE  /\ wire'[s][e][k] \in 1..Len(messages')
                      /\ s[1] # s[2] /\ messages'[wire'[s][e][k]].sender = s[3 - e]
                      /\ received'[wire'[s][e][k]][s[e]] = 0
                      /\ \A t \in GossipPeers, f \in Ends : \A l \in 1..Len(wire'[t][f]) :
                           wire'[t][f][l] = wire'[s][e][k] /\ t[f] = s[e] => t = s /\ f = e /\ l = k
    BY DEF Carried
  <2>1. CASE k \in 1..Len(wire[s][e]) /\ wire'[s][e][k] = wire[s][e][k]
    <3> DEFINE j == wire[s][e][k]
    <3>1. /\ j \in 1..Len(messages) /\ s[1] # s[2] /\ messages[j].sender = s[3 - e]
          /\ received[j][s[e]] = 0
          /\ \A t \in GossipPeers, f \in Ends : \A l \in 1..Len(wire[t][f]) :
               wire[t][f][l] = j /\ t[f] = s[e] => t = s /\ f = e /\ l = k
          /\ j # i /\ wire'[s][e][k] = j
      BY <1>7, <2>1 DEF IInv, Carried
    <3> HIDE DEF j
    <3>2. j \in 1..Len(messages') /\ messages'[j].sender = s[3 - e]
      BY <1>0, <1>1, <3>1 DEF i
    <3>3. \A t \in GossipPeers, f \in Ends : \A l \in 1..Len(wire'[t][f]) :
            wire'[t][f][l] = j /\ t[f] = s[e] => t = s /\ f = e /\ l = k
      <4> TAKE t \in GossipPeers, f \in Ends
      <4> TAKE l \in 1..Len(wire'[t][f])
      <4> HAVE wire'[t][f][l] = j /\ t[f] = s[e]
      <4>1. l \in 1..Len(wire[t][f]) /\ wire[t][f][l] = j
        BY <1>6, <3>1
      <4> QED
        BY <3>1, <4>1
    <3> QED
      BY <3>1, <3>2, <3>3
  <2>2. CASE Way(s, e) /\ wire'[s][e][k] = i /\ k = Len(wire[s][e]) + 1
    <3>1. \A t \in GossipPeers, f \in Ends : \A l \in 1..Len(wire'[t][f]) :
            wire'[t][f][l] = i /\ t[f] = s[e] => t = s /\ f = e /\ l = k
      <4> TAKE t \in GossipPeers, f \in Ends
      <4> TAKE l \in 1..Len(wire'[t][f])
      <4> HAVE wire'[t][f][l] = i /\ t[f] = s[e]
      <4>1. Way(t, f) /\ l = Len(wire[t][f]) + 1
        BY <1>6, <1>7
      <4>2. t = s /\ f = e
        BY <1>8, <2>2, <4>1
      <4> QED
        BY <2>2, <4>1, <4>2
    <3> QED
      BY <1>9, <2>2, <3>1
  <2> QED
    BY <1>6, <2>1, <2>2
<1>11. Unsent' /\ Once'
  <2>1. \A m \in Nodes : received[i][m] = 0
    BY <1>0 DEF IInv, Unsent, i
  <2>2. Unsent'
    BY <1>0, <1>1 DEF IInv, Unsent, i
  <2>3. Once'
    <3> SUFFICES ASSUME NEW j \in 1..Len(messages'), NEW m \in Nodes
                 PROVE  /\ received[j][m] <= 1
                        /\ received[j][m] = 1 => m \in messages'[j].to \ {messages'[j].sender}
      BY DEF Once, DeliveredOnceToItsRecipients
    <3>1. CASE j = i
      BY <2>1, <3>1
    <3>2. CASE j # i
      <4>1. j \in 1..Len(messages)
        BY <1>0, <1>1, <3>2 DEF i
      <4> QED
        BY <1>1, <4>1 DEF IInv, Once, DeliveredOnceToItsRecipients
    <3> QED
      BY <3>1, <3>2
  <2> QED
    BY <2>2, <2>3
<1> QED
  BY <1>4, <1>5, <1>10, <1>11 DEF IInv

-----------------------------------------------------------------------------
(***************************************************************************)
(* Sockets open and close.                                                 *)
(***************************************************************************)
(* A process starts or dials, or an attempt fails: the sockets stay.       *)
LEMMA DialStep ==
  ASSUME IInv, UNCHANGED <<open, wire, clients, messages, received, crashes>>,
         up' \subseteq Nodes, dialing' \subseteq GossipPeers,
         \A pair \in broken' : pair \subseteq Nodes
  PROVE  IInv'
<1>1. Typed' /\ Table'
  BY DEF IInv, Typed, Table
<1>2. Shrinks
  BY ShrinkEnds DEF IInv, Typed
<1> QED
  BY <1>1, <1>2, Nothing DEF IInv

(* An end closes: no table names it any more.                              *)
LEMMA CloseStep ==
  ASSUME IInv, NEW n \in Nodes, NEW p \in Nodes, NEW e \in Ends,
         Socket(n, p, e) \in GossipPeers, CloseEnd(n, p, e)
  PROVE  /\ open' \in [GossipPeers -> SUBSET Ends]
         /\ \A t \in GossipPeers : open'[t] = IF t = Socket(n, p, e) THEN open[t] \ {e} ELSE open[t]
         /\ clients' \in [Nodes -> [Nodes -> {None, Closed} \cup Ends]]
         /\ \A m, q \in Nodes : clients'[m][q] \in Ends =>
              LET t == Socket(m, q, clients'[m][q])
              IN  m # q /\ t \in GossipPeers /\ clients'[m][q] \in open'[t]
<1> DEFINE s == Socket(n, p, e)
<1>0. /\ open \in [GossipPeers -> SUBSET Ends] /\ s \in GossipPeers
      /\ clients \in [Nodes -> [Nodes -> {None, Closed} \cup Ends]]
      /\ s[e] = n /\ s[3 - e] = p
  BY Sockets DEF IInv, Typed
<1>1. /\ open' = [open EXCEPT ![s] = @ \ {e}]
      /\ clients' = IF clients[n][p] = e THEN [clients EXCEPT ![n][p] = Closed] ELSE clients
  BY DEF CloseEnd, WithoutEnds
<1>2. Closed \notin Ends
  BY GossipAssumption DEF GossipAssumption, Ends
<1> HIDE DEF s
<1>3. /\ open' \in [GossipPeers -> SUBSET Ends]
      /\ \A t \in GossipPeers : open'[t] = IF t = s THEN open[t] \ {e} ELSE open[t]
  BY <1>0, <1>1
<1>4. /\ clients' \in [Nodes -> [Nodes -> {None, Closed} \cup Ends]]
      /\ \A m, q \in Nodes : clients'[m][q] \in Ends =>
           clients'[m][q] = clients[m][q] /\ ~ (m = n /\ q = p /\ clients[m][q] = e)
  <2>1. CASE clients[n][p] = e
    <3>1. /\ clients' \in [Nodes -> [Nodes -> {None, Closed} \cup Ends]]
          /\ \A m, q \in Nodes :
               clients'[m][q] = IF m = n /\ q = p THEN Closed ELSE clients[m][q]
      BY <1>0, <1>1, <2>1
    <3> QED
      BY <1>2, <3>1
  <2>2. CASE clients[n][p] # e
    BY <1>0, <1>1, <2>2
  <2> QED
    BY <2>1, <2>2
<1>5. ASSUME NEW m \in Nodes, NEW q \in Nodes, clients'[m][q] \in Ends
      PROVE  /\ m # q /\ Socket(m, q, clients'[m][q]) \in GossipPeers
             /\ clients'[m][q] \in open'[Socket(m, q, clients'[m][q])]
  <2> DEFINE f == clients'[m][q]
             t == Socket(m, q, f)
  <2>1. clients[m][q] = f /\ ~ (m = n /\ q = p /\ f = e) /\ f \in Ends
    BY <1>4, <1>5
  <2>2. m # q /\ t \in GossipPeers /\ f \in open[t]
    BY <2>1 DEF IInv, Table
  <2>3. t[f] = m /\ t[3 - f] = q
    BY <2>1, Sockets
  <2> HIDE DEF f, t
  <2>4. t = s => f # e
    BY <1>0, <2>1, <2>3
  <2>5. f \in open'[t]
    BY <1>3, <2>2, <2>4
  <2> QED
    BY <2>2, <2>5 DEF t, f
<1> QED
  BY <1>3, <1>4, <1>5 DEF s

(* A socket opens.                                                         *)
LEMMA ConnectedStep ==
  ASSUME IInv, NEW n \in Nodes, NEW p \in Nodes, Connected(n, p)
  PROVE  IInv'
<1> DEFINE s == <<n, p>>
<1>0. /\ s \in GossipPeers /\ dialing' \subseteq GossipPeers
      /\ open' = [open EXCEPT ![s] = Ends]
      /\ wire' = [wire EXCEPT ![s] = [e \in Ends |-> <<Hello>>]]
      /\ clients' = IF clients[p][n] \in {2} THEN [clients EXCEPT ![p][n] = Closed] ELSE clients
      /\ UNCHANGED <<up, messages, received, crashes, broken>>
  BY DEF Connected, WithoutEnds, faultVars, IInv, Typed
<1>1. /\ open \in [GossipPeers -> SUBSET Ends]
      /\ wire \in [GossipPeers -> [Ends -> Seq(Nat)]]
      /\ clients \in [Nodes -> [Nodes -> {None, Closed} \cup Ends]]
  BY DEF IInv, Typed
<1> HIDE DEF s
<1>2. /\ open' \in [GossipPeers -> SUBSET Ends]
      /\ \A t \in GossipPeers : open[t] \subseteq open'[t] /\ (t = s => open'[t] = Ends)
  BY <1>0, <1>1
<1>3. /\ [e \in Ends |-> <<Hello>>] \in [Ends -> Seq(Nat)]
      /\ wire' \in [GossipPeers -> [Ends -> Seq(Nat)]]
      /\ \A t \in GossipPeers, e \in Ends :
           wire'[t][e] = IF t = s THEN <<Hello>> ELSE wire[t][e]
  <2>1. <<Hello>> \in Seq(Nat)
    BY DEF Hello
  <2> QED
    BY <1>0, <1>1, <2>1
<1>4. /\ clients' \in [Nodes -> [Nodes -> {None, Closed} \cup Ends]]
      /\ \A m, q \in Nodes : clients'[m][q] \in Ends => clients'[m][q] = clients[m][q]
  <2>1. Closed \notin Ends
    BY GossipAssumption DEF GossipAssumption, Ends
  <2>2. CASE clients[p][n] \in {2}
    <3>1. /\ clients' \in [Nodes -> [Nodes -> {None, Closed} \cup Ends]]
          /\ \A m, q \in Nodes :
               clients'[m][q] = IF m = p /\ q = n THEN Closed ELSE clients[m][q]
      BY <1>0, <1>1, <2>2
    <3> QED
      BY <2>1, <3>1
  <2>3. CASE ~ (clients[p][n] \in {2})
    BY <1>0, <1>1, <2>3
  <2> QED
    BY <2>2, <2>3
<1>5. Typed'
  BY <1>0, <1>2, <1>3, <1>4 DEF IInv, Typed
<1>6. Table'
  <2>1. ASSUME NEW m \in Nodes, NEW q \in Nodes, clients'[m][q] \in Ends
        PROVE  /\ m # q /\ Socket(m, q, clients'[m][q]) \in GossipPeers
               /\ clients'[m][q] \in open'[Socket(m, q, clients'[m][q])]
    <3>1. clients'[m][q] = clients[m][q]
      BY <1>4, <2>1
    <3>2. /\ m # q /\ Socket(m, q, clients[m][q]) \in GossipPeers
          /\ clients[m][q] \in open[Socket(m, q, clients[m][q])]
      BY <2>1, <3>1 DEF IInv, Table
    <3> QED
      BY <1>2, <3>1, <3>2
  <2>2. ASSUME NEW t \in GossipPeers, NEW e \in Ends, e \notin open'[t]
        PROVE  wire'[t][e] = <<>>
    <3>1. t # s /\ e \notin open[t]
      BY <1>2, <2>2
    <3> QED
      BY <1>3, <3>1 DEF IInv, Table
  <2> QED
    BY <2>1, <2>2 DEF Table
<1>7. Shrinks
  BY <1>3, ShrinkEnds DEF IInv
<1> QED
  BY <1>0, <1>5, <1>6, <1>7, Nothing DEF IInv

(* A process ends: all its ends are closed and its table is gone.          *)
LEMMA CrashStep ==
  ASSUME IInv, NEW n \in Nodes, Crash(n)
  PROVE  IInv'
<1>0. /\ up' \subseteq Nodes /\ dialing' \subseteq GossipPeers /\ crashes' \in 0..MaxCrashes
      /\ open' = [s \in GossipPeers |-> open[s] \ {e \in Ends : s[e] = n}]
      /\ wire' = [s \in GossipPeers |-> [e \in Ends |-> IF s[e] = n THEN <<>> ELSE wire[s][e]]]
      /\ clients' = [clients EXCEPT ![n] = [p \in Nodes |-> None]]
      /\ messages' = messages /\ received' = received /\ broken' = broken
  BY GossipAssumption DEF Crash, IInv, Typed, GossipAssumption
<1>1. /\ open \in [GossipPeers -> SUBSET Ends]
      /\ wire \in [GossipPeers -> [Ends -> Seq(Nat)]]
      /\ clients \in [Nodes -> [Nodes -> {None, Closed} \cup Ends]]
  BY DEF IInv, Typed
<1>2. /\ open' \in [GossipPeers -> SUBSET Ends]
      /\ \A s \in GossipPeers, e \in Ends : e \in open'[s] <=> e \in open[s] /\ s[e] # n
  BY <1>0, <1>1
<1>3. /\ wire' \in [GossipPeers -> [Ends -> Seq(Nat)]]
      /\ \A s \in GossipPeers, e \in Ends :
           wire'[s][e] = IF s[e] = n THEN <<>> ELSE wire[s][e]
  BY <1>0, <1>1
<1>4. /\ clients' \in [Nodes -> [Nodes -> {None, Closed} \cup Ends]]
      /\ \A m, q \in Nodes : clients'[m][q] = IF m = n THEN None ELSE clients[m][q]
  BY <1>0, <1>1
<1>5. Typed'
  BY <1>0, <1>2, <1>3, <1>4 DEF IInv, Typed
<1>6. Table'
  <2>1. ASSUME NEW m \in Nodes, NEW q \in Nodes, clients'[m][q] \in Ends
        PROVE  /\ m # q /\ Socket(m, q, clients'[m][q]) \in GossipPeers
               /\ clients'[m][q] \in open'[Socket(m, q, clients'[m][q])]
    <3>1. None \notin Ends
      BY GossipAssumption DEF GossipAssumption, Ends
    <3>2. m # n /\ clients'[m][q] = clients[m][q]
      BY <1>4, <2>1, <3>1
    <3>3. /\ m # q /\ Socket(m, q, clients[m][q]) \in GossipPeers
          /\ clients[m][q] \in open[Socket(m, q, clients[m][q])]
      BY <2>1, <3>2 DEF IInv, Table
    <3>4. Socket(m, q, clients[m][q])[clients[m][q]] = m
      BY <2>1, <3>2, Sockets
    <3> QED
      BY <1>2, <2>1, <3>2, <3>3, <3>4
  <2>2. ASSUME NEW s \in GossipPeers, NEW e \in Ends, e \notin open'[s]
        PROVE  wire'[s][e] = <<>>
    BY <1>2, <1>3, <2>2 DEF IInv, Table
  <2> QED
    BY <2>1, <2>2 DEF Table
<1>7. Shrinks
  BY <1>3, ShrinkEnds DEF IInv
<1> QED
  BY <1>0, <1>5, <1>6, <1>7, Nothing DEF IInv

(* The other end of a socket is noticed to be gone.                        *)
LEMMA PeerClosedStep ==
  ASSUME IInv, NEW n \in Nodes, NEW p \in Nodes, NEW e \in Ends, PeerClosed(n, p, e)
  PROVE  IInv'
<1> DEFINE s == Socket(n, p, e)
<1>0. /\ s \in GossipPeers /\ wire[s][e] = <<>> /\ CloseEnd(n, p, e)
      /\ UNCHANGED <<up, dialing, wire, messages, received, crashes, broken>>
  BY DEF PeerClosed, faultVars
<1> HIDE DEF s
<1>1. /\ open' \in [GossipPeers -> SUBSET Ends]
      /\ \A t \in GossipPeers : open'[t] = IF t = s THEN open[t] \ {e} ELSE open[t]
      /\ clients' \in [Nodes -> [Nodes -> {None, Closed} \cup Ends]]
      /\ \A m, q \in Nodes : clients'[m][q] \in Ends =>
           LET t == Socket(m, q, clients'[m][q])
           IN  m # q /\ t \in GossipPeers /\ clients'[m][q] \in open'[t]
  BY <1>0, CloseStep DEF s
<1>2. Typed'
  BY <1>0, <1>1 DEF IInv, Typed
<1>3. \A t \in GossipPeers, f \in Ends : f \notin open'[t] => wire'[t][f] = <<>>
  BY <1>0, <1>1 DEF IInv, Table
<1>4. Table'
  BY <1>1, <1>3 DEF Table
<1>5. Shrinks
  BY <1>0, ShrinkEnds DEF IInv, Typed
<1> QED
  BY <1>0, <1>2, <1>4, <1>5, Nothing DEF IInv

(* A socket is cut.                                                        *)
LEMMA CutStep ==
  ASSUME IInv, NEW n \in Nodes, NEW p \in Nodes, NEW e \in Ends, Cut(n, p, e)
  PROVE  IInv'
<1> DEFINE s == Socket(n, p, e)
<1>0. /\ s \in GossipPeers /\ CloseEnd(n, p, e)
      /\ broken' = broken \cup {{n, p}} /\ wire' = [wire EXCEPT ![s] = NoFrames]
      /\ UNCHANGED <<up, dialing, messages, received, crashes>>
  BY DEF Cut
<1> HIDE DEF s
<1>1. /\ open' \in [GossipPeers -> SUBSET Ends]
      /\ \A t \in GossipPeers : open'[t] = IF t = s THEN open[t] \ {e} ELSE open[t]
      /\ clients' \in [Nodes -> [Nodes -> {None, Closed} \cup Ends]]
      /\ \A m, q \in Nodes : clients'[m][q] \in Ends =>
           LET t == Socket(m, q, clients'[m][q])
           IN  m # q /\ t \in GossipPeers /\ clients'[m][q] \in open'[t]
  BY <1>0, CloseStep DEF s
<1>2. /\ wire' \in [GossipPeers -> [Ends -> Seq(Nat)]]
      /\ \A t \in GossipPeers, f \in Ends : wire'[t][f] = IF t = s THEN <<>> ELSE wire[t][f]
  BY <1>0 DEF IInv, Typed, NoFrames
<1>3. Typed'
  <2>1. \A pair \in broken' : pair \subseteq Nodes
    BY <1>0 DEF IInv, Typed
  <2> QED
    BY <1>0, <1>1, <1>2, <2>1 DEF IInv, Typed
<1>4. \A t \in GossipPeers, f \in Ends : f \notin open'[t] => wire'[t][f] = <<>>
  <2>1. \A t \in GossipPeers, f \in Ends : f \notin open[t] => wire[t][f] = <<>>
    BY DEF IInv, Table
  <2> TAKE t \in GossipPeers, f \in Ends
  <2> HAVE f \notin open'[t]
  <2>2. CASE t = s /\ f = e
    BY <1>2, <2>2
  <2>3. CASE ~ (t = s /\ f = e)
    <3>1. f \notin open[t]
      BY <1>1, <2>3
    <3>2. wire[t][f] = <<>>
      BY <2>1, <3>1
    <3> QED
      BY <1>2, <3>2
  <2> QED
    BY <2>2, <2>3
<1>5. Table'
  BY <1>1, <1>4 DEF Table
<1>6. Shrinks
  BY <1>2, ShrinkEnds DEF IInv
<1> QED
  BY <1>0, <1>3, <1>5, <1>6, Nothing DEF IInv

-----------------------------------------------------------------------------
(***************************************************************************)
(* A frame arrives.                                                        *)
(***************************************************************************)
(* A node that dialled itself closes the end.                              *)
LEMMA SelfStep ==
  ASSUME IInv, NEW n \in Nodes, NEW e \in Ends, <<n, n>> \in GossipPeers,
         DisconnectFromSelf(n, e), UNCHANGED <<up, dialing, messages, crashes>>
  PROVE  IInv'
<1> DEFINE s == <<n, n>>
<1>0. /\ s \in GossipPeers /\ s = Socket(n, n, e) /\ CloseEnd(n, n, e)
      /\ wire' = [wire EXCEPT ![s][e] = <<>>]
      /\ received' = received /\ broken' = broken
  BY DEF DisconnectFromSelf, Socket
<1> HIDE DEF s
<1>1. /\ open' \in [GossipPeers -> SUBSET Ends]
      /\ \A t \in GossipPeers : open'[t] = IF t = s THEN open[t] \ {e} ELSE open[t]
      /\ clients' \in [Nodes -> [Nodes -> {None, Closed} \cup Ends]]
      /\ \A m, q \in Nodes : clients'[m][q] \in Ends =>
           LET t == Socket(m, q, clients'[m][q])
           IN  m # q /\ t \in GossipPeers /\ clients'[m][q] \in open'[t]
  <2>1. Socket(n, n, e) \in GossipPeers /\ CloseEnd(n, n, e)
    BY <1>0
  <2>2. /\ open' \in [GossipPeers -> SUBSET Ends]
        /\ \A t \in GossipPeers :
             open'[t] = IF t = Socket(n, n, e) THEN open[t] \ {e} ELSE open[t]
        /\ clients' \in [Nodes -> [Nodes -> {None, Closed} \cup Ends]]
        /\ \A m, q \in Nodes : clients'[m][q] \in Ends =>
             LET t == Socket(m, q, clients'[m][q])
             IN  m # q /\ t \in GossipPeers /\ clients'[m][q] \in open'[t]
    BY <2>1, CloseStep
  <2> QED
    BY <1>0, <2>2
<1>2. /\ wire' \in [GossipPeers -> [Ends -> Seq(Nat)]] /\ Shrinks
      /\ \A t \in GossipPeers, f \in Ends : wire'[t][f] = IF t = s /\ f = e THEN <<>> ELSE wire[t][f]
  <2>1. <<>> \in Seq(Nat) /\ OnlyWire(s, e, <<>>) /\ Typed
    BY <1>0 DEF OnlyWire, IInv
  <2> QED
    BY <1>0, <2>1, ShrinkOne
<1>3. Typed'
  BY <1>0, <1>1, <1>2 DEF IInv, Typed
<1>4. \A t \in GossipPeers, f \in Ends : f \notin open'[t] => wire'[t][f] = <<>>
  <2>1. \A t \in GossipPeers, f \in Ends : f \notin open[t] => wire[t][f] = <<>>
    BY DEF IInv, Table
  <2> TAKE t \in GossipPeers, f \in Ends
  <2> HAVE f \notin open'[t]
  <2>2. CASE t = s /\ f = e
    BY <1>2, <2>2
  <2>3. CASE ~ (t = s /\ f = e)
    <3>1. f \notin open[t]
      BY <1>1, <2>3
    <3>2. wire[t][f] = <<>>
      BY <2>1, <3>1
    <3> QED
      BY <1>2, <3>2
  <2> QED
    BY <2>2, <2>3
<1>5. Table'
  BY <1>1, <1>4 DEF Table
<1> QED
  BY <1>0, <1>2, <1>3, <1>5, Nothing DEF IInv

(* A hello enters the end in the table.                                    *)
LEMMA RegisterStep ==
  ASSUME IInv, NEW n \in Nodes, NEW p \in Nodes, NEW e \in Ends, n # p,
         Socket(n, p, e) \in GossipPeers, e \in open[Socket(n, p, e)],
         wire[Socket(n, p, e)][e] # <<>>, Register(n, p, e),
         UNCHANGED <<up, dialing, messages, crashes>>
  PROVE  IInv'
<1> DEFINE s == Socket(n, p, e)
           w == Tail(wire[s][e])
<1>0. /\ s \in GossipPeers /\ e \in open[s] /\ wire[s][e] # <<>>
      /\ wire' = [wire EXCEPT ![s][e] = w]
      /\ clients' = [clients EXCEPT ![n][p] = e]
      /\ broken' \in {broken, broken \cup {{n, p}}}
      /\ open' = open /\ received' = received
  BY DEF Register
<1>1. w \in Seq(Nat)
  BY <1>0, Wires, HeadTailProperties DEF IInv
<1> HIDE DEF s
<1>2. /\ wire' \in [GossipPeers -> [Ends -> Seq(Nat)]] /\ Shrinks
      /\ \A t \in GossipPeers, f \in Ends : wire'[t][f] = IF t = s /\ f = e THEN w ELSE wire[t][f]
  BY <1>0, <1>1, ShrinkOne DEF IInv, OnlyWire
<1>3. /\ clients' \in [Nodes -> [Nodes -> {None, Closed} \cup Ends]]
      /\ \A m, q \in Nodes : clients'[m][q] = IF m = n /\ q = p THEN e ELSE clients[m][q]
  BY <1>0 DEF IInv, Typed
<1>4. Typed'
  <2>1. \A pair \in broken' : pair \subseteq Nodes
    BY <1>0 DEF IInv, Typed
  <2> QED
    BY <1>0, <1>2, <1>3, <2>1 DEF IInv, Typed
<1>5. Table'
  <2>1. ASSUME NEW m \in Nodes, NEW q \in Nodes, clients'[m][q] \in Ends
        PROVE  /\ m # q /\ Socket(m, q, clients'[m][q]) \in GossipPeers
               /\ clients'[m][q] \in open'[Socket(m, q, clients'[m][q])]
    <3>1. CASE m = n /\ q = p
      BY <1>0, <1>3, <3>1 DEF s
    <3>2. CASE ~ (m = n /\ q = p)
      BY <1>0, <1>3, <2>1, <3>2 DEF IInv, Table
    <3> QED
      BY <3>1, <3>2
  <2>2. \A t \in GossipPeers, f \in Ends : f \notin open'[t] => wire'[t][f] = <<>>
    <3>1. \A t \in GossipPeers, f \in Ends : f \notin open[t] => wire[t][f] = <<>>
      BY DEF IInv, Table
    <3> QED
      BY <1>0, <1>2, <3>1
  <2> QED
    BY <2>1, <2>2 DEF Table
<1> QED
  BY <1>0, <1>2, <1>4, <1>5, Nothing DEF IInv

(* A message is handed to the listener if it is for this node.             *)
LEMMA DeliverStep ==
  ASSUME IInv, NEW n \in Nodes, NEW p \in Nodes, NEW e \in Ends, n # p,
         Socket(n, p, e) \in GossipPeers, e \in open[Socket(n, p, e)],
         wire[Socket(n, p, e)][e] # <<>>, Head(wire[Socket(n, p, e)][e]) # Hello,
         Deliver(n, p, e), UNCHANGED <<up, dialing, messages, crashes>>
  PROVE  IInv'
<1> DEFINE s == Socket(n, p, e)
           w == Tail(wire[s][e])
           i == Head(wire[s][e])
<1>0. /\ s \in GossipPeers /\ e \in open[s] /\ wire[s][e] # <<>> /\ i # Hello
      /\ wire' = [wire EXCEPT ![s][e] = w]
      /\ received' = IF n \in messages[i].to THEN [received EXCEPT ![i][n] = @ + 1] ELSE received
      /\ open' = open /\ clients' = clients /\ broken' = broken
  BY DEF Deliver
<1>1. /\ w \in Seq(Nat) /\ wire[s][e] \in Seq(Nat) /\ Len(wire[s][e]) \in Nat
      /\ 1 \in 1..Len(wire[s][e]) /\ i = wire[s][e][1]
      /\ Len(w) = Len(wire[s][e]) - 1 /\ \A k \in 1..Len(w) : w[k] = wire[s][e][k + 1]
  BY <1>0, Wires, HeadTailProperties DEF IInv
<1>2. s[e] = n /\ s[3 - e] = p
  BY Sockets
<1> HIDE DEF s, w, i
<1>3. /\ wire' \in [GossipPeers -> [Ends -> Seq(Nat)]] /\ Shrinks
      /\ \A t \in GossipPeers, f \in Ends : wire'[t][f] = IF t = s /\ f = e THEN w ELSE wire[t][f]
  BY <1>0, <1>1, ShrinkOne DEF IInv, OnlyWire, w
<1>4. /\ i \in 1..Len(messages) /\ messages[i].sender = p /\ received[i][n] = 0
      /\ \A t \in GossipPeers, f \in Ends : \A l \in 1..Len(wire[t][f]) :
           wire[t][f][l] = i /\ t[f] = n => t = s /\ f = e /\ l = 1
  <2>1. wire[s][e][1] # Hello /\ 1 \in 1..Len(wire[s][e])
    BY <1>0, <1>1
  <2>2. /\ wire[s][e][1] \in 1..Len(messages) /\ messages[wire[s][e][1]].sender = s[3 - e]
        /\ received[wire[s][e][1]][s[e]] = 0
        /\ \A t \in GossipPeers, f \in Ends : \A l \in 1..Len(wire[t][f]) :
             wire[t][f][l] = wire[s][e][1] /\ t[f] = s[e] => t = s /\ f = e /\ l = 1
    BY <1>0, <2>1 DEF IInv, Carried
  <2>3. wire[s][e][1] = i
    BY <1>1
  <2> QED
    BY <1>2, <2>2, <2>3
<1>5. i \in 1..MaxMessages /\ received \in [1..MaxMessages -> [Nodes -> Nat]]
  BY <1>4, Wires DEF IInv, Typed
<1>6. /\ received' \in [1..MaxMessages -> [Nodes -> Nat]]
      /\ \A j \in 1..MaxMessages, m \in Nodes :
           \/ received'[j][m] = received[j][m]
           \/ j = i /\ m = n /\ n \in messages[i].to /\ received'[j][m] = 1
  <2>1. CASE n \in messages[i].to
    <3>1. /\ received' \in [1..MaxMessages -> [Nodes -> Nat]]
          /\ \A j \in 1..MaxMessages, m \in Nodes :
               received'[j][m] = IF j = i /\ m = n THEN received[j][m] + 1 ELSE received[j][m]
      BY <1>0, <1>5, <2>1
    <3> QED
      BY <1>4, <2>1, <3>1
  <2>2. CASE n \notin messages[i].to
    BY <1>0, <1>5, <2>2
  <2> QED
    BY <2>1, <2>2
<1>7. Typed'
  BY <1>0, <1>3, <1>6 DEF IInv, Typed
<1>8. Table'
  <2>1. \A t \in GossipPeers, f \in Ends : f \notin open'[t] => wire'[t][f] = <<>>
    <3>1. \A t \in GossipPeers, f \in Ends : f \notin open[t] => wire[t][f] = <<>>
      BY DEF IInv, Table
    <3> QED
      BY <1>0, <1>3, <3>1
  <2> QED
    BY <1>0, <2>1 DEF IInv, Table
<1>9. ASSUME NEW t \in GossipPeers, NEW f \in Ends, NEW k \in 1..Len(wire'[t][f]),
             wire'[t][f][k] # Hello
      PROVE  received'[wire'[t][f][k]][t[f]] = 0
  <2> DEFINE j == wire'[t][f][k]
  <2>1. \E l \in 1..Len(wire[t][f]) : wire[t][f][l] = j /\ (t = s /\ f = e => l # 1)
    <3>1. CASE t = s /\ f = e
      <4>1. wire'[t][f] = w
        BY <1>3, <3>1
      <4>2. k \in 1..Len(w) /\ j = w[k]
        BY <4>1
      <4>3. j = wire[s][e][k + 1] /\ k + 1 \in 1..Len(wire[s][e]) /\ k + 1 # 1
        <5>1. w[k] = wire[s][e][k + 1]
          BY <1>1, <4>2
        <5>2. k \in Int /\ k >= 1 /\ k <= Len(wire[s][e]) - 1 /\ Len(wire[s][e]) \in Nat
          BY <1>1, <4>2
        <5>3. k + 1 \in 1..Len(wire[s][e]) /\ k + 1 # 1
          BY <5>2
        <5> QED
          BY <4>2, <5>1, <5>3
      <4> QED
        BY <3>1, <4>3
    <3>2. CASE ~ (t = s /\ f = e)
      BY <1>3, <3>2
    <3> QED
      BY <3>1, <3>2
  <2>2. PICK l \in 1..Len(wire[t][f]) : wire[t][f][l] = j /\ (t = s /\ f = e => l # 1)
    BY <2>1
  <2> HIDE DEF j
  <2>3. j \in 1..Len(messages) /\ received[j][t[f]] = 0
    <3>1. j # Hello
      BY <1>9 DEF j
    <3>2. wire[t][f][l] # Hello
      BY <2>2, <3>1
    <3>3. wire[t][f][l] \in 1..Len(messages) /\ received[wire[t][f][l]][t[f]] = 0
      BY <3>2 DEF IInv, Carried
    <3> QED
      BY <2>2, <3>3
  <2>4. ~ (j = i /\ t[f] = n)
    BY <1>4, <2>2
  <2>5. j \in 1..MaxMessages /\ t[f] \in Nodes
    <3>1. t[f] \in Nodes
      BY Sockets
    <3>2. Len(messages) <= MaxMessages /\ Len(messages) \in Nat /\ MaxMessages \in Nat
      BY Wires DEF IInv, Typed
    <3> QED
      BY <2>3, <3>1, <3>2
  <2>6. received'[j][t[f]] = 0
    BY <1>6, <2>3, <2>4, <2>5
  <2> QED
    BY <2>6 DEF j
<1>10. Carried'
  BY <1>3, <1>7, <1>9, Shrunk DEF IInv
<1>11. Unsent'
  BY <1>4, <1>6 DEF IInv, Unsent
<1>12. Once'
  <2>1. \A j \in 1..Len(messages) : j \in 1..MaxMessages
    BY Wires DEF IInv, Typed
  <2> QED
    BY <1>4, <1>6, <2>1 DEF IInv, Once, DeliveredOnceToItsRecipients
<1> QED
  BY <1>7, <1>8, <1>10, <1>11, <1>12 DEF IInv

-----------------------------------------------------------------------------
(***************************************************************************)
(* The inductive invariant.                                                *)
(***************************************************************************)
(* It holds at first.                                                      *)
LEMMA IInvInit == Init => IInv
<1> SUFFICES ASSUME Init PROVE IInv
  OBVIOUS
<1>1. Len(messages) = 0 /\ None \notin Ends /\ MaxMessages \in Nat /\ MaxCrashes \in Nat
  BY GossipAssumption DEF Init, GossipAssumption, Ends
<1>2. \A s \in GossipPeers, e \in Ends : wire[s][e] = <<>>
  BY DEF Init, NoFrames
<1>3. Typed
  BY <1>1 DEF Init, Typed, NoFrames
<1>4. Table
  BY <1>1, <1>2 DEF Init, Table
<1>5. \A s \in GossipPeers, e \in Ends : 1..Len(wire[s][e]) = {}
  BY <1>2
<1>6. Carried
  BY <1>5 DEF Carried
<1>7. Unsent /\ Once
  BY <1>1 DEF Init, Unsent, Once, DeliveredOnceToItsRecipients
<1> QED
  BY <1>3, <1>4, <1>6, <1>7 DEF IInv

(* Every step keeps it.                                                    *)
LEMMA IInvStep == IInv /\ [Next]_vars => IInv'
<1> SUFFICES ASSUME IInv, [Next]_vars PROVE IInv'
  OBVIOUS
<1>1. ASSUME NEW n \in Nodes, initGossip(n) \/ Poll(n)
      PROVE  IInv'
  <2>1. /\ UNCHANGED <<open, wire, clients, messages, received, crashes>>
        /\ up' \subseteq Nodes /\ dialing' \subseteq GossipPeers
        /\ \A pair \in broken' : pair \subseteq Nodes
    BY <1>1 DEF initGossip, Poll, faultVars, connectToGossipPeers, IInv, Typed
  <2> QED
    BY <2>1, DialStep
<1>2. ASSUME NEW n \in Nodes, Crash(n)
      PROVE  IInv'
  BY <1>2, CrashStep
<1>3. ASSUME NEW n \in Nodes, broadcastMessage(n)
      PROVE  IInv'
  <2>1. /\ Len(messages) < MaxMessages /\ NewMessage(n, Nodes)
        /\ wire' = Sent(n, activePeers(n), Len(messages) + 1)
        /\ UNCHANGED <<up, dialing, open, clients, received, crashes, broken>>
    BY <1>3 DEF broadcastMessage, All, faultVars
  <2>2. Nodes \in SUBSET Nodes
    OBVIOUS
  <2> QED
    BY <2>1, <2>2, SendStep
<1>4. ASSUME NEW n \in Nodes, NEW p \in Nodes, unicastMessage(n, p)
      PROVE  IInv'
  <2> DEFINE peers == IF clients[n][p] # None THEN {p} ELSE activePeers(n)
  <2>1. /\ Len(messages) < MaxMessages /\ NewMessage(n, {p})
        /\ wire' = Sent(n, peers, Len(messages) + 1)
        /\ UNCHANGED <<up, dialing, open, clients, received, crashes, broken>>
    BY <1>4 DEF unicastMessage, faultVars
  <2>2. {p} \in SUBSET Nodes
    OBVIOUS
  <2> HIDE DEF peers
  <2> QED
    BY <2>1, <2>2, SendStep
<1>5. ASSUME NEW n \in Nodes, NEW p \in Nodes, Connected(n, p)
      PROVE  IInv'
  BY <1>5, ConnectedStep
<1>6. ASSUME NEW n \in Nodes, NEW p \in Nodes, NotConnected(n, p)
      PROVE  IInv'
  <2>1. /\ UNCHANGED <<up, open, wire, clients, messages, received, crashes>>
        /\ up' \subseteq Nodes /\ dialing' \subseteq GossipPeers
        /\ broken' \in {broken, broken \cup {{n, p}}}
    BY <1>6 DEF NotConnected, IInv, Typed
  <2>2. \A pair \in broken' : pair \subseteq Nodes
    BY <2>1 DEF IInv, Typed
  <2> QED
    BY <2>1, <2>2, DialStep
<1>7. ASSUME NEW n \in Nodes, NEW p \in Nodes, NEW e \in Ends, PeerClosed(n, p, e) \/ Cut(n, p, e)
      PROVE  IInv'
  BY <1>7, PeerClosedStep, CutStep
<1>8. ASSUME NEW n \in Nodes, NEW p \in Nodes, NEW e \in Ends, OnMessage(n, p, e)
      PROVE  IInv'
  <2>1. /\ Socket(n, p, e) \in GossipPeers /\ e \in open[Socket(n, p, e)]
        /\ wire[Socket(n, p, e)][e] # <<>>
        /\ UNCHANGED <<up, dialing, messages, crashes>>
    BY <1>8 DEF OnMessage
  <2>2. CASE p = n /\ DisconnectFromSelf(n, e)
    <3>1. <<n, n>> \in GossipPeers
      BY <2>1, <2>2 DEF Socket
    <3> QED
      BY <2>1, <2>2, <3>1, SelfStep
  <2>3. CASE p # n /\ Register(n, p, e)
    BY <2>1, <2>3, RegisterStep
  <2>4. CASE p # n /\ Head(wire[Socket(n, p, e)][e]) # Hello /\ Deliver(n, p, e)
    BY <2>1, <2>4, DeliverStep
  <2> QED
    BY <1>8, <2>2, <2>3, <2>4 DEF OnMessage
<1>9. CASE UNCHANGED vars
  <2>1. /\ UNCHANGED <<open, wire, clients, messages, received, crashes>>
        /\ up' \subseteq Nodes /\ dialing' \subseteq GossipPeers
        /\ \A pair \in broken' : pair \subseteq Nodes
    BY <1>9 DEF vars, IInv, Typed
  <2> QED
    BY <2>1, DialStep
<1> QED
  BY <1>1, <1>2, <1>3, <1>4, <1>5, <1>6, <1>7, <1>8, <1>9 DEF Next

-----------------------------------------------------------------------------
(* The invariant holds in every state.                                     *)
THEOREM Invariance == Spec => []IInv
<1> QED
  BY IInvInit, IInvStep, PTL DEF Spec

(* Every variable has its type; an entry of the table is an open end of a  *)
(* socket with another node, or is known to be closed.                     *)
THEOREM TypeCorrect == Spec => []TypeOK
<1>1. IInv => TypeOK
  <2> SUFFICES ASSUME IInv PROVE TypeOK
    OBVIOUS
  <2>1. ASSUME NEW s \in GossipPeers, NEW e \in Ends
        PROVE  /\ \A i \in DOMAIN wire[s][e] : wire[s][e][i] \in {Hello} \cup 1..Len(messages)
               /\ e \notin open[s] => wire[s][e] = <<>>
    <3>1. DOMAIN wire[s][e] = 1..Len(wire[s][e])
      BY Wires, LenProperties DEF IInv
    <3> QED
      BY <3>1 DEF IInv, Carried, Table
  <2>2. \A n, p \in Nodes : clients[n][p] \in Ends =>
          n # p /\ clients[n][p] \in open[Socket(n, p, clients[n][p])]
    BY DEF IInv, Table
  <2> QED
    BY <2>1, <2>2 DEF IInv, Typed, TypeOK
<1> QED
  BY <1>1, Invariance, PTL

(* For any lists of peers, connections, cuts and restarts, a message       *)
(* reaches a listener once at most, and only one that it is for, though a  *)
(* unicast may go out on every socket (gossip.ts:80).                      *)
THEOREM OnceToItsRecipients == Spec => []DeliveredOnceToItsRecipients
<1>1. IInv => DeliveredOnceToItsRecipients
  BY DEF IInv, Once
<1> QED
  BY <1>1, Invariance, PTL
=============================================================================
