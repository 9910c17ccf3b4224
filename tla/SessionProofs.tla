---------------------------- MODULE SessionProofs ----------------------------
(***************************************************************************)
(* The variables of the session keep their types, a SyncNode synchronizes  *)
(* only with a program that accepted it, and only another program ends the *)
(* session of the two: for every number of strays, duplicates and losses,  *)
(* whatever other programs send, and whatever the times.                   *)
(***************************************************************************)
EXTENDS Session, SequenceTheorems, TLAPS

\* What sending and receiving a datagram does to the sets of them.
LEMMA Sent ==
  ASSUME packets \subseteq Datagram, now \in Nat,
         NEW a \in Addresses, NEW d \in Addresses \cup {NoAddress}, NEW b \in Body
  PROVE  packets \cup {Packet(a, d, b)} \subseteq Datagram
  BY DEF Packet, Datagram

LEMMA ReceiveTyped ==
  ASSUME queue \in [Nodes -> Seq(Message)],
         \A n \in Nodes : Len(queue[n]) <= QueueLimit,
         NEW node \in Nodes, Receive(node)
  PROVE  /\ Received(node) \in Message
         /\ queue' \in [Nodes -> Seq(Message)]
         /\ \A n \in Nodes : Len(queue'[n]) <= QueueLimit
         /\ \A n \in Nodes : \A i \in DOMAIN queue'[n] :
               \E j \in DOMAIN queue[n] : queue'[n][i] = queue[n][j]
         /\ \E j \in DOMAIN queue[node] : Received(node) = queue[node][j]
PROOF
<1> DEFINE q == queue[node]
<1>1. q \in Seq(Message) /\ q # <<>>
  BY DEF Receive
<1>2. /\ Head(q) \in Message /\ Tail(q) \in Seq(Message)
      /\ Len(Tail(q)) = Len(q) - 1
      /\ Head(q) = q[1] /\ 1 \in DOMAIN q
      /\ \A i \in DOMAIN Tail(q) : i + 1 \in DOMAIN q /\ Tail(q)[i] = q[i + 1]
  BY <1>1
<1>3. queue' = [queue EXCEPT ![node] = Tail(q)]
  BY DEF Receive
<1>4. QueueLimit \in Nat
  BY SessionAssumption
<1>5. ASSUME NEW n \in Nodes
      PROVE  /\ queue'[n] \in Seq(Message) /\ Len(queue'[n]) <= QueueLimit
             /\ \A i \in DOMAIN queue'[n] : \E j \in DOMAIN queue[n] : queue'[n][i] = queue[n][j]
  <2>1. CASE n = node
    <3>1. queue'[n] = Tail(q)
      BY <1>3, <2>1
    <3>2. Len(Tail(q)) <= QueueLimit
      BY <1>1, <1>2, <1>4
    <3> QED BY <1>2, <2>1, <3>1, <3>2
  <2>2. CASE n # node
    BY <1>3, <2>2
  <2> QED BY <2>1, <2>2
<1>6. queue' \in [Nodes -> Seq(Message)]
  BY <1>3, <1>2
<1> QED BY <1>2, <1>5, <1>6 DEF Received

\* The messages are of their types, and have the fields of their types.
LEMMA Bodies ==
  /\ {Handshake, GoodBye, GoodByeReply, Malformed} \subseteq Body
  /\ HandshakeReply("success") \in Body /\ HandshakeReply("version_mismatch") \in Body
  /\ \A n \in Nat : Beacon(n) \in Body
  /\ \A n \in Nat, i, j \in Int : BeaconReply(n, i, j) \in Body
  /\ \A b \in Body : b.type = "beacon" => b.seq \in Nat
  /\ \A b \in Body : b.type = "beacon_r" =>
       b.seq \in Nat /\ b.beacon_recv_time \in Int /\ b.reply_send_time \in Int
  BY DEF Body, Handshake, GoodBye, GoodByeReply, Malformed, HandshakeReply, Beacon, BeaconReply

\* seq stays in the range of a uint8_t.
LEMMA SeqTyped ==
  ASSUME seq \in 0..(SeqLimit - 1)
  PROVE  NextSeq \in 0..(SeqLimit - 1)
PROOF
<1>1. SeqLimit \in Nat /\ SeqLimit > 0 /\ seq + 1 \in Nat
  BY SessionAssumption
<1>2. (seq + 1) % SeqLimit \in 0..(SeqLimit - 1)
  BY <1>1
<1> QED BY <1>2 DEF NextSeq

LEMMA InitTyped == Init => TypeOK
  BY SessionAssumption DEF Init, TypeOK, NoSample, NoRequest, Nodes, Addresses, NoAddress

LEMMA NextTyped ==
  ASSUME TypeOK, [Next]_vars
  PROVE  TypeOK'
PROOF
<1> USE DEF Addresses
<1> DEFINE Unsent == packets' = packets
           SyncTyped == /\ sync_pc' \in {"greet", "greeted", "beacon", "await",
                                      "refused", "failed", "disconnected"}
                        /\ peer_addr' \in Addresses \cup {NoAddress}
                        /\ sync_start' \in Nat /\ t_i' \in Nat /\ to' \in Int
                        /\ recv_since' \in Nat
                        /\ seq' \in 0..(SeqLimit - 1)
                        /\ sample' \in [to : Int, tbr : Int, tbt : Int, tr : Int]
           RefTyped == /\ ref_pc' \in {"listen", "serve", "reply", "stopped", "disconnected"}
                       /\ ref_peer' \in Addresses \cup {NoAddress}
                       /\ ref_start' \in Nat
                       /\ request' \in [seq : Nat, recv_time : Int, arrived : Nat]
                       /\ compatible' \in BOOLEAN
           NetTyped == /\ now' \in Nat
                       /\ strays' \in Nat /\ duplicates' \in Nat
                       /\ strays' + duplicates' <= MaxFaults
                       /\ packets' \subseteq Datagram
                       /\ queue' \in [Nodes -> Seq(Message)]
                       /\ \A node \in Nodes : Len(queue'[node]) <= QueueLimit
<1> SUFFICES SyncTyped /\ RefTyped /\ NetTyped
  BY DEF TypeOK, Datagram, Message, Addresses, Body
<1> DEFINE SyncKept == UNCHANGED syncVars
           RefKept == UNCHANGED refVars
<1>1. SyncKept => SyncTyped
  BY DEF TypeOK, syncVars
<1>2. RefKept => RefTyped
  BY DEF TypeOK, refVars
<1>3. UNCHANGED <<now, netVars>> => NetTyped
  BY DEF TypeOK, netVars, faults
<1>4. /\ Received("sync") \in Message \/ ~Receive("sync")
      /\ Received("ref") \in Message \/ ~Receive("ref")
  BY ReceiveTyped DEF TypeOK, Nodes
<1>5. ASSUME NEW node \in Nodes, Receive(node), UNCHANGED <<now, faults>>,
             packets' \subseteq Datagram
      PROVE  NetTyped
  BY <1>5, ReceiveTyped DEF TypeOK, faults
<1>6. ASSUME UNCHANGED <<now, queue, faults>>, packets' \subseteq Datagram
      PROVE  NetTyped
  BY <1>6 DEF TypeOK, faults
<1>7. /\ packets \subseteq Datagram /\ now \in Nat /\ seq \in Nat
      /\ now - sync_start \in Int /\ now - ref_start \in Int /\ t_i \in Nat
  BY SessionAssumption DEF TypeOK
<1>8. /\ "sync" \in Nodes /\ "ref" \in Nodes
      /\ SyncBeacon \in Nat /\ SyncReply \in Nat /\ RefBeacon \in Nat /\ RefReply \in Nat
      /\ Period \in Nat /\ QueueLimit \in Nat /\ MaxFaults \in Nat
  BY SessionAssumption DEF Nodes
<1>9. CASE SendHandshake
  <2>1. packets' \subseteq Datagram
    BY <1>9, <1>7, Sent, Bodies DEF SendHandshake, TypeOK, Nodes
  <2>2. NetTyped
    BY <1>9, <1>6, <2>1 DEF SendHandshake
  <2> QED BY <1>9, <1>2, <2>2 DEF SendHandshake, TypeOK
<1>10. CASE SendHandshakeFails \/ HandshakeTimeout \/ BeaconTimeout
  BY <1>10, <1>2, <1>3 DEF SendHandshakeFails, HandshakeTimeout, BeaconTimeout, TypeOK
<1>11. CASE RecvHandshakeReply
  <2>1. NetTyped
    BY <1>11, <1>5, <1>7, <1>8 DEF RecvHandshakeReply, faults
  <2>2. SyncTyped
    BY <1>11, <1>4 DEF RecvHandshakeReply, TypeOK, Message
  <2> QED BY <1>11, <1>2, <2>1, <2>2 DEF RecvHandshakeReply
<1>12. CASE SendBeacon
  <2> DEFINE sent == packets \cup {Packet("sync", peer_addr, Beacon(seq))}
  <2>0. Beacon(seq) \in Body /\ "sync" \in Addresses /\ peer_addr \in Addresses \cup {NoAddress}
    BY <1>7, <1>8, Bodies DEF TypeOK
  <2>1. packets' \subseteq Datagram
    <3>1. sent \subseteq Datagram
      BY <1>7, <2>0, Sent
    <3> QED BY <1>12, <3>1 DEF SendBeacon
  <2>2. NetTyped
    BY <1>12, <1>6, <2>1 DEF SendBeacon
  <2>3. SyncTyped
    BY <1>12, <1>8 DEF SendBeacon, TypeOK
  <2> QED BY <1>12, <1>2, <2>2, <2>3 DEF SendBeacon
<1>13. CASE MalformedMessage \/ IgnoreMessage
  <2>1. NetTyped
    BY <1>13, <1>5, <1>7, <1>8 DEF MalformedMessage, IgnoreMessage, faults
  <2> QED BY <1>13, <1>2, <2>1 DEF MalformedMessage, IgnoreMessage, TypeOK
<1>14. CASE RecvBeaconReply
  <2>1. NetTyped
    BY <1>14, <1>5, <1>7, <1>8 DEF RecvBeaconReply, faults
  <2>2. Received("sync").body \in Body
    BY <1>14, <1>4 DEF RecvBeaconReply, Message
  <2> DEFINE reply == Received("sync").body
  <2>3. /\ reply.beacon_recv_time \in Int /\ reply.reply_send_time \in Int
        /\ sample' = [to  |-> to + SyncBeacon, tbr |-> reply.beacon_recv_time,
                      tbt |-> reply.reply_send_time, tr  |-> now - sync_start - SyncReply]
    BY <1>14, <2>2, Bodies DEF RecvBeaconReply, IsReply
  <2>4. to + SyncBeacon \in Int /\ now - sync_start - SyncReply \in Int /\ t_i + Period \in Nat
    BY <1>7, <1>8 DEF TypeOK
  <2>5. sample' \in [to : Int, tbr : Int, tbt : Int, tr : Int]
    <3> HIDE DEF reply
    <3> QED BY <2>3, <2>4
  <2>6. NextSeq \in 0..(SeqLimit - 1)
    BY SeqTyped DEF TypeOK
  <2>7. SyncTyped
    BY <1>14, <2>4, <2>5, <2>6 DEF RecvBeaconReply, TypeOK
  <2> QED BY <1>14, <1>2, <2>1, <2>7 DEF RecvBeaconReply
<1>15. CASE AcceptHandshake \/ RefuseHandshake
  <2> DEFINE m == Received("ref")
  <2>1. Receive("ref") /\ m.from \in Addresses
    BY <1>15, <1>4 DEF AcceptHandshake, RefuseHandshake, Message
  <2>2. packets' \subseteq Datagram
    BY <1>15, <2>1, <1>7, <1>8, Sent, Bodies DEF AcceptHandshake, RefuseHandshake, Answer
  <2>3. NetTyped
    BY <1>15, <2>1, <2>2, <1>5, <1>8 DEF AcceptHandshake, RefuseHandshake, faults
  <2>4. RefTyped
    BY <1>15, <2>1 DEF AcceptHandshake, RefuseHandshake, TypeOK, refVars
  <2> QED BY <1>15, <1>1, <2>3, <2>4 DEF AcceptHandshake, RefuseHandshake
<1>16. CASE RecvBeacon
  <2>1. NetTyped
    BY <1>16, <1>5, <1>7, <1>8 DEF RecvBeacon, faults
  <2>2. Received("ref").body \in Body /\ Received("ref").arrived \in Nat
    BY <1>16, <1>4 DEF RecvBeacon, Message
  <2>3. Received("ref").body.seq \in Nat /\ now - ref_start - RefBeacon \in Int
    BY <1>16, <1>7, <1>8, <2>2, Bodies DEF RecvBeacon
  <2>4. request' \in [seq : Nat, recv_time : Int, arrived : Nat]
    BY <1>16, <2>2, <2>3 DEF RecvBeacon
  <2>5. RefTyped
    BY <1>16, <2>4 DEF RecvBeacon, TypeOK
  <2> QED BY <1>16, <1>1, <2>1, <2>5 DEF RecvBeacon
<1>17. CASE SendReply
  <2> DEFINE r == BeaconReply(request.seq, request.recv_time, now - ref_start + RefReply)
             sent == packets \cup {Packet("ref", ref_peer, r)}
  <2>1. request.seq \in Nat /\ request.recv_time \in Int
    BY DEF TypeOK
  <2>2. packets' \subseteq Datagram
    <3>1. now - ref_start + RefReply \in Int
      BY <1>7, <1>8
    <3>2. r \in Body /\ "ref" \in Addresses /\ ref_peer \in Addresses \cup {NoAddress}
      BY <2>1, <3>1, <1>8, Bodies DEF TypeOK
    <3>3. sent \subseteq Datagram
      <4> HIDE DEF r
      <4> QED BY <1>7, <3>2, Sent
    <3> QED BY <1>17, <3>3 DEF SendReply
  <2>3. NetTyped
    BY <1>17, <2>2, <1>6 DEF SendReply
  <2>4. RefTyped
    BY <1>17 DEF SendReply, TypeOK, NoRequest
  <2> QED BY <1>17, <1>1, <2>3, <2>4 DEF SendReply
<1>18. CASE DropMessage
  <2>1. NetTyped
    BY <1>18, <1>5, <1>7, <1>8 DEF DropMessage, faults
  <2> QED BY <1>18, <1>1, <1>2, <2>1 DEF DropMessage
<1>19. CASE Tick
  <2>0. packets' \subseteq Datagram /\ now' \in Nat
    BY <1>19, <1>7 DEF Tick
  <2>1. NetTyped
    BY <1>19, <2>0 DEF Tick, TypeOK, faults
  <2> QED BY <1>19, <1>1, <1>2, <2>1 DEF Tick
<1>20. ASSUME NEW p \in packets, Arrive(p) PROVE NetTyped /\ SyncTyped /\ RefTyped
  <2> DEFINE m == [from |-> p.from, body |-> p.body, arrived |-> now]
             q == queue[p.to]
  <2>1. m \in Message /\ p.to \in Nodes
    BY <1>20, <1>7 DEF Arrive, Datagram, Message
  <2>2. q \in Seq(Message) /\ Len(q) < QueueLimit
    <3>1. q \in Seq(Message)
      BY <2>1 DEF TypeOK
    <3> QED BY <1>20, <3>1 DEF Arrive
  <2>3. Append(q, m) \in Seq(Message) /\ Len(Append(q, m)) <= QueueLimit
    <3> HIDE DEF q, m
    <3> QED BY <2>1, <2>2, <1>8
  <2>4. queue' = [queue EXCEPT ![p.to] = Append(q, m)]
    BY <1>20 DEF Arrive
  <2>5. queue' \in [Nodes -> Seq(Message)] /\ \A n \in Nodes : Len(queue'[n]) <= QueueLimit
    BY <2>1, <2>3, <2>4 DEF TypeOK
  <2>6. packets' \subseteq Datagram /\ duplicates' \in Nat /\ strays + duplicates' <= MaxFaults
    <3>1. packets' \subseteq packets
      BY <1>20 DEF Arrive
    <3>2. duplicates' \in Nat /\ strays + duplicates' <= MaxFaults
      <4>1. strays \in Nat /\ duplicates \in Nat /\ strays + duplicates <= MaxFaults
        BY DEF TypeOK
      <4> QED BY <1>20, <1>8, <4>1 DEF Arrive
    <3> QED BY <1>7, <3>1, <3>2
  <2>7. NetTyped
    BY <1>20, <2>5, <2>6 DEF Arrive, TypeOK
  <2> QED BY <1>20, <1>1, <1>2, <2>7 DEF Arrive
<1>21. ASSUME NEW node \in Nodes, Stray(node) PROVE NetTyped /\ SyncTyped /\ RefTyped
  <2>1. PICK body \in Body :
          queue' = [queue EXCEPT ![node] =
                      Append(@, [from |-> "elsewhere", body |-> body, arrived |-> now])]
    BY <1>21, ForeignAssumption DEF Stray
  <2> DEFINE m == [from |-> "elsewhere", body |-> body, arrived |-> now]
             q == queue[node]
  <2>2. m \in Message
    BY <1>7 DEF Message
  <2>3. q \in Seq(Message) /\ Len(q) < QueueLimit
    <3>1. q \in Seq(Message)
      BY DEF TypeOK
    <3> QED BY <1>21, <3>1 DEF Stray
  <2>4. Append(q, m) \in Seq(Message) /\ Len(Append(q, m)) <= QueueLimit
    <3> HIDE DEF q, m
    <3> QED BY <2>2, <2>3, <1>8
  <2>5. queue' \in [Nodes -> Seq(Message)] /\ \A n \in Nodes : Len(queue'[n]) <= QueueLimit
    BY <2>1, <2>4 DEF TypeOK
  <2>6. strays' \in Nat /\ duplicates' \in Nat /\ strays' + duplicates' <= MaxFaults
    <3>1. strays \in Nat /\ duplicates \in Nat /\ strays + duplicates <= MaxFaults
      BY DEF TypeOK
    <3> QED BY <1>21, <1>8, <3>1 DEF Stray
  <2>7. NetTyped
    BY <1>21, <2>5, <2>6 DEF Stray, TypeOK
  <2> QED BY <1>21, <1>1, <1>2, <2>7 DEF Stray
<1>22. CASE UNCHANGED vars
  BY <1>22, <1>1, <1>2, <1>3 DEF vars
<1>23. CASE RecvGoodBye
  <2>1. packets' \subseteq Datagram
    <3>1. "ref" \in Addresses /\ ref_peer \in Addresses \cup {NoAddress} /\ GoodByeReply \in Body
      BY <1>8, Bodies DEF TypeOK
    <3>2. packets \cup {Packet("ref", ref_peer, GoodByeReply)} \subseteq Datagram
      <4> HIDE DEF Addresses
      <4> QED BY <1>7, <3>1, Sent
    <3> QED BY <1>23, <3>2 DEF RecvGoodBye
  <2>2. NetTyped
    BY <1>23, <2>1, <1>5, <1>8 DEF RecvGoodBye, faults
  <2>3. RefTyped
    BY <1>23 DEF RecvGoodBye, TypeOK
  <2> QED BY <1>23, <1>1, <2>2, <2>3 DEF RecvGoodBye
<1>24. ASSUME NEW p \in packets, Unreachable(p) PROVE NetTyped /\ SyncTyped /\ RefTyped
  <2>1. packets' \subseteq Datagram
    BY <1>7, <1>24 DEF Unreachable
  <2>2. NetTyped
    BY <1>24, <1>6, <2>1 DEF Unreachable
  <2>3. SyncTyped /\ RefTyped
    BY <1>24 DEF Unreachable, TypeOK
  <2> QED BY <2>2, <2>3
<1> QED
  BY <1>9, <1>10, <1>11, <1>12, <1>13, <1>14, <1>15, <1>16, <1>17, <1>18, <1>19, <1>20,
     <1>21, <1>22, <1>23, <1>24 DEF Next, SyncNext, SyncAttempts, RefNext, NetworkNext

\* Type correctness of the session, for every timing and every number of faults.
THEOREM SessionTyped == Spec => []TypeOK
  BY InitTyped, NextTyped, PTL DEF Spec

(***************************************************************************)
(* Connected is not inductive: it needs to be known that a success under   *)
(* way to the SyncNode, or waiting to be read by it, was sent by a         *)
(* reference that accepted this SyncNode and no other, or from elsewhere,  *)
(* and that nothing comes from elsewhere unless it strayed in.  Nor is     *)
(* PeersStay: the nodes say no goodbye, and a reference that loses a       *)
(* SyncNode lost one whose handshake failed.                               *)
(***************************************************************************)

\* What may be said of a message from one address to another.
Genuine(from, dest, body) ==
  /\ from = "elsewhere" \/ body = GoodBye => strays > 0
  /\ dest = "sync" /\ body = HandshakeReply("success") =>
       \/ from = "ref" /\ Accepted /\ ref_peer = "sync" /\ ref_start <= now
       \/ from = "elsewhere"

PeersInv ==
  /\ peer_addr = "elsewhere" \/ ref_peer = "elsewhere" => strays > 0
  /\ ref_pc = "stopped" \/ sync_pc = "disconnected" => strays > 0
  /\ ref_pc = "disconnected" => strays > 0 \/ sync_pc \in {"refused", "failed"}

ConnectedInv ==
  /\ \A p \in packets : Genuine(p.from, p.to, p.body)
  /\ \A node \in Nodes : \A i \in DOMAIN queue[node] :
       Genuine(queue[node][i].from, node, queue[node][i].body)
  /\ Connected
  /\ PeersInv

LEMMA InitConnected == Init => ConnectedInv
  BY DEF Init, ConnectedInv, Connected, Synchronizing, PeersInv, NoAddress

\* What is genuine stays so, as a reference stays with the peer it accepted.
StaysConnected ==
  /\ Accepted => Accepted' /\ UNCHANGED <<ref_peer, ref_start>>
  /\ strays <= strays'

LEMMA StaysGenuine ==
  ASSUME TypeOK, TypeOK', now <= now', StaysConnected, NEW from, NEW dest, NEW body,
         Genuine(from, dest, body)
  PROVE  Genuine(from, dest, body)'
PROOF
<1>1. strays > 0 => strays' > 0
  BY DEF StaysConnected, TypeOK
<1>2. now \in Nat /\ now' \in Nat /\ ref_start \in Nat
  BY DEF TypeOK
<1>3. Accepted /\ ref_start <= now => Accepted' /\ UNCHANGED ref_peer /\ ref_start' <= now'
  BY <1>2 DEF StaysConnected
<1> QED BY <1>1, <1>3 DEF Genuine

LEMMA ConnectionStays ==
  ASSUME [Next]_vars, TypeOK
  PROVE  StaysConnected /\ now <= now'
PROOF
<1>1. now \in Nat /\ strays \in Nat
  BY DEF TypeOK
<1>2. CASE UNCHANGED <<now, strays, refVars>>
  BY <1>1, <1>2 DEF StaysConnected, Accepted, refVars
<1>3. CASE SyncNext
  <2>1. UNCHANGED <<now, strays, refVars>>
    BY <1>3 DEF faults, netVars, SyncNext, SyncAttempts, SendHandshake, SendHandshakeFails, HandshakeTimeout,
       RecvHandshakeReply, SendBeacon, BeaconTimeout, MalformedMessage, IgnoreMessage,
       RecvBeaconReply
  <2> QED BY <2>1, <1>2
<1>4. CASE RefNext
  BY <1>1, <1>4 DEF RefNext, AcceptHandshake, RefuseHandshake, RecvBeacon, SendReply,
     RecvGoodBye, DropMessage, StaysConnected, Accepted, refVars, faults
<1>5. CASE NetworkNext
  <2>1. CASE Tick
    BY <1>1, <2>1 DEF Tick, StaysConnected, Accepted, refVars, faults
  <2>2. ASSUME NEW p \in packets, Arrive(p) PROVE UNCHANGED <<now, strays, refVars>>
    BY <2>2 DEF Arrive
  <2>3. ASSUME NEW node \in Nodes, Stray(node) PROVE StaysConnected /\ now <= now'
    BY <1>1, <2>3 DEF Stray, StaysConnected, Accepted, refVars
  <2>4. ASSUME NEW p \in packets, Unreachable(p) PROVE StaysConnected /\ now <= now'
    BY <1>1, <2>4 DEF Unreachable, StaysConnected, Accepted, faults
  <2> QED BY <1>2, <1>5, <2>1, <2>2, <2>3, <2>4 DEF NetworkNext
<1>6. CASE UNCHANGED vars
  BY <1>2, <1>6 DEF vars, netVars, faults
<1> QED BY <1>3, <1>4, <1>5, <1>6 DEF Next

\* What a datagram a node sends in this step says is true.
LEMMA OtherBodies ==
  ASSUME NEW from \in Nodes, NEW dest
  PROVE  /\ \A body \in {Handshake, GoodByeReply} : Genuine(from, dest, body)
         /\ \A n \in Nat : Genuine(from, dest, Beacon(n))
         /\ \A n \in Nat, i, j \in Int : Genuine(from, dest, BeaconReply(n, i, j))
         /\ Genuine(from, dest, HandshakeReply("version_mismatch"))
  BY DEF Genuine, Nodes, Handshake, GoodBye, GoodByeReply, Beacon, BeaconReply, HandshakeReply

\* A step that sends nothing new and reads, or takes in, what was genuine.
LEMMA NothingNew ==
  ASSUME TypeOK, TypeOK', [Next]_vars, ConnectedInv,
         packets' \subseteq packets
  PROVE  \A p \in packets' : Genuine(p.from, p.to, p.body)'
PROOF
<1> SUFFICES ASSUME NEW p \in packets' PROVE Genuine(p.from, p.to, p.body)'
  OBVIOUS
<1>1. Genuine(p.from, p.to, p.body)
  BY DEF ConnectedInv
<1> QED BY <1>1, StaysGenuine, ConnectionStays

LEMMA QueueGenuine ==
  ASSUME TypeOK, TypeOK', [Next]_vars, ConnectedInv,
         UNCHANGED queue \/ Receive("sync") \/ Receive("ref")
  PROVE  \A node \in Nodes : \A i \in DOMAIN queue'[node] : \A m :
           m = queue'[node][i] => Genuine(m.from, node, m.body)'
PROOF
<1> SUFFICES ASSUME NEW node \in Nodes, NEW i \in DOMAIN queue'[node],
                    NEW m, m = queue'[node][i]
             PROVE  Genuine(m.from, node, m.body)'
  OBVIOUS
<1>1. \E j \in DOMAIN queue[node] : queue'[node][i] = queue[node][j]
  <2>1. CASE UNCHANGED queue
    BY <2>1
  <2>2. "sync" \in Nodes /\ "ref" \in Nodes
    BY DEF Nodes
  <2>3. CASE Receive("sync")
    BY <2>2, <2>3, ReceiveTyped DEF TypeOK
  <2>4. CASE Receive("ref")
    BY <2>2, <2>4, ReceiveTyped DEF TypeOK
  <2> QED BY <2>1, <2>3, <2>4
<1>2. PICK j \in DOMAIN queue[node] : queue'[node][i] = queue[node][j]
  BY <1>1
<1>3. Genuine(m.from, node, m.body)
  BY <1>2 DEF ConnectedInv
<1> QED BY <1>3, StaysGenuine, ConnectionStays

LEMMA AppendGenuine ==
  ASSUME TypeOK, TypeOK', [Next]_vars, ConnectedInv, NEW dest \in Nodes,
         NEW new, Genuine(new.from, dest, new.body)',
         queue' = [queue EXCEPT ![dest] = Append(@, new)]
  PROVE  \A node \in Nodes : \A i \in DOMAIN queue'[node] : \A m :
           m = queue'[node][i] => Genuine(m.from, node, m.body)'
PROOF
<1> DEFINE q == queue[dest]
<1> SUFFICES ASSUME NEW node \in Nodes, NEW i \in DOMAIN queue'[node],
                    NEW m, m = queue'[node][i]
             PROVE  Genuine(m.from, node, m.body)'
  OBVIOUS
<1>1. CASE node # dest
  <2>1. Genuine(m.from, node, m.body)
    BY <1>1 DEF TypeOK, ConnectedInv
  <2> QED BY <2>1, StaysGenuine, ConnectionStays
<1>2. CASE node = dest
  <2>1. q \in Seq(Message) /\ queue'[node] = Append(q, new)
    BY <1>2 DEF TypeOK
  <2>2. CASE i \in DOMAIN q
    <3>1. m = q[i]
      <4> HIDE DEF q
      <4> QED BY <2>1, <2>2
    <3>2. Genuine(m.from, node, m.body)
      BY <3>1, <2>2, <1>2 DEF ConnectedInv
    <3> QED BY <3>2, StaysGenuine, ConnectionStays
  <2>3. CASE i \notin DOMAIN q
    <3>1. m = new
      <4> HIDE DEF q
      <4> QED BY <2>1, <2>3
    <3> QED BY <3>1, <1>2
  <2> QED BY <2>2, <2>3
<1> QED BY <1>1, <1>2

\* A node reads what is genuine.
LEMMA ReceivedGenuine ==
  ASSUME TypeOK, ConnectedInv, NEW node \in Nodes, Receive(node)
  PROVE  Genuine(Received(node).from, node, Received(node).body)
  BY ReceiveTyped DEF TypeOK, ConnectedInv

\* Without strays the nodes stay each other's peers.
LEMMA NextPeers ==
  ASSUME TypeOK, TypeOK', [Next]_vars, ConnectedInv
  PROVE  PeersInv'
PROOF
<1>1. strays \in Nat /\ strays' \in Nat /\ strays' >= strays
  BY ConnectionStays DEF TypeOK, StaysConnected
<1> SUFFICES ASSUME strays = 0, strays' = 0 PROVE PeersInv'
  BY <1>1 DEF PeersInv
<1>2. /\ peer_addr # "elsewhere" /\ ref_peer # "elsewhere"
      /\ ref_pc # "stopped" /\ sync_pc # "disconnected"
      /\ ref_pc = "disconnected" => sync_pc \in {"refused", "failed"}
  BY DEF ConnectedInv, PeersInv
<1>3. ASSUME NEW node \in Nodes, Receive(node)
      PROVE  Received(node).from # "elsewhere" /\ Received(node).body # GoodBye
  BY <1>3, ReceivedGenuine DEF Genuine
<1>4. "sync" \in Nodes /\ "ref" \in Nodes
  BY DEF Nodes
<1>5. CASE SyncNext
  <2>1. UNCHANGED refVars /\ sync_pc' # "disconnected"
        /\ sync_pc \notin {"refused", "failed"}
    BY <1>5 DEF SyncNext, SyncAttempts, SendHandshake, SendHandshakeFails, HandshakeTimeout,
       RecvHandshakeReply, SendBeacon, BeaconTimeout, MalformedMessage, IgnoreMessage,
       RecvBeaconReply
  <2>2. \/ peer_addr' \in {peer_addr, NoAddress}
        \/ Receive("sync") /\ peer_addr' = Received("sync").from
    BY <1>5 DEF SyncNext, SyncAttempts, SendHandshake, SendHandshakeFails, HandshakeTimeout,
       RecvHandshakeReply, SendBeacon, BeaconTimeout, MalformedMessage, IgnoreMessage,
       RecvBeaconReply
  <2>3. peer_addr' # "elsewhere"
    BY <2>2, <1>2, <1>3, <1>4 DEF NoAddress
  <2> QED BY <2>1, <2>3, <1>2 DEF PeersInv, refVars
<1>6. CASE RefNext
  <2>1. UNCHANGED syncVars
    BY <1>6 DEF RefNext, AcceptHandshake, RefuseHandshake, RecvBeacon, SendReply,
       RecvGoodBye, DropMessage
  <2>2. ~RecvGoodBye
    BY <1>3, <1>4 DEF RecvGoodBye, IsGoodBye
  <2>3. \/ ref_peer' = ref_peer
        \/ Receive("ref") /\ ref_peer' = Received("ref").from
    BY <1>6 DEF RefNext, AcceptHandshake, RefuseHandshake, RecvBeacon, SendReply,
       RecvGoodBye, DropMessage, refVars
  <2>4. ref_peer' # "elsewhere"
    BY <2>3, <1>2, <1>3, <1>4
  <2>5. ref_pc' = ref_pc \/ ref_pc' \in {"serve", "reply"}
    BY <1>6, <2>2 DEF RefNext, AcceptHandshake, RefuseHandshake, RecvBeacon, SendReply,
       DropMessage, refVars
  <2> QED BY <2>1, <2>4, <2>5, <1>2 DEF PeersInv, syncVars
<1>7. CASE UNCHANGED <<syncVars, refVars>>
  BY <1>2, <1>7 DEF PeersInv, syncVars, refVars
<1>8. ASSUME NEW p \in packets, Unreachable(p) PROVE PeersInv'
  <2>1. UNCHANGED <<peer_addr, ref_peer>> /\ p.to \in Addresses
        /\ Running(p.from) /\ Peer(p.from) = p.to
    BY <1>8 DEF Unreachable
  <2>2. CASE p.from = "sync" /\ sync_pc' = "disconnected" /\ UNCHANGED ref_pc
    <3>1. Peer(p.from) = IF Synchronizing THEN peer_addr ELSE NoAddress
      BY <2>2 DEF Peer
    <3>2. Synchronizing
      BY <2>1, <3>1 DEF Addresses, Nodes, NoAddress
    <3>3. p.to = "ref"
      BY <2>1, <3>1, <3>2, <1>2 DEF ConnectedInv, Connected
    <3>4. ~Running("ref")
      BY <3>3, <1>4, <1>8 DEF Unreachable
    <3>5. ref_pc \in {"stopped", "disconnected"}
      BY <3>4 DEF Running
    <3> QED BY <3>2, <3>5, <1>2 DEF Synchronizing
  <2>3. CASE p.from = "ref" /\ ref_pc' = "disconnected" /\ UNCHANGED sync_pc
    <3>1. p.to = ref_peer /\ Running("ref")
      BY <2>1, <2>3 DEF Peer
    <3>2. p.to \in Nodes
      BY <2>1, <3>1, <1>2 DEF Addresses
    <3>3. p.to = "sync" /\ ~Running("sync")
      BY <3>1, <3>2, <1>8 DEF Unreachable, Nodes
    <3>4. sync_pc \in {"refused", "failed", "disconnected"}
      BY <3>3 DEF Running
    <3> QED BY <2>1, <2>3, <3>4, <1>2 DEF PeersInv
  <2> QED BY <1>8, <2>2, <2>3 DEF Unreachable
<1>9. CASE NetworkNext
  <2>1. Tick => UNCHANGED <<syncVars, refVars>>
    BY DEF Tick
  <2>2. ASSUME NEW p \in packets, Arrive(p) PROVE UNCHANGED <<syncVars, refVars>>
    BY <2>2 DEF Arrive
  <2>3. ASSUME NEW node \in Nodes, Stray(node) PROVE UNCHANGED <<syncVars, refVars>>
    BY <2>3 DEF Stray
  <2> QED BY <1>7, <1>8, <1>9, <2>1, <2>2, <2>3 DEF NetworkNext
<1>10. UNCHANGED vars => UNCHANGED <<syncVars, refVars>>
  BY DEF vars
<1> QED BY <1>5, <1>6, <1>7, <1>9, <1>10 DEF Next

LEMMA NextConnected ==
  ASSUME TypeOK, TypeOK', [Next]_vars, ConnectedInv
  PROVE  ConnectedInv'
PROOF
<1> DEFINE Sends(a, d, b) == packets' = packets \cup {Packet(a, d, b)}
           PacketsGenuine == \A p \in packets' : Genuine(p.from, p.to, p.body)'
           QueuesGenuine == \A node \in Nodes : \A i \in DOMAIN queue'[node] : \A m :
                              m = queue'[node][i] => Genuine(m.from, node, m.body)'
<1> SUFFICES PacketsGenuine /\ QueuesGenuine /\ Connected'
  BY NextPeers DEF ConnectedInv
<1>1. StaysConnected /\ now <= now'
  BY ConnectionStays
<1>2. packets' \subseteq packets => PacketsGenuine
  BY NothingNew
<1>3. UNCHANGED queue \/ Receive("sync") \/ Receive("ref") => QueuesGenuine
  BY QueueGenuine
<1>4. ASSUME NEW a, NEW d, NEW b, Sends(a, d, b), Genuine(a, d, b)'
      PROVE  PacketsGenuine
  <2> SUFFICES ASSUME NEW p \in packets' PROVE Genuine(p.from, p.to, p.body)'
    OBVIOUS
  <2>1. CASE p \in packets
    <3>1. Genuine(p.from, p.to, p.body)
      BY <2>1 DEF ConnectedInv
    <3> QED BY <3>1, <1>1, StaysGenuine
  <2>2. CASE p = Packet(a, d, b)
    <3>1. p.from = a /\ p.to = d /\ p.body = b
      BY <2>2 DEF Packet
    <3> QED BY <3>1, <1>4
  <2> QED BY <1>4, <2>1, <2>2
<1>0. "sync" \in Nodes /\ "ref" \in Nodes /\ strays \in Nat /\ strays <= strays'
  BY <1>1 DEF Nodes, TypeOK, StaysConnected
<1>5. ASSUME UNCHANGED <<peer_addr, sync_start>>, Synchronizing' => Synchronizing
      PROVE  Connected'
  <2>1. CASE Synchronizing /\ peer_addr = "ref"
    BY <2>1, <1>1, <1>5 DEF ConnectedInv, Connected, StaysConnected
  <2>2. CASE Synchronizing /\ peer_addr = "elsewhere" /\ strays > 0
    <3>1. strays' > 0
      BY <2>2, <1>0, <1>1 DEF TypeOK
    <3> QED BY <2>2, <3>1, <1>5 DEF Connected
  <2> QED BY <2>1, <2>2, <1>5 DEF ConnectedInv, Connected
<1>23. UNCHANGED syncVars => Connected'
  BY <1>5 DEF syncVars, Synchronizing
<1> DEFINE got == Received("sync")
           asked == Received("ref")
<1>6. Receive("sync") => Genuine(got.from, "sync", got.body)
  BY ReceivedGenuine, <1>0
<1>8. CASE SendHandshake
  <2>1. Sends("sync", peer_addr, Handshake) /\ Genuine("sync", peer_addr, Handshake)
    BY <1>8, <1>0, OtherBodies DEF SendHandshake
  <2>2. \A d : d = peer_addr => Genuine("sync", d, Handshake)'
    BY <2>1, <1>1, StaysGenuine
  <2>3. PacketsGenuine
    BY <2>1, <2>2, <1>4
  <2>4. Connected'
    BY <1>8 DEF SendHandshake, Connected, Synchronizing
  <2> QED BY <1>8, <2>3, <2>4, <1>3 DEF SendHandshake
<1>9. CASE SendHandshakeFails \/ HandshakeTimeout \/ BeaconTimeout
  <2>1. UNCHANGED <<packets, queue, refVars, peer_addr, sync_start>>
        /\ (Synchronizing' => Synchronizing)
    BY <1>9 DEF SendHandshakeFails, HandshakeTimeout, BeaconTimeout, netVars, Synchronizing
  <2> QED BY <2>1, <1>2, <1>3, <1>5
<1>10. CASE RecvHandshakeReply
  <2>1. UNCHANGED <<now, packets, refVars>> /\ Receive("sync")
    BY <1>10 DEF RecvHandshakeReply
  <2>2. Connected'
    <3>1. CASE got.body = HandshakeReply("success")
      <4>1. \/ got.from = "ref" /\ Accepted /\ ref_peer = "sync" /\ ref_start <= now
            \/ got.from = "elsewhere" /\ strays > 0
        BY <2>1, <3>1, <1>6 DEF Genuine
      <4>2. peer_addr' = got.from /\ (Synchronizing' => sync_start' = now)
        BY <1>10 DEF RecvHandshakeReply, Synchronizing
      <4>3. strays' = strays
        BY <1>10 DEF RecvHandshakeReply, faults
      <4> QED BY <2>1, <4>1, <4>2, <4>3 DEF Connected, Accepted, refVars
    <3>2. CASE got.body # HandshakeReply("success")
      BY <1>10, <3>2 DEF RecvHandshakeReply, Succeeded, Connected, Synchronizing
    <3> QED BY <3>1, <3>2
  <2> QED BY <2>1, <2>2, <1>2, <1>3
<1>11. CASE SendBeacon
  <2> PICK b, d : b = Beacon(seq) /\ d = peer_addr
    OBVIOUS
  <2>0. seq \in Nat
    BY SessionAssumption DEF TypeOK
  <2>1. Genuine("sync", d, b)
    BY <2>0, <1>0, OtherBodies
  <2>2. PacketsGenuine
    <3>1. Sends("sync", d, b)
      BY <1>11 DEF SendBeacon
    <3>2. Genuine("sync", d, b)'
      BY <2>1, <1>1, StaysGenuine
    <3> QED BY <3>1, <3>2, <1>4
  <2>3. Connected'
    BY <1>11, <1>5 DEF SendBeacon, Synchronizing
  <2> QED BY <1>11, <2>2, <2>3, <1>3 DEF SendBeacon
<1>12. CASE MalformedMessage \/ IgnoreMessage \/ RecvBeaconReply
  <2>1. UNCHANGED <<now, packets, refVars, peer_addr, sync_start>> /\ Receive("sync")
        /\ Synchronizing
    BY <1>12 DEF MalformedMessage, IgnoreMessage, RecvBeaconReply, Synchronizing
  <2> QED BY <2>1, <1>2, <1>3, <1>5
<1>13. CASE AcceptHandshake
  <2>1. /\ Sends("ref", asked.from, HandshakeReply("success")) /\ Receive("ref")
        /\ UNCHANGED syncVars /\ asked.body = Handshake
        /\ ref_peer' = asked.from /\ ref_start' = now /\ now' = now /\ Accepted'
    BY <1>13 DEF AcceptHandshake, Answer, Accepted
  <2>0. PICK d : d = asked.from
    OBVIOUS
  <2>2. Genuine("ref", d, HandshakeReply("success"))'
    <3> SUFFICES ASSUME d = "sync"
                 PROVE  Accepted' /\ ref_peer' = "sync" /\ ref_start' <= now'
      BY DEF Genuine, GoodBye, HandshakeReply
    <3>1. now \in Nat
      BY DEF TypeOK
    <3>2. ref_peer' = d
      BY <2>0, <2>1
    <3> QED BY <2>1, <3>1, <3>2
  <2> QED BY <2>0, <2>1, <2>2, <1>3, <1>4, <1>23
<1>14. CASE RefuseHandshake
  <2>1. /\ Sends("ref", asked.from, HandshakeReply("version_mismatch")) /\ Receive("ref")
        /\ UNCHANGED syncVars
    BY <1>14 DEF RefuseHandshake, Answer
  <2> PICK d : d = asked.from
    OBVIOUS
  <2>2. Genuine("ref", d, HandshakeReply("version_mismatch"))'
    BY <1>0, <1>1, OtherBodies, StaysGenuine
  <2> QED BY <2>1, <2>2, <1>3, <1>4, <1>23
<1>15. CASE RecvBeacon \/ DropMessage
  <2>1. UNCHANGED <<packets, syncVars>> /\ Receive("ref")
    BY <1>15 DEF RecvBeacon, DropMessage
  <2> QED BY <2>1, <1>2, <1>3, <1>23
<1>16. CASE SendReply
  <2> PICK b, d : b = BeaconReply(request.seq, request.recv_time, now - ref_start + RefReply)
                  /\ d = ref_peer
    OBVIOUS
  <2>1. Sends("ref", d, b) /\ UNCHANGED <<queue, syncVars>>
    BY <1>16 DEF SendReply
  <2>2. Genuine("ref", d, b)
    <3>1. request.seq \in Nat /\ request.recv_time \in Int
      BY DEF TypeOK
    <3>2. RefReply \in Nat /\ now - ref_start + RefReply \in Int
      <4>1. RefReply \in Nat
        BY SessionAssumption
      <4> QED BY <4>1 DEF TypeOK
    <3> QED BY <3>1, <3>2, <1>0, OtherBodies
  <2>3. Genuine("ref", d, b)'
    BY <2>2, <1>1, StaysGenuine
  <2> QED BY <2>1, <2>3, <1>3, <1>4, <1>23
<1>17. CASE Tick
  BY <1>17, <1>2, <1>3, <1>23 DEF Tick
<1>18. ASSUME NEW p \in packets, Arrive(p)
       PROVE  PacketsGenuine /\ QueuesGenuine /\ Connected'
  <2>1. packets' \subseteq packets /\ UNCHANGED syncVars
    BY <1>18 DEF Arrive
  <2>2. QueuesGenuine
    <3> PICK new : new = [from |-> p.from, body |-> p.body, arrived |-> now]
      OBVIOUS
    <3>1. /\ p.to \in Nodes /\ queue' = [queue EXCEPT ![p.to] = Append(@, new)]
          /\ Genuine(new.from, p.to, new.body)
      BY <1>18 DEF Arrive, ConnectedInv
    <3> PICK dest \in Nodes : dest = p.to
      BY <3>1
    <3>2. Genuine(new.from, dest, new.body)'
      BY <3>1, <1>1, StaysGenuine
    <3> QED BY <3>1, <3>2, AppendGenuine
  <2> QED BY <2>1, <2>2, <1>2, <1>23
<1>19. ASSUME NEW dest \in Nodes, Stray(dest)
       PROVE  PacketsGenuine /\ QueuesGenuine /\ Connected'
  <2>0. PICK body \in Foreign :
          queue' = [queue EXCEPT ![dest] =
                      Append(@, [from |-> "elsewhere", body |-> body, arrived |-> now])]
    BY <1>19 DEF Stray
  <2> PICK new : new = [from |-> "elsewhere", body |-> body, arrived |-> now]
    OBVIOUS
  <2>1. queue' = [queue EXCEPT ![dest] = Append(@, new)] /\ new.from = "elsewhere"
    BY <2>0
  <2>2. packets' \subseteq packets /\ UNCHANGED syncVars
    BY <1>19 DEF Stray
  <2>3. strays' > 0
    BY <1>0, <1>19 DEF Stray
  <2>4. Genuine(new.from, dest, new.body)'
    BY <2>1, <2>3 DEF Genuine
  <2>5. QueuesGenuine
    BY <2>1, <2>4, AppendGenuine
  <2> QED BY <2>2, <2>5, <1>2, <1>23
<1>20. CASE UNCHANGED vars
  BY <1>20, <1>2, <1>3, <1>23 DEF vars, netVars
<1>21. CASE RecvGoodBye
  <2> PICK d : d = ref_peer
    OBVIOUS
  <2>1. Sends("ref", d, GoodByeReply) /\ Receive("ref") /\ UNCHANGED syncVars
    BY <1>21 DEF RecvGoodBye
  <2>2. Genuine("ref", d, GoodByeReply)'
    BY <1>0, <1>1, OtherBodies, StaysGenuine
  <2> QED BY <2>1, <2>2, <1>3, <1>4, <1>23
<1>22. ASSUME NEW p \in packets, Unreachable(p)
       PROVE  PacketsGenuine /\ QueuesGenuine /\ Connected'
  <2>1. packets' \subseteq packets /\ UNCHANGED queue
    BY <1>22 DEF Unreachable
  <2>2. /\ UNCHANGED <<peer_addr, sync_start>>
        /\ Synchronizing' => Synchronizing
    BY <1>22 DEF Unreachable, Synchronizing
  <2> QED BY <2>1, <2>2, <1>2, <1>3, <1>5
<1> QED
  BY <1>8, <1>9, <1>10, <1>11, <1>12, <1>13, <1>14, <1>15, <1>16, <1>17, <1>18, <1>19,
     <1>20, <1>21, <1>22 DEF Next, SyncNext, SyncAttempts, RefNext, NetworkNext

\* What is genuine is always so.
LEMMA SessionGenuine == Spec => []ConnectedInv
PROOF
<1>1. TypeOK /\ TypeOK' /\ ConnectedInv /\ [Next]_vars => ConnectedInv'
  BY NextConnected
<1> QED BY InitConnected, SessionTyped, <1>1, PTL DEF Spec

\* A SyncNode synchronizes only with the reference that accepted it or with another
\* program that wrote to it, whatever is lost, late, reordered or duplicated and
\* whatever other programs send.
THEOREM SessionConnected == Spec => []Connected
PROOF
<1>1. ConnectedInv => Connected
  BY DEF ConnectedInv
<1> QED BY SessionGenuine, <1>1, PTL

\* Unless another program wrote to one of the two, the reference is not told to
\* stop and a SyncNode that synchronizes does not lose its peer, whatever is lost,
\* late, reordered or duplicated.
THEOREM SessionPeersStay == Spec => []PeersStay
PROOF
<1>1. TypeOK /\ ConnectedInv => PeersStay
  BY DEF ConnectedInv, PeersInv, PeersStay
<1> QED BY SessionGenuine, SessionTyped, <1>1, PTL
=============================================================================
