-------------------------- MODULE SessionRefinement --------------------------
(***************************************************************************)
(* A session implements the untimed exchange: every step of the two        *)
(* programs and of the network, at whatever time it comes, is a step of    *)
(* Exchange or changes nothing Exchange tells.                             *)
(***************************************************************************)
EXTENDS SessionProofs

---------------------------------------------------------------------------
(* Datagrams and queues without their times *)

PlainMessage(m) == [from |-> m.from, body |-> Plain(m.body)]
PlainMessages(q) == [i \in 1..Len(q) |-> PlainMessage(q[i])]
PlainPacket(p) == [from |-> p.from, to |-> p.to, body |-> Plain(p.body)]

LEMMA PlainNetIs ==
  /\ PlainNet = {PlainPacket(p) : p \in packets}
  /\ PlainNet' = {PlainPacket(p) : p \in packets'}
  BY DEF PlainNet, PlainPacket

LEMMA PlainQueueIs ==
  /\ PlainQueue = [node \in Nodes |-> PlainMessages(queue[node])]
  /\ PlainQueue' = [node \in Nodes |-> PlainMessages(queue'[node])]
  BY DEF PlainQueue, PlainMessages, PlainMessage

PlainMessageSet == {PlainMessage(m) : m \in Message}

LEMMA PlainTyped ==
  ASSUME NEW q \in Seq(Message)
  PROVE  /\ PlainMessages(q) \in Seq(PlainMessageSet)
         /\ Len(PlainMessages(q)) = Len(q)
         /\ \A i \in 1..Len(q) : PlainMessages(q)[i] = PlainMessage(q[i])
<1>1. \A i \in 1..Len(q) : PlainMessage(q[i]) \in PlainMessageSet
  BY DEF PlainMessageSet
<1>2. Len(q) \in Nat
  OBVIOUS
<1> QED
  BY <1>1, <1>2 DEF PlainMessages

LEMMA PlainAppend ==
  ASSUME NEW q \in Seq(Message), NEW m \in Message
  PROVE  PlainMessages(Append(q, m)) = Append(PlainMessages(q), PlainMessage(m))
<1> DEFINE p == PlainMessages(q)
           n == PlainMessage(m)
           r == Append(q, m)
           s == PlainMessages(r)
           t == Append(p, n)
<1>1. p \in Seq(PlainMessageSet) /\ Len(p) = Len(q) /\ n \in PlainMessageSet
  BY PlainTyped DEF PlainMessageSet
<1>2. /\ r \in Seq(Message) /\ Len(r) = Len(q) + 1
      /\ r[Len(q) + 1] = m /\ \A i \in 1..Len(q) : r[i] = q[i]
  BY AppendProperties
<1>3. /\ t \in Seq(PlainMessageSet) /\ Len(t) = Len(q) + 1
      /\ t[Len(q) + 1] = n /\ \A i \in 1..Len(q) : t[i] = p[i]
  <2> HIDE DEF p, n
  <2> QED
    BY <1>1, AppendProperties
<1>4. s \in Seq(PlainMessageSet) /\ Len(s) = Len(q) + 1
  BY <1>2, PlainTyped
<1>5. ASSUME NEW i \in 1..(Len(q) + 1) PROVE s[i] = t[i]
  <2>1. s[i] = PlainMessage(r[i])
    BY <1>2, PlainTyped
  <2>2. CASE i = Len(q) + 1
    <3>1. t[i] = n /\ r[i] = m
      BY <1>2, <1>3, <2>2
    <3> QED
      BY <2>1, <3>1
  <2>3. CASE i \in 1..Len(q)
    <3>1. t[i] = p[i] /\ r[i] = q[i] /\ p[i] = PlainMessage(q[i])
      BY <1>2, <1>3, <2>3, PlainTyped
    <3> QED
      BY <2>1, <3>1
  <2>4. i = Len(q) + 1 \/ i \in 1..Len(q)
    <3>1. Len(q) \in Nat
      OBVIOUS
    <3> QED
      BY <3>1
  <2> QED
    BY <2>2, <2>3, <2>4
<1> HIDE DEF s, t
<1>6. s = t
  BY <1>3, <1>4, <1>5, SeqEqual
<1> QED
  BY <1>6 DEF s, t

LEMMA PlainTail ==
  ASSUME NEW q \in Seq(Message), q # <<>>
  PROVE  /\ PlainMessages(q) # <<>>
         /\ Head(PlainMessages(q)) = PlainMessage(Head(q))
         /\ PlainMessages(Tail(q)) = Tail(PlainMessages(q))
<1> DEFINE p == PlainMessages(q)
           s == PlainMessages(Tail(q))
           t == Tail(p)
<1>1. p \in Seq(PlainMessageSet) /\ Len(p) = Len(q) /\ Len(q) \in Nat /\ Len(q) > 0
  BY PlainTyped
<1>2. p # <<>> /\ Head(p) = p[1]
  <2> HIDE DEF p
  <2> QED
    BY <1>1
<1>3. Head(p) = PlainMessage(Head(q))
  BY <1>1, <1>2, PlainTyped
<1>4. /\ Tail(q) \in Seq(Message) /\ Len(Tail(q)) = Len(q) - 1
      /\ \A i \in 1..(Len(q) - 1) : Tail(q)[i] = q[i + 1]
  BY HeadTailProperties
<1>5. /\ t \in Seq(PlainMessageSet) /\ Len(t) = Len(q) - 1
      /\ \A i \in 1..(Len(q) - 1) : t[i] = p[i + 1]
  <2> HIDE DEF p
  <2> QED
    BY <1>1, <1>2, HeadTailProperties
<1>6. s \in Seq(PlainMessageSet) /\ Len(s) = Len(q) - 1
  BY <1>4, PlainTyped
<1>7. ASSUME NEW i \in 1..(Len(q) - 1) PROVE s[i] = t[i]
  <2>1. s[i] = PlainMessage(q[i + 1])
    BY <1>4, PlainTyped
  <2>2. i + 1 \in 1..Len(q)
    BY <1>1
  <2> QED
    BY <1>5, <2>1, <2>2, PlainTyped
<1>8. s = t
  <2> HIDE DEF s, t
  <2> QED
    BY <1>5, <1>6, <1>7, SeqEqual
<1> QED
  BY <1>2, <1>3, <1>8

(***************************************************************************)
(* What Session's helpers do is what Exchange's do.                        *)
(***************************************************************************)
LEMMA ReceivePlain ==
  ASSUME TypeOK, NEW node \in Nodes, Receive(node)
  PROVE  E!Receive(node) /\ E!Received(node) = PlainMessage(Received(node))
<1>1. queue[node] \in Seq(Message) /\ queue[node] # <<>>
  BY DEF TypeOK, Receive
<1>2. PlainQueue[node] = PlainMessages(queue[node])
  BY PlainQueueIs
<1>3. PlainQueue' = [PlainQueue EXCEPT ![node] = PlainMessages(Tail(queue[node]))]
  BY PlainQueueIs DEF Receive, TypeOK
<1> QED
  BY <1>1, <1>2, <1>3, PlainTail DEF E!Receive, E!Received, Received

LEMMA AppendPlain ==
  ASSUME TypeOK, NEW node \in Nodes, NEW m \in Message,
         queue' = [queue EXCEPT ![node] = Append(@, m)]
  PROVE  PlainQueue' = [PlainQueue EXCEPT ![node] = Append(@, PlainMessage(m))]
<1>1. queue[node] \in Seq(Message)
  BY DEF TypeOK
<1>2. PlainQueue[node] = PlainMessages(queue[node])
  BY PlainQueueIs
<1>3. PlainQueue' = [PlainQueue EXCEPT ![node] = PlainMessages(Append(queue[node], m))]
  BY PlainQueueIs DEF TypeOK
<1> QED
  BY <1>1, <1>2, <1>3, PlainAppend

LEMMA QueuePlain == UNCHANGED queue => UNCHANGED PlainQueue
  BY DEF PlainQueue

LEMMA SendPlain ==
  ASSUME NEW from, NEW dest, NEW body, packets' = packets \cup {Packet(from, dest, body)}
  PROVE  E!Send(from, dest, Plain(body))
<1> DEFINE p == Packet(from, dest, body)
<1>1. PlainPacket(p) = E!Datagram(from, dest, Plain(body))
  BY DEF Packet, PlainPacket, E!Datagram
<1> HIDE DEF p
<1>2. packets' = packets \cup {p}
  BY DEF p
<1>3. PlainNet' = PlainNet \cup {PlainPacket(p)}
  BY <1>2, PlainNetIs
<1> QED
  BY <1>1, <1>3 DEF E!Send

LEMMA LosePlain ==
  ASSUME packets' \subseteq packets
  PROVE  PlainNet' \subseteq PlainNet
BY DEF PlainNet

LEMMA RemovePlain ==
  ASSUME NEW p \in packets, packets' = packets \/ packets' = packets \ {p}
  PROVE  PlainPacket(p) \in PlainNet /\ PlainNet' \in {PlainNet, PlainNet \ {PlainPacket(p)}}
<1>1. PlainPacket(p) \in PlainNet
  BY PlainNetIs
<1>2. PlainNet' \subseteq PlainNet /\ PlainNet \ {PlainPacket(p)} \subseteq PlainNet'
  BY PlainNetIs
<1> QED
  BY <1>1, <1>2

\* Without its times a message is still told from every other kind.
LEMMA PlainBodies ==
  ASSUME NEW body \in Body
  PROVE  /\ Plain(body).type = body.type
         /\ body = Handshake <=> Plain(body) = E!Handshake
         /\ body = GoodBye <=> Plain(body) = E!GoodBye
         /\ body = Malformed <=> Plain(body) = E!Malformed
         /\ Succeeded(body) <=> Plain(body) = E!HandshakeReply("success")
         /\ body.type = "handshake_r" /\ ~Succeeded(body)
              => Plain(body) = E!HandshakeReply("version_mismatch")
         /\ IsReply(body) <=> Plain(body) = E!BeaconReply(seq)
         /\ body.type = "beacon" => Plain(body).seq = body.seq
<1> USE DEF Plain, Handshake, GoodBye, GoodByeReply, Malformed, HandshakeReply, Succeeded,
            IsReply, E!Handshake, E!GoodBye, E!Malformed, E!HandshakeReply, E!BeaconReply
<1>1. CASE body \in {Handshake, GoodBye, GoodByeReply, Malformed}
  BY <1>1
<1>2. CASE body \in {HandshakeReply(s) : s \in {"success", "version_mismatch"}}
  BY <1>2
<1>3. CASE body \in [type : {"beacon"}, seq : Nat]
  BY <1>3
<1>4. CASE body \in [type : {"beacon_r"}, seq : Nat, beacon_recv_time : Int, reply_send_time : Int]
  BY <1>4
<1> QED
  BY <1>1, <1>2, <1>3, <1>4 DEF Body

---------------------------------------------------------------------------
(* The steps *)

LEMMA SyncRefines ==
  ASSUME TypeOK, SyncNext
  PROVE  E!Next
<1> DEFINE m == Received("sync")
<1>0. "sync" \in Nodes
  BY DEF Nodes
<1>1. CASE SendHandshake
  <2>1. E!Send("sync", peer_addr, E!Handshake)
    <3>1. Plain(Handshake) = E!Handshake
      BY DEF Plain, Handshake, E!Handshake
    <3> QED
      BY <1>1, <3>1, SendPlain DEF SendHandshake
  <2>2. UNCHANGED PlainQueue
    BY <1>1, QueuePlain DEF SendHandshake
  <2>3. E!SendHandshake
    BY <1>1, <2>1, <2>2 DEF SendHandshake, E!SendHandshake, E!refVars, refVars, faults,
       NoAddress, E!NoAddress
  <2> QED
    BY <2>3 DEF E!SyncNext, E!Next
<1>2. CASE SendHandshakeFails
  <2>1. UNCHANGED <<PlainNet, PlainQueue>>
    BY <1>2 DEF SendHandshakeFails, netVars, PlainNet, PlainQueue
  <2>2. E!SendHandshake
    BY <1>2, <2>1 DEF SendHandshakeFails, E!SendHandshake, E!refVars, refVars, netVars, faults,
       NoAddress, E!NoAddress
  <2> QED
    BY <2>2 DEF E!SyncNext, E!Next
<1>3. CASE HandshakeTimeout \/ BeaconTimeout
  <2>1. UNCHANGED <<PlainNet, PlainQueue>>
    BY <1>3 DEF HandshakeTimeout, BeaconTimeout, netVars, PlainNet, PlainQueue
  <2>2. PlainQueue["sync"] = <<>>
    <3>1. queue["sync"] = <<>>
      BY <1>3 DEF HandshakeTimeout, BeaconTimeout, TimedOut
    <3> QED
      BY <1>0, <3>1, PlainQueueIs DEF PlainMessages
  <2>3. E!TimeOut
    BY <1>3, <2>1, <2>2 DEF HandshakeTimeout, BeaconTimeout, E!TimeOut, E!refVars, refVars,
       netVars, faults
  <2> QED
    BY <2>3 DEF E!SyncNext, E!Next
<1>4. CASE RecvHandshakeReply
  <2>1. Receive("sync") /\ UNCHANGED PlainNet
    BY <1>4 DEF RecvHandshakeReply, PlainNet
  <2>2. m \in Message
    BY <1>0, <2>1, ReceiveTyped DEF TypeOK
  <2>3. E!Receive("sync") /\ E!Received("sync") = PlainMessage(m)
    BY <1>0, <2>1, ReceivePlain
  <2>4. m.body \in Body
    BY <2>2 DEF Message
  <2>5. peer_addr' = m.from /\ sync_pc' = E!Replied(Plain(m.body))
    <3>1. CASE Succeeded(m.body)
      BY <1>4, <2>4, <3>1, PlainBodies
         DEF RecvHandshakeReply, E!Replied, E!HandshakeReply, Succeeded, HandshakeReply
    <3>2. CASE m.body.type = "handshake_r" /\ ~Succeeded(m.body)
      BY <1>4, <2>4, <3>2, PlainBodies DEF RecvHandshakeReply, E!Replied, E!HandshakeReply
    <3>3. CASE m.body.type # "handshake_r"
      <4>1. Plain(m.body).type # "handshake_r"
        BY <2>4, <3>3, PlainBodies
      <4> QED
        BY <1>4, <3>3, <4>1 DEF RecvHandshakeReply, E!Replied, E!HandshakeReply, Succeeded,
           HandshakeReply
    <3> QED
      BY <3>1, <3>2, <3>3
  <2>6. E!RecvHandshakeReply
    BY <1>4, <2>1, <2>3, <2>5
       DEF RecvHandshakeReply, E!RecvHandshakeReply, E!refVars, refVars, faults, PlainMessage
  <2> QED
    BY <2>6 DEF E!SyncNext, E!Next
<1>5. CASE SendBeacon
  <2>1. E!Send("sync", peer_addr, E!Beacon(seq))
    <3>1. Plain(Beacon(seq)) = E!Beacon(seq)
      BY DEF Plain, Beacon, E!Beacon
    <3> QED
      BY <1>5, <3>1, SendPlain DEF SendBeacon
  <2>2. UNCHANGED PlainQueue
    BY <1>5, QueuePlain DEF SendBeacon
  <2>3. E!SendBeacon
    BY <1>5, <2>1, <2>2 DEF SendBeacon, E!SendBeacon, E!refVars, refVars, faults
  <2> QED
    BY <2>3 DEF E!SyncNext, E!Next
<1>6. CASE MalformedMessage \/ IgnoreMessage \/ RecvBeaconReply
  <2>1. Receive("sync") /\ UNCHANGED PlainNet
    BY <1>6 DEF MalformedMessage, IgnoreMessage, RecvBeaconReply, PlainNet
  <2>2. m \in Message
    BY <1>0, <2>1, ReceiveTyped DEF TypeOK
  <2>3. E!Receive("sync") /\ E!Received("sync") = PlainMessage(m)
    BY <1>0, <2>1, ReceivePlain
  <2>4. m.body \in Body
    BY <2>2 DEF Message
  <2>5. /\ seq' = IF Plain(m.body) = E!BeaconReply(seq) THEN E!NextSeq ELSE seq
        /\ sync_pc' = IF Plain(m.body) \in {E!BeaconReply(seq), E!Malformed}
                        THEN "beacon" ELSE "await"
    BY <1>6, <2>4, PlainBodies DEF MalformedMessage, IgnoreMessage, RecvBeaconReply,
       IsReply, Malformed, NextSeq, E!NextSeq
  <2>6. E!RecvBeaconReply
    BY <1>6, <2>1, <2>3, <2>5 DEF MalformedMessage, IgnoreMessage, RecvBeaconReply,
       E!RecvBeaconReply, E!refVars, refVars, faults, PlainMessage
  <2> QED
    BY <2>6 DEF E!SyncNext, E!Next
<1> QED
  BY <1>1, <1>2, <1>3, <1>4, <1>5, <1>6 DEF SyncNext, SyncAttempts

LEMMA RefRefines ==
  ASSUME TypeOK, RefNext
  PROVE  E!Next
<1> DEFINE m == Received("ref")
<1>0. "ref" \in Nodes
  BY DEF Nodes
<1>1. CASE SendReply
  <2>1. E!Send("ref", ref_peer, E!BeaconReply(request.seq))
    <3>1. \A i, j : Plain(BeaconReply(request.seq, i, j)) = E!BeaconReply(request.seq)
      BY DEF Plain, BeaconReply, E!BeaconReply
    <3> QED
      BY <1>1, <3>1, SendPlain DEF SendReply
  <2>2. UNCHANGED PlainQueue
    BY <1>1, QueuePlain DEF SendReply
  <2>3. E!SendReply
    BY <1>1, <2>1, <2>2 DEF SendReply, E!SendReply, NoRequest, E!syncVars, syncVars, faults
  <2> QED
    BY <2>3 DEF E!RefNext, E!Next
<1>2. ASSUME Receive("ref")
      PROVE  /\ m.body \in Body
             /\ E!Receive("ref") /\ E!Received("ref") = PlainMessage(m)
             /\ E!Received("ref").body = Plain(m.body) /\ E!Received("ref").from = m.from
  <2>1. m \in Message
    BY <1>0, <1>2, ReceiveTyped DEF TypeOK
  <2>2. E!Receive("ref") /\ E!Received("ref") = PlainMessage(m)
    BY <1>0, <1>2, ReceivePlain
  <2> QED
    BY <2>1, <2>2 DEF Message, PlainMessage
<1>3. CASE AcceptHandshake \/ RefuseHandshake
  <2>1. Receive("ref") /\ m.body = Handshake
    BY <1>3 DEF AcceptHandshake, RefuseHandshake
  <2>2. E!Received("ref").body = E!Handshake
    BY <1>2, <2>1, PlainBodies
  <2>3. \A s : Plain(HandshakeReply(s)) = E!HandshakeReply(s)
    BY DEF Plain, HandshakeReply, E!HandshakeReply
  <2>4. CASE AcceptHandshake
    <3>1. E!Send("ref", m.from, E!HandshakeReply("success"))
      BY <2>3, <2>4, SendPlain DEF AcceptHandshake, Answer
    <3>2. E!RecvHandshake
      BY <1>2, <2>1, <2>2, <2>4, <3>1
         DEF AcceptHandshake, E!RecvHandshake, E!syncVars, syncVars, faults
    <3> QED
      BY <3>2 DEF E!RefNext, E!Next
  <2>5. CASE RefuseHandshake
    <3>1. E!Send("ref", m.from, E!HandshakeReply("version_mismatch"))
      BY <2>3, <2>5, SendPlain DEF RefuseHandshake, Answer
    <3>2. E!RecvHandshake
      BY <1>2, <2>1, <2>2, <2>5, <3>1
         DEF RefuseHandshake, E!RecvHandshake, E!syncVars, syncVars, refVars, faults
    <3> QED
      BY <3>2 DEF E!RefNext, E!Next
  <2> QED
    BY <1>3, <2>4, <2>5
<1>4. CASE RecvBeacon
  <2>1. Receive("ref") /\ m.body.type = "beacon" /\ UNCHANGED PlainNet
    BY <1>4 DEF RecvBeacon, PlainNet
  <2>2. /\ E!Received("ref").body.type = "beacon"
        /\ E!Received("ref").body.seq = m.body.seq
    BY <1>2, <2>1, PlainBodies
  <2>3. E!RecvBeacon
    BY <1>2, <1>4, <2>1, <2>2 DEF RecvBeacon, E!RecvBeacon, E!syncVars, syncVars, faults
  <2> QED
    BY <2>3 DEF E!RefNext, E!Next
<1>5. CASE RecvGoodBye
  <2>1. Receive("ref") /\ m.body = GoodBye
    BY <1>5 DEF RecvGoodBye, IsGoodBye
  <2>2. E!Received("ref").body = E!GoodBye
    BY <1>2, <2>1, PlainBodies
  <2>3. E!Send("ref", ref_peer, E!GoodByeReply)
    <3>1. Plain(GoodByeReply) = E!GoodByeReply
      BY DEF Plain, GoodByeReply, E!GoodByeReply
    <3> QED
      BY <1>5, <3>1, SendPlain DEF RecvGoodBye
  <2>4. E!RecvGoodBye
    BY <1>2, <1>5, <2>1, <2>2, <2>3 DEF RecvGoodBye, E!RecvGoodBye, E!syncVars, syncVars, faults
  <2> QED
    BY <2>4 DEF E!RefNext, E!Next
<1>6. CASE DropMessage
  <2>1. Receive("ref") /\ UNCHANGED PlainNet
    BY <1>6 DEF DropMessage, PlainNet
  <2>2. LET body == E!Received("ref").body IN
          \/ ref_pc = "listen" /\ body # E!Handshake
          \/ ref_pc = "serve" /\ body.type # "beacon" /\ body # E!GoodBye
    BY <1>2, <1>6, <2>1, PlainBodies DEF DropMessage, IsGoodBye
  <2>3. E!DropMessage
    BY <1>2, <1>6, <2>1, <2>2 DEF DropMessage, E!DropMessage, E!syncVars, syncVars,
       E!refVars, refVars, faults
  <2> QED
    BY <2>3 DEF E!RefNext, E!Next
<1> QED
  BY <1>1, <1>3, <1>4, <1>5, <1>6 DEF RefNext

\* Both specifications know the same sockets and the same programs.
LEMMA SameSockets ==
  /\ E!Nodes = Nodes /\ E!NoAddress = NoAddress
  /\ \A node \in Nodes : E!Peer(node) = Peer(node) /\ (TypeOK => (E!Running(node) <=> Running(node)))
<1>1. E!Nodes = Nodes /\ E!NoAddress = NoAddress
  BY DEF E!Nodes, Nodes, E!NoAddress, NoAddress
<1>2. \A node \in Nodes : E!Peer(node) = Peer(node)
  BY <1>1 DEF E!Peer, Peer, Nodes, E!Synchronizing, Synchronizing
<1>3. \A node \in Nodes : TypeOK => (E!Running(node) <=> Running(node))
  BY DEF E!Running, Running, Nodes, E!SyncEnded, E!RefEnded
<1> QED
  BY <1>1, <1>2, <1>3

\* A message that finds room in the queue of a socket that takes it.
LEMMA EnqueuePlain ==
  ASSUME TypeOK, NEW node \in Nodes, NEW m \in Message,
         Running(node), Peer(node) \in {NoAddress, m.from}, Len(queue[node]) < QueueLimit,
         queue' = [queue EXCEPT ![node] = Append(@, m)]
  PROVE  E!Enqueue(node, m.from, Plain(m.body))
<1>1. queue[node] \in Seq(Message)
  BY DEF TypeOK
<1>2. PlainQueue[node] = PlainMessages(queue[node])
  BY PlainQueueIs
<1>3. Len(PlainQueue[node]) = Len(queue[node])
  BY <1>1, <1>2, PlainTyped
<1>4. PlainQueue' = [PlainQueue EXCEPT ![node] = Append(@, [from |-> m.from, body |-> Plain(m.body)])]
  BY AppendPlain DEF PlainMessage
<1> QED
  BY <1>3, <1>4, SameSockets DEF E!Enqueue

LEMMA NetworkRefines ==
  ASSUME TypeOK, NetworkNext
  PROVE  E!Next
<1>1. ASSUME NEW p \in packets, Arrive(p) PROVE E!Next
  <2> DEFINE m == [from |-> p.from, body |-> p.body, arrived |-> now]
  <2>1. p.to \in Nodes /\ m \in Message
    BY <1>1 DEF Arrive, TypeOK, Datagram, Message
  <2>2. E!Enqueue(p.to, p.from, Plain(p.body))
    <3>1. /\ Running(p.to) /\ Peer(p.to) \in {NoAddress, m.from} /\ Len(queue[p.to]) < QueueLimit
          /\ queue' = [queue EXCEPT ![p.to] = Append(@, m)]
      BY <1>1 DEF Arrive
    <3>2. E!Enqueue(p.to, m.from, Plain(m.body))
      <4> HIDE DEF m
      <4> QED
        BY <2>1, <3>1, EnqueuePlain
    <3> QED
      BY <3>2
  <2>3. PlainPacket(p) \in PlainNet /\ PlainNet' \in {PlainNet, PlainNet \ {PlainPacket(p)}}
    BY <1>1, <2>1, RemovePlain DEF Arrive
  <2>4. E!Arrive(PlainPacket(p))
    BY <1>1, <2>2, <2>3 DEF Arrive, E!Arrive, PlainPacket, E!Nodes, Nodes, E!syncVars, syncVars, E!refVars, refVars
  <2> QED
    BY <2>3, <2>4 DEF E!NetworkNext, E!Next
<1>2. ASSUME NEW p \in packets, Unreachable(p) PROVE E!Next
  <2>1. p.from \in {"sync", "ref"}
    BY <1>2 DEF Unreachable
  <2>2. PlainPacket(p) \in PlainNet /\ PlainNet' \in {PlainNet, PlainNet \ {PlainPacket(p)}}
    BY <1>2, <2>1, RemovePlain DEF Unreachable
  <2>3. /\ p.to \in E!Nodes => ~E!Running(p.to)
        /\ E!Running(p.from) /\ E!Peer(p.from) = p.to
    BY <1>2, <2>1, SameSockets DEF Unreachable, Nodes
  <2>4. UNCHANGED PlainQueue
    BY <1>2, QueuePlain DEF Unreachable
  <2>5. E!Unreachable(PlainPacket(p))
    BY <1>2, <2>2, <2>3, <2>4 DEF Unreachable, E!Unreachable, PlainPacket, faults
  <2> QED
    BY <2>2, <2>5 DEF E!NetworkNext, E!Next
<1>3. ASSUME NEW node \in Nodes, Stray(node) PROVE E!Next
  <2>1. PICK body \in Foreign :
          queue' = [queue EXCEPT ![node] =
                      Append(@, [from |-> "elsewhere", body |-> body, arrived |-> now])]
    BY <1>3 DEF Stray
  <2> DEFINE m == [from |-> "elsewhere", body |-> body, arrived |-> now]
  <2>2. m \in Message
    BY ForeignAssumption DEF TypeOK, Message, Addresses
  <2>3. E!Enqueue(node, "elsewhere", Plain(body))
    <3>1. /\ Running(node) /\ Peer(node) \in {NoAddress, m.from} /\ Len(queue[node]) < QueueLimit
          /\ queue' = [queue EXCEPT ![node] = Append(@, m)]
      BY <1>3, <2>1 DEF Stray
    <3>2. E!Enqueue(node, m.from, Plain(m.body))
      <4> HIDE DEF m
      <4> QED
        BY <2>2, <3>1, EnqueuePlain
    <3> QED
      BY <3>2
  <2>4. Plain(body) \in {Plain(b) : b \in Foreign}
    OBVIOUS
  <2>5. strays < MaxFaults
    <3>1. strays \in Nat /\ duplicates \in Nat /\ MaxFaults \in Nat
      BY SessionAssumption DEF TypeOK
    <3>2. strays + duplicates < MaxFaults
      BY <1>3 DEF Stray
    <3> QED
      BY <3>1, <3>2
  <2>6. E!Stray(node, Plain(body))
    BY <1>3, <2>3, <2>5 DEF Stray, E!Stray, PlainNet, E!syncVars, syncVars, E!refVars, refVars
  <2> QED
    BY <2>4, <2>6, SameSockets DEF E!NetworkNext, E!Next
<1>4. CASE Tick
  <2> DEFINE lost == PlainNet \ PlainNet'
  <2>1. PlainNet' = PlainNet \ lost
    BY <1>4, LosePlain DEF Tick
  <2>2. UNCHANGED PlainQueue
    BY <1>4, QueuePlain DEF Tick
  <2>3. E!Lose(lost)
    BY <1>4, <2>1, <2>2 DEF Tick, E!Lose, E!syncVars, syncVars, E!refVars, refVars, faults
  <2> QED
    BY <2>3 DEF E!NetworkNext, E!Next
<1> QED
  BY <1>1, <1>2, <1>3, <1>4 DEF NetworkNext

LEMMA InitRefines == Init => E!Init
<1> SUFFICES ASSUME Init PROVE E!Init
  OBVIOUS
<1>1. PlainNet = {}
  BY DEF Init, PlainNet
<1>2. PlainQueue = [node \in Nodes |-> <<>>]
  BY PlainQueueIs DEF Init, PlainMessages
<1> QED
  BY <1>1, <1>2, SameSockets DEF Init, E!Init, NoRequest

(***************************************************************************)
(* Whatever the times, the limits and the faults, every step of a session  *)
(* is one of the untimed exchange: what Exchange is shown to do is not     *)
(* lost by the abstraction of its times.                                   *)
(***************************************************************************)
THEOREM SessionImplementsExchange == Spec => ExchangeSpec
<1>1. ASSUME TypeOK, [Next]_vars PROVE [E!Next]_E!vars
  <2>1. CASE UNCHANGED vars
    BY <2>1 DEF vars, netVars, syncVars, refVars, faults, PlainNet, PlainQueue,
       E!vars, E!syncVars, E!refVars
  <2> QED
    BY <1>1, <2>1, SyncRefines, RefRefines, NetworkRefines DEF Next
<1>2. TypeOK /\ [Next]_vars => [E!Next]_E!vars
  BY <1>1
<1> QED
  BY <1>2, InitRefines, SessionTyped, PTL DEF Spec, E!Spec, ExchangeSpec
=============================================================================
