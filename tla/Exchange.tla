------------------------------- MODULE Exchange -------------------------------
(***************************************************************************)
(* What a session of a SyncNode and a ReferenceNode promises, without its  *)
(* times: the programs of demo/node.cpp, of which a datagram on its way    *)
(* may be late beyond any bound and a timeout may come at any time nothing *)
(* waits to be read.  Session implements this specification.  Here it is   *)
(* asked whether the nodes get anywhere, among other programs that may     *)
(* send them anything and answer whatever they are sent.                   *)
(***************************************************************************)
EXTENDS Integers, Sequences

CONSTANTS
  SeqLimit,    \* 256, the range of the uint8_t seq
  QueueLimit,  \* for each node, of datagrams its socket holds for it
  Compatible,  \* the values compatible may have
  Foreign,     \* the messages other programs may send to the nodes
  MaxStrays    \* bound on those sent unasked

ASSUME ExchangeAssumption ==
  /\ SeqLimit \in Nat \ {0} /\ QueueLimit \in [{"sync", "ref"} -> Nat]
  /\ Compatible \subseteq BOOLEAN /\ MaxStrays \in Nat

VARIABLES
  net,         \* the datagrams under way between the nodes
  queue,       \* for each node, those its socket holds
  strays,      \* the number of datagrams sent unasked from elsewhere so far
  sync_pc, peer_addr, seq,
  ref_pc, ref_peer,
  request,     \* the number of the beacon about to be answered
  compatible

syncVars == <<sync_pc, peer_addr, seq>>
refVars == <<ref_pc, ref_peer, request, compatible>>
vars == <<net, queue, strays, syncVars, refVars>>

Nodes == {"sync", "ref"}
NoAddress == "none"

Handshake == [type |-> "handshake"]
HandshakeReply(status) == [type |-> "handshake_r", status |-> status]
Beacon(n) == [type |-> "beacon", seq |-> n]
BeaconReply(n) == [type |-> "beacon_r", seq |-> n]
GoodBye == [type |-> "goodbye"]
GoodByeReply == [type |-> "goodbye_r"]
Malformed == [type |-> "malformed"]

Datagram(from, dest, body) == [from |-> from, to |-> dest, body |-> body]

Init ==
  /\ net = {} /\ strays = 0 /\ queue = [node \in Nodes |-> <<>>]
  /\ sync_pc = "greet" /\ peer_addr = "ref" /\ seq = 0
  /\ ref_pc = "listen" /\ ref_peer = NoAddress /\ request = 0
  /\ compatible \in Compatible

---------------------------------------------------------------------------
(* The network                                                             *)

Synchronizing == sync_pc \in {"beacon", "await"}
SyncEnded == sync_pc \in {"refused", "failed", "disconnected"}
RefEnded == ref_pc \in {"stopped", "disconnected"}
Running(node) == IF node = "sync" THEN ~SyncEnded ELSE ~RefEnded

\* The address a socket is connected to.
Peer(node) == CASE node = "sync" -> IF Synchronizing THEN peer_addr ELSE NoAddress
                [] node = "ref"  -> ref_peer

Enqueue(node, from, body) ==
  /\ Running(node)
  /\ Peer(node) \in {NoAddress, from}
  /\ Len(queue[node]) < QueueLimit[node]
  /\ queue' = [queue EXCEPT ![node] = Append(@, [from |-> from, body |-> body])]

\* A datagram that arrives may stay under way, and arrive again.
Arrive(m) ==
  /\ m \in net
  /\ m.to \in Nodes
  /\ Enqueue(m.to, m.from, m.body)
  /\ net' \in {net, net \ {m}}
  /\ UNCHANGED <<strays, syncVars, refVars>>

Stray(node, body) ==
  /\ strays < MaxStrays
  /\ strays' = strays + 1
  /\ Enqueue(node, "elsewhere", body)
  /\ UNCHANGED <<net, syncVars, refVars>>

\* A program elsewhere answers what a node has sent it, as often as it is sent
\* something.
Answer(m, body) ==
  /\ m \in net
  /\ m.to = "elsewhere"
  /\ Enqueue(m.from, "elsewhere", body)
  /\ UNCHANGED <<net, strays, syncVars, refVars>>

Lose(lost) == net' = net \ lost /\ UNCHANGED <<queue, strays, syncVars, refVars>>

\* The error for a datagram whose receiver has ended ends its sender, too.
Unreachable(m) ==
  /\ m \in net
  /\ m.to \in Nodes => ~Running(m.to)
  /\ Running(m.from) /\ Peer(m.from) = m.to
  /\ net' \in {net, net \ {m}}
  /\ \/ /\ m.from = "sync"
        /\ sync_pc' = "disconnected"
        /\ UNCHANGED ref_pc
     \/ /\ m.from = "ref"
        /\ ref_pc' = "disconnected"
        /\ UNCHANGED sync_pc
  /\ UNCHANGED <<queue, strays, peer_addr, seq, ref_peer, request, compatible>>

Send(from, dest, body) == net' = net \cup {Datagram(from, dest, body)}

Received(node) == Head(queue[node])
Receive(node) == /\ queue[node] # <<>>
                 /\ queue' = [queue EXCEPT ![node] = Tail(@)]

---------------------------------------------------------------------------
(* SyncNode: handshake and sync                                            *)

\* sendto refuses the address recv_message has cleared.
SendHandshake ==
  /\ sync_pc = "greet"
  /\ \/ /\ peer_addr # NoAddress
        /\ sync_pc' = "greeted"
        /\ Send("sync", peer_addr, Handshake)
        /\ peer_addr' = NoAddress
     \/ /\ peer_addr = NoAddress
        /\ sync_pc' = "failed"
        /\ UNCHANGED <<net, peer_addr>>
  /\ UNCHANGED <<queue, strays, seq, refVars>>

\* Mutant: a refusal does not end the handshake.
RepliedForever(body) == IF body = HandshakeReply("success") THEN "beacon" ELSE "greet"

Replied(body) ==
  CASE body = HandshakeReply("success") -> "beacon"
    [] body = HandshakeReply("version_mismatch") -> "refused"
    [] OTHER -> "greet"

RecvHandshakeReply ==
  /\ sync_pc = "greeted"
  /\ Receive("sync")
  /\ peer_addr' = Received("sync").from
  /\ sync_pc' = Replied(Received("sync").body)
  /\ UNCHANGED <<net, strays, seq, refVars>>

SendBeacon ==
  /\ sync_pc = "beacon"
  /\ Send("sync", peer_addr, Beacon(seq))
  /\ sync_pc' = "await"
  /\ UNCHANGED <<queue, strays, peer_addr, seq, refVars>>

\* Mutant: a timeout goes back to waiting, and nothing is sent again.
TimeOutWaits ==
  /\ sync_pc \in {"greeted", "await"}
  /\ queue["sync"] = <<>>
  /\ sync_pc' = IF sync_pc = "greeted" THEN "greet" ELSE "await"
  /\ UNCHANGED <<net, queue, strays, peer_addr, seq, refVars>>

\* In either wait, what was sent is sent again.
TimeOut ==
  /\ sync_pc \in {"greeted", "await"}
  /\ queue["sync"] = <<>>
  /\ sync_pc' = IF sync_pc = "greeted" THEN "greet" ELSE "beacon"
  /\ UNCHANGED <<net, queue, strays, peer_addr, seq, refVars>>

NextSeq == (seq + 1) % SeqLimit

\* The reply asked for ends the round, a malformed datagram repeats the beacon,
\* any other message is ignored.
RecvBeaconReply ==
  /\ sync_pc = "await"
  /\ Receive("sync")
  /\ LET body == Received("sync").body IN
       /\ seq' = IF body = BeaconReply(seq) THEN NextSeq ELSE seq
       /\ sync_pc' = IF body \in {BeaconReply(seq), Malformed} THEN "beacon" ELSE "await"
  /\ UNCHANGED <<net, strays, peer_addr, refVars>>

---------------------------------------------------------------------------
(* ReferenceNode: wait_for_handshake and serve                             *)

RecvHandshake ==
  /\ ref_pc = "listen"
  /\ Receive("ref")
  /\ LET m == Received("ref") IN
       /\ m.body = Handshake
       /\ \/ /\ m.from = "sync" => compatible
             /\ ref_peer' = m.from /\ ref_pc' = "serve"
             /\ Send("ref", m.from, HandshakeReply("success"))
          \/ /\ m.from = "sync" => ~compatible
             /\ Send("ref", m.from, HandshakeReply("version_mismatch"))
             /\ UNCHANGED <<ref_peer, ref_pc>>
  /\ UNCHANGED <<strays, syncVars, request, compatible>>

RecvBeacon ==
  /\ ref_pc = "serve"
  /\ Receive("ref")
  /\ Received("ref").body.type = "beacon"
  /\ request' = Received("ref").body.seq
  /\ ref_pc' = "reply"
  /\ UNCHANGED <<net, strays, syncVars, ref_peer, compatible>>

SendReply ==
  /\ ref_pc = "reply"
  /\ Send("ref", ref_peer, BeaconReply(request))
  /\ ref_pc' = "serve"
  /\ request' = 0
  /\ UNCHANGED <<queue, strays, syncVars, ref_peer, compatible>>

RecvGoodBye ==
  /\ ref_pc = "serve"
  /\ Receive("ref")
  /\ Received("ref").body = GoodBye
  /\ Send("ref", ref_peer, GoodByeReply)
  /\ ref_pc' = "stopped"
  /\ UNCHANGED <<strays, syncVars, ref_peer, request, compatible>>

DropMessage ==
  /\ Receive("ref")
  /\ LET body == Received("ref").body IN
       \/ ref_pc = "listen" /\ body # Handshake
       \/ ref_pc = "serve" /\ body.type # "beacon" /\ body # GoodBye
  /\ UNCHANGED <<net, strays, syncVars, refVars>>

---------------------------------------------------------------------------
SyncNext ==
  SendHandshake \/ RecvHandshakeReply \/ SendBeacon \/ TimeOut \/ RecvBeaconReply

RefNext == RecvHandshake \/ RecvBeacon \/ SendReply \/ RecvGoodBye \/ DropMessage

NetworkNext ==
  \/ \E m \in net : Arrive(m) \/ Unreachable(m)
  \/ \E m \in net, body \in Foreign : Answer(m, body)
  \/ \E lost \in SUBSET net : Lose(lost)
  \/ \E node \in Nodes, body \in Foreign : Stray(node, body)

Next == SyncNext \/ RefNext \/ NetworkNext

Spec == Init /\ [][Next]_vars

---------------------------------------------------------------------------
(* Fairness.  Both programs run, and a read has a timeout in one of them;  *)
(* no copy of a datagram is under way for ever; and if beacons are sent    *)
(* again and again the network delivers one, and so with replies.          *)

SeqNumbers == 0..(SeqLimit - 1)
Beacons == {Datagram("sync", "ref", Beacon(n)) : n \in SeqNumbers}
Replies == {Datagram("ref", "sync", BeaconReply(n)) : n \in SeqNumbers}
Others ==
  {Datagram("sync", "ref", Handshake)} \cup
  {Datagram("ref", "sync", body) : body \in {HandshakeReply("success"), GoodByeReply}}

Gone(m) == m \in net /\ Lose({m})

Fairness ==
  /\ WF_vars(SyncNext)
  /\ WF_vars(RefNext)
  /\ \A m \in Beacons \cup Replies \cup Others : WF_vars(Gone(m))
  /\ SF_vars(\E m \in Beacons : Arrive(m))
  /\ SF_vars(\E m \in Replies : Arrive(m))

FairSpec == Spec /\ Fairness

---------------------------------------------------------------------------
(* Properties                                                              *)

\* The handshake ends (node.cpp:276), in a session, in a refusal or in an error,
\* whatever the network loses: no refusal and no silence is answered with
\* handshakes for ever.  Only another program can keep it going, which has to
\* answer handshakes, again and again, with what is no reply to one
\* (node.cpp:287-291, 325-329), as a second SyncNode would.
HandshakeEnds ==
  \/ <>(sync_pc \notin {"greet", "greeted"})
  \/ []<>(sync_pc = "greet" /\ peer_addr = "elsewhere")

\* A SyncNode that synchronizes with the reference completes one round after the
\* other, over any finite run of losses, unless its reference ended.  What it
\* ignores while it waits (node.cpp:363) holds its next beacon up, but not for
\* ever, as a reference only talks when it is asked.
KeepsSynchronizing ==
  []<><<seq' # seq>>_seq \/ <>[](RefEnded \/ ~Synchronizing \/ peer_addr # "ref")

=============================================================================
