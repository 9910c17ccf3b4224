------------------------------- MODULE Session -------------------------------
(***************************************************************************)
(* A SyncNode and a ReferenceNode of the demo program (demo/node.cpp),     *)
(* from the handshake to the rounds of beacons and replies whose times     *)
(* become the data points of the algorithm, over a UDP network that        *)
(* delays, reorders, duplicates and loses datagrams and on which other     *)
(* programs may send the nodes whatever is in Foreign.                     *)
(*                                                                         *)
(* Time is a count of ticks both steady clocks follow; what a node reads   *)
(* is the time since its own start.  Between two steps of a node any time  *)
(* may pass, except that the network and the reference's turnaround have   *)
(* the limits named below.                                                 *)
(***************************************************************************)
EXTENDS Integers, Sequences

CONSTANTS
  Timeout,                  \* RD_TIMEOUT_USEC, the SO_RCVTIMEO of the SyncNode
  Period,                   \* the time from a beacon to that of the next round
  SeqLimit,                 \* 256, the range of the uint8_t seq
  SyncBeacon, SyncReply,    \* the minimum_delays the SyncNode measured, and what
                            \* it adds to them for bandwidth and ping
  RefBeacon, RefReply,      \* the minimum_delays the ReferenceNode measured
  MinLatency, MaxLatency,   \* of a datagram, from sendto to the socket it is for
  QueueLimit,               \* of datagrams a socket holds for its program
  RefDelay,                 \* the longest a ReferenceNode takes over one of them
  Compatible,               \* the values compatible may have
  Foreign,                  \* the messages other programs may send to the nodes
  MaxFaults,                \* bound on duplicated and stray datagrams
  MaxNow                    \* bound on time

ASSUME SessionAssumption ==
  /\ {Timeout, Period, SyncBeacon, SyncReply, RefBeacon, RefReply,
      MinLatency, MaxLatency, QueueLimit, RefDelay, MaxFaults, MaxNow}
       \subseteq Nat
  /\ SeqLimit \in Nat \ {0}
  /\ Compatible \subseteq BOOLEAN
  /\ MinLatency <= MaxLatency
  \* No datagram is faster than the fastest ones measured.
  /\ SyncBeacon + RefBeacon <= MinLatency
  /\ SyncReply + RefReply <= MinLatency

VARIABLES
  now,
  packets,     \* the datagrams under way between the nodes
  queue,       \* for each node, those its socket holds
  strays,      \* the number of datagrams from elsewhere so far
  duplicates,  \* the number of datagrams duplicated so far
  sync_pc,     \* where SyncNode::run() is
  peer_addr,   \* where the SyncNode sends its handshake
  sync_start,  \* Node::start of the SyncNode
  seq,
  t_i,         \* when the last beacon was due
  to,          \* its timestamp
  recv_since,  \* when recvfrom was last called
  sample,      \* the times the last round handed to addDataPoint
  ref_pc,      \* where ReferenceNode::run() is
  ref_peer,    \* the address its socket is connected to
  ref_start,   \* Node::start of the ReferenceNode
  request,     \* the beacon it is about to answer
  compatible   \* it has the version of the SyncNode, and another mode: of the
               \* handshake of another program either may be true

syncVars == <<sync_pc, peer_addr, sync_start, seq, t_i, to, recv_since, sample>>
refVars == <<ref_pc, ref_peer, ref_start, request, compatible>>
faults == <<strays, duplicates>>
netVars == <<packets, queue, faults>>
vars == <<now, netVars, syncVars, refVars>>

Nodes == {"sync", "ref"}
Addresses == Nodes \cup {"elsewhere"}

\* A sockaddr of zeros: no datagram can be sent to it, and no socket is
\* connected to it.
NoAddress == "none"
NoRequest == [seq |-> 0, recv_time |-> 0, arrived |-> 0]
NoSample == [to |-> 0, tbr |-> 0, tbt |-> 0, tr |-> 0]

Init ==
  /\ now = 0 /\ packets = {} /\ strays = 0 /\ duplicates = 0
  /\ queue = [node \in Nodes |-> <<>>]
  /\ sync_pc = "greet" /\ peer_addr = "ref"
  /\ sync_start = 0 /\ seq = 0 /\ t_i = 0 /\ to = 0 /\ recv_since = 0
  /\ sample = NoSample
  /\ ref_pc = "listen" /\ ref_peer = NoAddress /\ ref_start = 0
  /\ request = NoRequest /\ compatible \in Compatible

---------------------------------------------------------------------------
(* The messages of protocol.proto.  No node says goodbye, but a reference  *)
(* that is told so ends.                                                   *)

Handshake == [type |-> "handshake"]
HandshakeReply(status) == [type |-> "handshake_r", status |-> status]
Beacon(n) == [type |-> "beacon", seq |-> n]
BeaconReply(n, tbr, tbt) == [type |-> "beacon_r", seq |-> n,
                             beacon_recv_time |-> tbr, reply_send_time |-> tbt]
GoodBye == [type |-> "goodbye"]
GoodByeReply == [type |-> "goodbye_r"]
Malformed == [type |-> "malformed"]

Body == {Handshake, GoodBye, GoodByeReply, Malformed}
          \cup {HandshakeReply(s) : s \in {"success", "version_mismatch"}}
          \cup [type : {"beacon"}, seq : Nat]
          \cup [type : {"beacon_r"}, seq : Nat, beacon_recv_time : Int, reply_send_time : Int]

ASSUME ForeignAssumption == Foreign \subseteq Body

\* The other programs take no part in a round.
NoForeignRounds == \A body \in Foreign : body.type \notin {"beacon", "beacon_r"}

---------------------------------------------------------------------------
(* The network: UDP and the sockets                                        *)

Packet(from, dest, body) == [from |-> from, to |-> dest, body |-> body, at |-> now]

Synchronizing == sync_pc \in {"beacon", "await"}

\* A reference that accepted a handshake stays with whoever sent it.
Accepted == ref_pc # "listen"

\* A program that has ended leaves a port nothing listens on.
Running(node) ==
  CASE node = "sync" -> sync_pc \notin {"refused", "failed", "disconnected"}
    [] node = "ref"  -> ref_pc \notin {"stopped", "disconnected"}

\* The address a socket is connected to.
Peer(node) == CASE node = "sync" -> IF Synchronizing THEN peer_addr ELSE NoAddress
                [] node = "ref"  -> ref_peer

\* A datagram reaches the socket it is for, in any order, or more than once,
\* or never.  A connected socket takes those of its peer only, and one whose
\* queue is full takes none; what it held before it was connected stays.
Arrive(p) ==
  /\ p.to \in Nodes
  /\ Running(p.to)
  /\ p.at + MinLatency <= now
  /\ Peer(p.to) \in {NoAddress, p.from}
  /\ Len(queue[p.to]) < QueueLimit
  /\ queue' = [queue EXCEPT ![p.to] =
                 Append(@, [from |-> p.from, body |-> p.body, arrived |-> now])]
  /\ \/ packets' = packets \ {p} /\ UNCHANGED duplicates
     \/ strays + duplicates < MaxFaults /\ duplicates' = duplicates + 1 /\ UNCHANGED packets
  /\ UNCHANGED <<now, strays, syncVars, refVars>>

\* A datagram from elsewhere: from another SyncNode or ReferenceNode, from what
\* ran here before, or from the program the SyncNode took for its peer.  A socket
\* takes it that is not connected yet, or to that program.
Stray(node) ==
  /\ strays + duplicates < MaxFaults
  /\ strays' = strays + 1
  /\ Running(node)
  /\ Peer(node) \in {NoAddress, "elsewhere"}
  /\ Len(queue[node]) < QueueLimit
  /\ \E body \in Foreign :
       queue' = [queue EXCEPT ![node] =
                   Append(@, [from |-> "elsewhere", body |-> body, arrived |-> now])]
  /\ UNCHANGED <<now, packets, duplicates, syncVars, refVars>>

\* A datagram for a program that has ended comes back as an error, which a
\* socket connected to that address reports at its next call: neither run()
\* catches the SocketReadException or SocketWriteException.  There may be no
\* program elsewhere any more, either.
Unreachable(p) ==
  /\ p.to \in Addresses
  /\ p.to \in Nodes => ~Running(p.to)
  /\ Running(p.from)
  /\ Peer(p.from) = p.to
  /\ p.at + MinLatency <= now
  /\ packets' = packets \ {p}
  /\ \/ /\ p.from = "sync"
        /\ sync_pc' = "disconnected"
        /\ UNCHANGED ref_pc
     \/ /\ p.from = "ref"
        /\ ref_pc' = "disconnected"
        /\ UNCHANGED sync_pc
  /\ UNCHANGED <<now, queue, faults, peer_addr, sync_start, seq, t_i, to, recv_since,
                 sample, ref_peer, ref_start, request, compatible>>

\* A datagram that is late is lost.
Tick ==
  /\ now < MaxNow
  /\ Running("ref") => \A i \in DOMAIN queue["ref"] :
                          now < queue["ref"][i].arrived + RefDelay
  /\ ref_pc = "reply" => now < request.arrived + RefDelay
  /\ now' = now + 1
  /\ packets' = {p \in packets : now < p.at + MaxLatency}
  /\ UNCHANGED <<queue, faults, syncVars, refVars>>

\* recvfrom, which returns at once if the socket holds a datagram.
Received(node) == Head(queue[node])
Receive(node) == /\ queue[node] # <<>>
                 /\ queue' = [queue EXCEPT ![node] = Tail(@)]

\* Mutant: the timeout is looked at before the queue is.
TimedOutAnyway == recv_since + Timeout <= now

TimedOut == queue["sync"] = <<>> /\ recv_since + Timeout <= now

---------------------------------------------------------------------------
(* SyncNode::handshake                                                     *)

\* send_message to the peer, and recv_message, which clears peer_addr before
\* it waits for a datagram to fill it in.
SendHandshake ==
  /\ sync_pc = "greet"
  /\ peer_addr # NoAddress
  /\ packets' = packets \cup {Packet("sync", peer_addr, Handshake)}
  /\ peer_addr' = NoAddress
  /\ recv_since' = now
  /\ sync_pc' = "greeted"
  /\ UNCHANGED <<now, queue, faults, sync_start, seq, t_i, to, sample, refVars>>

\* sendto refuses an address of zeros: SocketWriteException ends the program.
SendHandshakeFails ==
  /\ sync_pc = "greet"
  /\ peer_addr = NoAddress
  /\ sync_pc' = "failed"
  /\ UNCHANGED <<now, netVars, peer_addr, sync_start, seq, t_i, to, recv_since,
                 sample, refVars>>

HandshakeTimeout ==
  /\ sync_pc = "greeted"
  /\ TimedOut
  /\ sync_pc' = "greet"
  /\ UNCHANGED <<now, netVars, peer_addr, sync_start, seq, t_i, to, recv_since,
                 sample, refVars>>

\* Mutant: the status of a reply is not looked at.
SucceededAnyStatus(body) == body.type = "handshake_r"

Succeeded(body) == body = HandshakeReply("success")

\* On success, whoever reports it, the socket is connected to wherever the reply
\* came from and the clock is started; another status ends the program; after
\* anything else the handshake is sent again, to wherever that came from.
RecvHandshakeReply ==
  /\ sync_pc = "greeted"
  /\ Receive("sync")
  /\ LET m == Received("sync") IN
       /\ peer_addr' = m.from
       /\ \/ /\ Succeeded(m.body)
             /\ sync_pc' = "beacon"
             /\ sync_start' = now
             /\ t_i' = now
          \/ /\ m.body.type = "handshake_r"
             /\ ~Succeeded(m.body)
             /\ sync_pc' = "refused"
             /\ UNCHANGED <<sync_start, t_i>>
          \/ /\ m.body.type # "handshake_r"
             /\ sync_pc' = "greet"
             /\ UNCHANGED <<sync_start, t_i>>
  /\ UNCHANGED <<now, packets, faults, seq, to, recv_since, sample, refVars>>

---------------------------------------------------------------------------
(* SyncNode::sync                                                          *)

\* t_i is when the round may start: now, or at the end of the last one's sleep.
SendBeacon ==
  /\ sync_pc = "beacon"
  /\ t_i <= now
  /\ t_i' = now
  /\ to' = now - sync_start
  /\ packets' = packets \cup {Packet("sync", peer_addr, Beacon(seq))}
  /\ recv_since' = now
  /\ sync_pc' = "await"
  /\ UNCHANGED <<now, queue, faults, peer_addr, sync_start, seq, sample, refVars>>

\* A timeout repeats the beacon under the same number.
BeaconTimeout ==
  /\ sync_pc = "await"
  /\ TimedOut
  /\ sync_pc' = "beacon"
  /\ UNCHANGED <<now, netVars, peer_addr, sync_start, seq, t_i, to, recv_since,
                 sample, refVars>>

\* So does a datagram that is no message.
MalformedMessage ==
  /\ sync_pc = "await"
  /\ Receive("sync")
  /\ Received("sync").body = Malformed
  /\ sync_pc' = "beacon"
  /\ UNCHANGED <<now, packets, faults, peer_addr, sync_start, seq, t_i, to,
                 recv_since, sample, refVars>>

\* Mutant: the number of a reply is not looked at.
IsReplyToAny(body) == body.type = "beacon_r"

IsReply(body) == body.type = "beacon_r" /\ body.seq = seq

\* Any other message is ignored, and waiting starts anew.
IgnoreMessage ==
  /\ sync_pc = "await"
  /\ Receive("sync")
  /\ ~IsReply(Received("sync").body) /\ Received("sync").body # Malformed
  /\ recv_since' = now
  /\ UNCHANGED <<now, packets, faults, sync_pc, peer_addr, sync_start, seq, t_i,
                 to, sample, refVars>>

\* Mutants: the number does not wrap; every round has the same.
NextSeqForever == seq + 1
NextSeqSame == seq

NextSeq == (seq + 1) % SeqLimit

RecvBeaconReply ==
  /\ sync_pc = "await"
  /\ Receive("sync")
  /\ LET reply == Received("sync").body IN
       /\ IsReply(reply)
       /\ sample' = [to  |-> to + SyncBeacon,
                     tbr |-> reply.beacon_recv_time,
                     tbt |-> reply.reply_send_time,
                     tr  |-> now - sync_start - SyncReply]
  /\ seq' = NextSeq
  /\ t_i' = t_i + Period
  /\ sync_pc' = "beacon"
  /\ UNCHANGED <<now, packets, faults, peer_addr, sync_start, to, recv_since, refVars>>

---------------------------------------------------------------------------
(* ReferenceNode::wait_for_handshake and serve                             *)

Answer(dest, status) ==
  packets' = packets \cup {Packet("ref", dest, HandshakeReply(status))}

\* The socket is connected and the clock started before the reply is sent.
AcceptHandshake ==
  /\ ref_pc = "listen"
  /\ Receive("ref")
  /\ LET m == Received("ref") IN
       /\ m.body = Handshake /\ (m.from = "sync" => compatible)
       /\ ref_peer' = m.from
       /\ Answer(m.from, "success")
  /\ ref_start' = now
  /\ ref_pc' = "serve"
  /\ UNCHANGED <<now, faults, syncVars, request, compatible>>

RefuseHandshake ==
  /\ ref_pc = "listen"
  /\ Receive("ref")
  /\ LET m == Received("ref") IN
       /\ m.body = Handshake /\ (m.from = "sync" => ~compatible)
       /\ Answer(m.from, "version_mismatch")
  /\ UNCHANGED <<now, faults, syncVars, refVars>>

RecvBeacon ==
  /\ ref_pc = "serve"
  /\ Receive("ref")
  /\ LET m == Received("ref") IN
       /\ m.body.type = "beacon"
       /\ request' = [seq |-> m.body.seq, recv_time |-> now - ref_start - RefBeacon,
                      arrived |-> m.arrived]
  /\ ref_pc' = "reply"
  /\ UNCHANGED <<now, packets, faults, syncVars, ref_peer, ref_start, compatible>>

SendReply ==
  /\ ref_pc = "reply"
  /\ packets' = packets \cup
       {Packet("ref", ref_peer,
               BeaconReply(request.seq, request.recv_time, now - ref_start + RefReply))}
  /\ ref_pc' = "serve"
  /\ request' = NoRequest
  /\ UNCHANGED <<now, queue, faults, syncVars, ref_peer, ref_start, compatible>>

\* Mutant: all that is no beacon is a goodbye.
IsNoBeacon(body) == body.type # "beacon"

IsGoodBye(body) == body = GoodBye

\* A goodbye is believed whoever sent it: one that waited in the queue while
\* the socket was connected ends the session.
RecvGoodBye ==
  /\ ref_pc = "serve"
  /\ Receive("ref")
  /\ IsGoodBye(Received("ref").body)
  /\ packets' = packets \cup {Packet("ref", ref_peer, GoodByeReply)}
  /\ ref_pc' = "stopped"
  /\ UNCHANGED <<now, faults, syncVars, ref_peer, ref_start, request, compatible>>

\* Whatever else arrives is read and dropped.
DropMessage ==
  /\ Receive("ref")
  /\ LET body == Received("ref").body IN
       \/ ref_pc = "listen" /\ body # Handshake
       \/ ref_pc = "serve" /\ body.type # "beacon" /\ ~IsGoodBye(body)
  /\ UNCHANGED <<now, packets, faults, syncVars, refVars>>

---------------------------------------------------------------------------
\* All that a SyncNode does but complete a round.
SyncAttempts ==
  \/ SendHandshake \/ SendHandshakeFails \/ HandshakeTimeout \/ RecvHandshakeReply
  \/ SendBeacon \/ BeaconTimeout \/ MalformedMessage \/ IgnoreMessage

SyncNext == SyncAttempts \/ RecvBeaconReply

RefNext ==
  \/ AcceptHandshake \/ RefuseHandshake
  \/ RecvBeacon \/ SendReply \/ RecvGoodBye \/ DropMessage

NetworkNext ==
  \/ Tick
  \/ \E p \in packets : Arrive(p) \/ Unreachable(p)
  \/ \E node \in Nodes : Stray(node)

Next == SyncNext \/ RefNext \/ NetworkNext

Spec == Init /\ [][Next]_vars

---------------------------------------------------------------------------
(* Properties                                                              *)

Datagram == [from : Addresses, to : Addresses \cup {NoAddress}, body : Body, at : Nat]
Message == [from : Addresses, body : Body, arrived : Nat]

\* Every variable keeps to its range: seq to that of a uint8_t, the queues to
\* their limit.
TypeOK ==
  /\ now \in Nat /\ strays \in Nat /\ duplicates \in Nat /\ strays + duplicates <= MaxFaults
  /\ packets \subseteq Datagram
  /\ queue \in [Nodes -> Seq(Message)]
  /\ \A node \in Nodes : Len(queue[node]) <= QueueLimit
  /\ sync_pc \in {"greet", "greeted", "beacon", "await", "refused", "failed", "disconnected"}
  /\ peer_addr \in Addresses \cup {NoAddress}
  /\ sync_start \in Nat /\ t_i \in Nat /\ to \in Int /\ recv_since \in Nat
  /\ seq \in 0..(SeqLimit - 1)
  /\ sample \in [to : Int, tbr : Int, tbt : Int, tr : Int]
  /\ ref_pc \in {"listen", "serve", "reply", "stopped", "disconnected"}
  /\ ref_peer \in Addresses \cup {NoAddress}
  /\ ref_start \in Nat
  /\ request \in [seq : Nat, recv_time : Int, arrived : Nat]
  /\ compatible \in BOOLEAN

\* A SyncNode that leaves its handshake (node.cpp:296-305) has been accepted: by
\* the reference, whose socket is connected to its own and whose clock was
\* started before its own, or by another program that wrote to it or answered a
\* handshake it was sent.
Connected ==
  Synchronizing =>
    \/ peer_addr = "ref" /\ Accepted /\ ref_peer = "sync" /\ ref_start <= sync_start
    \/ peer_addr = "elsewhere" /\ strays > 0

\* Among themselves the nodes do not end each other's session: a reference stops
\* (node.cpp:542-549) and a SyncNode that synchronizes loses its peer only after a
\* datagram of another program has come in, whatever else is lost, late or
\* received twice.
PeersStay == strays = 0 => ref_pc # "stopped" /\ sync_pc # "disconnected"

\* A time of the reference on the clock of the SyncNode.
Truth(tb) == tb + ref_start - sync_start

\* What addDataPoint needs of the times it is given (node.cpp:396-424): the
\* beacon left, all minimum delays added, before it was received, and its
\* reply was sent before it came in; and both times are after the reference's
\* start, as the bounds of the offset assume.  A malformed datagram that waits in
\* the queue from before the handshake breaks it, as it repeats the beacon at once.
SamplesSound ==
  sample # NoSample /\ strays = 0 =>
    /\ 0 <= sample.tbr
    /\ sample.to <= Truth(sample.tbr)
    /\ Truth(sample.tbt) <= sample.tr

\* Data points come in the order of their times, none twice: what
\* __recalculateEstimates takes for granted (minisync.cpp:118), over timeouts,
\* duplicates and the wrap of seq, and whatever other programs send, unless they
\* send beacons or replies to them.  A reply that waits in the queue from before
\* the socket was connected is accepted for its number (node.cpp:369-379).
SamplesInOrder ==
  [][(strays = 0 \/ NoForeignRounds) /\ sample' # sample =>
       /\ sample'.tbr < sample'.tbt
       /\ sample # NoSample => /\ sample.tbt < sample'.tbr
                               /\ sample.to < sample'.to
                               /\ sample.tr < sample'.tr]_vars

---------------------------------------------------------------------------
(* Without its times a session is an exchange.                             *)

Plain(body) ==
  IF body.type = "beacon_r" THEN [type |-> "beacon_r", seq |-> body.seq] ELSE body

PlainNet == {[from |-> p.from, to |-> p.to, body |-> Plain(p.body)] : p \in packets}

PlainQueue ==
  [node \in Nodes |->
     [i \in 1..Len(queue[node]) |->
        [from |-> queue[node][i].from, body |-> Plain(queue[node][i].body)]]]

E == INSTANCE Exchange WITH
       net <- PlainNet, queue <- PlainQueue, request <- request.seq,
       QueueLimit <- [node \in Nodes |-> QueueLimit],
       Foreign <- {Plain(body) : body \in Foreign}, MaxStrays <- MaxFaults

\* Every step of the nodes and the network, whenever it comes, is one the
\* untimed programs (Exchange) can take, or takes time only.
ExchangeSpec == E!Spec

---------------------------------------------------------------------------
(* Claims of the repository that the code does not keep                    *)

\* "if timed out, repeat!" (node.cpp:321): a handshake that is not answered
\* does not end the program.
HandshakeRepeats == sync_pc # "failed"

=============================================================================
