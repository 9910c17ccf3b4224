---------------------------- MODULE SessionTiming ----------------------------
(***************************************************************************)
(* Why the data points of a session are sound: when a round trip is        *)
(* shorter than the timeout, and shorter than the time in which the        *)
(* numbers of the beacons come round, a reply with the number of the       *)
(* current round answers the current beacon and no other.  For every       *)
(* timing of that kind, every number of losses and duplicates, as long as  *)
(* nothing strays in from elsewhere (see SamplesSound); and the order of   *)
(* the data points as long as no beacon and no reply to one does.          *)
(***************************************************************************)
EXTENDS SessionProofs

\* The longest time from a beacon to the arrival of its reply.
RoundTrip == 2 * MaxLatency + RefDelay

\* The time in which all other numbers are used.
OtherRounds == (SeqLimit - 1) * Period

Prompt == RoundTrip < Timeout /\ RoundTrip < OtherRounds + 2 * MinLatency

\* The minimum delays are measured: a beacon takes time to be sent, and so do
\* the beacon or the reply to be read or sent.
Measured == SyncBeacon > 0 /\ RefBeacon + RefReply > 0

---------------------------------------------------------------------------
(* The inductive invariant *)

Greeting == sync_pc \in {"greet", "greeted"}

\* How many rounds ago a number was last used, and for how long at least.
Since(n) == IF n <= seq THEN seq - n ELSE seq - n + SeqLimit
Age(n) == Since(n) * Period

\* What strays in from before the handshake is read before the first reply, and
\* spoils the first round only.
Tidy == strays = 0 \/ sample # NoSample

\* What is numbered n, and was seen at the time t, comes from a beacon sent
\* from most to least ticks before: not after that number was last used, and
\* if it is the number of this round then not before its last beacon.  In a
\* first round that is spoilt it may come from an earlier beacon.
Timely(n, t, least, most) ==
  /\ ~Greeting
  /\ n \in 0..(SeqLimit - 1)
  /\ Synchronizing =>
       /\ t - most <= t_i - Age(n)
       /\ Tidy /\ n = seq => sync_pc = "await" /\ t_i + least <= t
       /\ Tidy \/ n = seq

\* The times in a reply that was sent at the time t or before.
Honest(body, t) ==
  /\ Accepted
  /\ body.beacon_recv_time + RefBeacon + RefReply <= body.reply_send_time
  /\ body.reply_send_time + ref_start <= t + RefReply
  /\ Tidy /\ Synchronizing /\ body.seq = seq =>
       t_i + MinLatency <= body.beacon_recv_time + ref_start + RefBeacon

PacketInv(p) ==
  /\ p.at <= now /\ now <= p.at + MaxLatency
  /\ p.body # Malformed
  /\ p.body.type = "beacon" => Timely(p.body.seq, p.at, 0, 0)
  /\ p.body.type = "beacon_r" =>
       /\ Timely(p.body.seq, p.at, MinLatency, MaxLatency + RefDelay)
       /\ Honest(p.body, p.at)

RefMessageInv(m) ==
  /\ m.arrived <= now /\ now <= m.arrived + RefDelay
  /\ m.body.type = "beacon" => Timely(m.body.seq, m.arrived, MinLatency, MaxLatency)

RequestInv ==
  /\ request.arrived <= now /\ now <= request.arrived + RefDelay
  /\ Timely(request.seq, request.arrived, MinLatency, MaxLatency)
  /\ request.arrived <= request.recv_time + ref_start + RefBeacon
  /\ request.recv_time + ref_start + RefBeacon <= now

SyncMessageInv(m) ==
  /\ m.arrived <= now
  /\ Tidy => m.body # Malformed
  /\ m.body.type = "beacon_r" =>
       /\ Timely(m.body.seq, m.arrived, 2 * MinLatency, RoundTrip)
       /\ Honest(m.body, m.arrived - MinLatency)

\* Nothing malformed comes in after a reply.
InOrder(q) == \A i, j \in DOMAIN q : i <= j =>
                /\ q[i].arrived <= q[j].arrived
                /\ q[i].body.type = "beacon_r" => q[j].body # Malformed

PacketsInv == \A p \in packets : PacketInv(p)
RefQueueInv == Running("ref") => \A i \in DOMAIN queue["ref"] : RefMessageInv(queue["ref"][i])
ReplyInv == ref_pc = "reply" => RequestInv
SyncQueueInv == /\ \A i \in DOMAIN queue["sync"] : SyncMessageInv(queue["sync"][i])
                /\ InOrder(queue["sync"])

RoundInv ==
  /\ Synchronizing => sync_start <= t_i
  /\ sync_pc = "await" => to + sync_start = t_i /\ t_i <= recv_since /\ t_i <= now

\* When the reply of the last round was read.
SampleRead == sample.tr + sync_start + SyncReply

\* The last sample is from before the beacon under way.
SampleOld ==
  /\ SampleRead <= now
  /\ sync_pc = "await" => SampleRead <= t_i
  /\ sample.tbt + ref_start + MinLatency <= SampleRead + RefReply
  /\ Synchronizing => sample.to + sync_start + Period <= t_i + SyncBeacon

SampleInv == /\ SamplesSound
             /\ sample.tbr <= sample.tbt
             /\ sample # NoSample => Accepted /\ ~Greeting /\ SampleOld

TimingInv ==
  /\ PacketsInv /\ RefQueueInv /\ ReplyInv /\ SyncQueueInv
  /\ RoundInv /\ SampleInv

\* The SyncNode left its handshake for another program than the reference.
Redirected == ~Greeting /\ peer_addr = "elsewhere"

\* Nothing strayed in, or nothing that takes part in a round, and it is told when
\* the first round is over.
Followed == \/ strays = 0
            \/ Measured /\ NoForeignRounds /\ ~Redirected

FollowedInv == Followed => TimingInv

---------------------------------------------------------------------------
(* Numbers *)

LEMMA Constants ==
  /\ Timeout \in Nat /\ Period \in Nat /\ SyncBeacon \in Nat /\ SyncReply \in Nat
  /\ RefBeacon \in Nat /\ RefReply \in Nat /\ MinLatency \in Nat /\ MaxLatency \in Nat
  /\ RefDelay \in Nat /\ RoundTrip \in Nat /\ OtherRounds \in Int
  /\ MinLatency <= MaxLatency
  /\ SyncBeacon + RefBeacon <= MinLatency /\ SyncReply + RefReply <= MinLatency
PROOF
<1>1. MaxLatency \in Nat /\ RefDelay \in Nat
  BY SessionAssumption
<1>2. RoundTrip \in Nat
  BY <1>1 DEF RoundTrip
<1>3. OtherRounds \in Int
  <2>1. SeqLimit - 1 \in Int /\ Period \in Int
    BY SessionAssumption
  <2> QED BY <2>1 DEF OtherRounds
<1> QED BY <1>2, <1>3, SessionAssumption

\* There is more than one number, and a round takes time.
LEMMA Rounds ==
  ASSUME Prompt
  PROVE  OtherRounds # 0 /\ Period > 0
PROOF
<1>1. OtherRounds > 0
  BY Constants DEF Prompt, RoundTrip
<1>2. Period \in Nat /\ (SeqLimit - 1) * Period # 0
  BY <1>1, Constants DEF OtherRounds
<1>3. \A x \in Int : x * 0 = 0
  OBVIOUS
<1>4. SeqLimit - 1 \in Int
  BY SessionAssumption
<1>5. Period # 0
  BY <1>2, <1>3, <1>4
<1> QED BY <1>1, <1>2, <1>5

\* A round ago is a Period earlier.
LEMMA Product ==
  ASSUME NEW k \in Int
  PROVE  k * Period \in Int /\ (k + 1) * Period = k * Period + Period
PROOF
<1>1. Period \in Int
  BY Constants
<1>2. \A x \in Int, y \in Int : x * y \in Int /\ (x + 1) * y = x * y + y
  OBVIOUS
<1> QED BY <1>1, <1>2

LEMMA AgeTyped ==
  ASSUME TypeOK, NEW n \in 0..(SeqLimit - 1)
  PROVE  Age(n) \in Int /\ Since(n) \in Int /\ (n = seq => Age(n) = 0)
PROOF
<1>1. SeqLimit \in Nat /\ seq \in Int
  BY SessionAssumption DEF TypeOK
<1>2. Since(n) \in Int /\ (n = seq => Since(n) = 0)
  BY <1>1 DEF Since
<1>3. 0 * Period = 0
  BY Constants
<1> QED BY <1>2, <1>3, Product DEF Age

\* With a new round all numbers age but the one it takes, which is the oldest.
LEMMA Aging ==
  ASSUME TypeOK, seq' = NextSeq, NEW n \in 0..(SeqLimit - 1)
  PROVE  IF n = seq' THEN Age(n) = OtherRounds ELSE Age(n)' = Age(n) + Period
PROOF
<1>1. SeqLimit \in Nat \ {0} /\ seq \in 0..(SeqLimit - 1) /\ Period \in Nat
  BY SessionAssumption DEF TypeOK
<1>2. seq' = IF seq = SeqLimit - 1 THEN 0 ELSE seq + 1
  <2>1. ASSUME NEW L \in Nat \ {0}, NEW s \in 0..(L - 1)
        PROVE  (s + 1) % L = IF s = L - 1 THEN 0 ELSE s + 1
    OBVIOUS
  <2> QED BY <1>1, <2>1 DEF NextSeq
<1>3. CASE n = seq'
  <2>1. Since(n) = SeqLimit - 1
    BY <1>1, <1>2, <1>3 DEF Since
  <2> QED BY <1>3, <2>1 DEF Age, OtherRounds
<1>4. CASE n # seq'
  <2>1. Since(n)' = Since(n) + 1 /\ Since(n) \in Int
    BY <1>1, <1>2, <1>4 DEF Since
  <2>2. Age(n)' = Since(n)' * Period
    BY DEF Age
  <2> QED BY <1>4, <2>1, <2>2, Product DEF Age
<1> QED BY <1>3, <1>4

---------------------------------------------------------------------------
(* What a step leaves as it is *)

\* Who is redirected stays so.
LEMMA RedirectedStays ==
  ASSUME TypeOK, [Next]_vars, Redirected
  PROVE  Redirected'
PROOF
<1>1. CASE SyncNext
  BY <1>1 DEF SyncNext, SyncAttempts, SendHandshake, SendHandshakeFails, HandshakeTimeout,
     RecvHandshakeReply, SendBeacon, BeaconTimeout, MalformedMessage, IgnoreMessage,
     RecvBeaconReply, Redirected, Greeting
<1>2. CASE UNCHANGED syncVars
  BY <1>2 DEF syncVars, Redirected, Greeting
<1>3. CASE RefNext
  BY <1>2, <1>3 DEF RefNext, AcceptHandshake, RefuseHandshake, RecvBeacon, SendReply,
     RecvGoodBye, DropMessage
<1>4. ASSUME NEW p \in packets, Unreachable(p) PROVE Redirected'
  BY <1>4 DEF Unreachable, Redirected, Greeting
<1>5. ASSUME NEW p \in packets, Arrive(p) PROVE UNCHANGED syncVars
  BY <1>5 DEF Arrive
<1>6. ASSUME NEW node \in Nodes, Stray(node) PROVE UNCHANGED syncVars
  BY <1>6 DEF Stray
<1>7. CASE Tick \/ UNCHANGED vars
  BY <1>2, <1>7 DEF Tick, vars
<1> QED BY <1>1, <1>2, <1>3, <1>4, <1>5, <1>6, <1>7 DEF Next, NetworkNext

\* A SyncNode that is followed while it synchronizes does so with the reference.
LEMMA FollowedPeer ==
  ASSUME ConnectedInv, Followed, Synchronizing
  PROVE  peer_addr = "ref" /\ Accepted /\ ref_peer = "sync" /\ ref_start <= sync_start
PROOF
<1>1. ~Greeting
  BY DEF Synchronizing, Greeting
<1>2. ~(peer_addr = "elsewhere" /\ strays > 0)
  BY <1>1 DEF Followed, Redirected
<1> QED BY <1>2 DEF ConnectedInv, Connected

\* Who is followed after a step was so before it.
LEMMA StrayFollowed ==
  ASSUME TypeOK, [Next]_vars, Followed', strays' = 0 => strays = 0
  PROVE  Followed
  BY RedirectedStays DEF Followed, Measured, NoForeignRounds

\* What strays in finds a socket that is not connected, and the nodes do nothing.
LEMMA StraysBefore ==
  ASSUME TypeOK, ConnectedInv, [Next]_vars, NEW node \in Nodes, Stray(node), Followed'
  PROVE  /\ Followed /\ Measured /\ NoForeignRounds
         /\ ~Synchronizing /\ strays' # 0
         /\ node = "sync" => Greeting
         /\ UNCHANGED <<now, packets, duplicates, syncVars, refVars>>
         /\ \E body \in Foreign :
              queue' = [queue EXCEPT ![node] =
                          Append(@, [from |-> "elsewhere", body |-> body, arrived |-> now])]
PROOF
<1>1. /\ Peer(node) \in {NoAddress, "elsewhere"} /\ Running(node)
      /\ strays' = strays + 1 /\ strays \in Nat
  BY DEF Stray, TypeOK
<1>2. strays' # 0
  BY <1>1
<1>3. Followed /\ Measured /\ NoForeignRounds
  BY <1>2, StrayFollowed DEF Followed, Measured, NoForeignRounds
<1>4. ~Synchronizing
  <2> SUFFICES ASSUME Synchronizing PROVE FALSE
    OBVIOUS
  <2>1. peer_addr = "ref" /\ ref_peer = "sync"
    BY <1>3, FollowedPeer
  <2> QED BY <1>1, <2>1 DEF Peer, NoAddress, Nodes
<1>5. node = "sync" => Greeting
  BY <1>1, <1>4 DEF Running, Greeting, Synchronizing, TypeOK
<1>6. UNCHANGED <<now, packets, duplicates, syncVars, refVars>>
  BY DEF Stray
<1>7. \E body \in Foreign :
        queue' = [queue EXCEPT ![node] =
                    Append(@, [from |-> "elsewhere", body |-> body, arrived |-> now])]
  BY DEF Stray
<1> QED BY <1>2, <1>3, <1>4, <1>5, <1>6, <1>7

LEMMA StraysStay ==
  ASSUME TypeOK, [Next]_vars
  PROVE  UNCHANGED strays \/ \E node \in Nodes : Stray(node)
PROOF
<1>1. CASE SyncNext
  BY <1>1 DEF SyncNext, SyncAttempts, SendHandshake, SendHandshakeFails, HandshakeTimeout,
     RecvHandshakeReply, SendBeacon, BeaconTimeout, MalformedMessage, IgnoreMessage,
     RecvBeaconReply, netVars, faults
<1>2. CASE RefNext
  BY <1>2 DEF RefNext, AcceptHandshake, RefuseHandshake, RecvBeacon, SendReply,
     RecvGoodBye, DropMessage, faults
<1>3. CASE Tick
  BY <1>3 DEF Tick, faults
<1>4. ASSUME NEW p \in packets, Arrive(p) \/ Unreachable(p) PROVE strays' = strays
  BY <1>4 DEF Arrive, Unreachable, faults
<1>5. CASE UNCHANGED vars
  BY <1>5 DEF vars, netVars, faults
<1> QED BY <1>1, <1>2, <1>3, <1>4, <1>5 DEF Next, NetworkNext

LEMMA NoStrays ==
  ASSUME TypeOK, [Next]_vars, strays' = 0
  PROVE  strays = 0
PROOF
<1>1. ASSUME NEW node \in Nodes, Stray(node) PROVE FALSE
  BY <1>1 DEF Stray, TypeOK
<1> QED BY <1>1, StraysStay

\* Either the SyncNode does something, or the time passes, or neither.
LEMMA Steps ==
  ASSUME TypeOK, [Next]_vars
  PROVE  \/ SyncNext
         \/ UNCHANGED syncVars
         \/ /\ Synchronizing' \/ Greeting' => UNCHANGED sync_pc
            /\ UNCHANGED <<sync_start, seq, t_i, to, recv_since, sample>>
PROOF
<1>1. CASE RefNext
  BY <1>1 DEF RefNext, AcceptHandshake, RefuseHandshake, RecvBeacon, SendReply,
     RecvGoodBye, DropMessage
<1>2. CASE Tick
  BY <1>2 DEF Tick
<1>3. ASSUME NEW p \in packets, Arrive(p) PROVE UNCHANGED syncVars
  BY <1>3 DEF Arrive
<1>4. ASSUME NEW p \in packets, Unreachable(p)
      PROVE  /\ Synchronizing' \/ Greeting' => UNCHANGED sync_pc
             /\ UNCHANGED <<sync_start, seq, t_i, to, recv_since, sample>>
  BY <1>4 DEF Unreachable, Synchronizing, Greeting
<1>5. ASSUME NEW node \in Nodes, Stray(node) PROVE UNCHANGED syncVars
  BY <1>5 DEF Stray
<1>6. CASE UNCHANGED vars
  BY <1>6 DEF vars
<1> QED BY <1>1, <1>2, <1>3, <1>4, <1>5, <1>6 DEF Next, NetworkNext

\* A step that hands no sample on: the one there is stays sound, as both clocks
\* keep their starts.
LEMMA SampleKept ==
  ASSUME TypeOK, [Next]_vars, ~RecvBeaconReply
  PROVE  /\ UNCHANGED sample
         /\ ~Greeting => ~Greeting' /\ UNCHANGED sync_start
PROOF
<1>1. CASE /\ Synchronizing' \/ Greeting' => UNCHANGED sync_pc
           /\ UNCHANGED <<sync_start, seq, t_i, to, recv_since, sample>>
  BY <1>1 DEF Greeting
<1>2. CASE UNCHANGED syncVars
  BY <1>2 DEF syncVars, Greeting
<1>3. CASE SyncNext
  BY <1>3 DEF SyncNext, SyncAttempts, SendHandshake, SendHandshakeFails, HandshakeTimeout,
     RecvHandshakeReply, SendBeacon, BeaconTimeout, MalformedMessage, IgnoreMessage, Greeting
<1> QED BY <1>1, <1>2, <1>3, Steps

\* The first reply is told from none, as its beacon took time to be sent.
LEMMA FirstReply ==
  ASSUME TypeOK, RoundInv, RecvBeaconReply, Measured
  PROVE  sample' # NoSample
PROOF
<1>1. sync_pc = "await" /\ sample'.to = to + SyncBeacon
  BY DEF RecvBeaconReply
<1>2. to + sync_start = t_i /\ sync_start <= t_i
  BY <1>1 DEF RoundInv, Synchronizing
<1>3. to \in Int /\ sync_start \in Nat /\ t_i \in Nat /\ SyncBeacon \in Nat /\ SyncBeacon > 0
  BY Constants DEF TypeOK, Measured
<1>4. sample'.to # 0
  BY <1>1, <1>2, <1>3
<1> QED BY <1>4 DEF NoSample

\* A session is tidy until something strays in, and again with the first reply.
LEMMA StaysTidy ==
  ASSUME TypeOK, ConnectedInv, RoundInv, [Next]_vars, Followed'
  PROVE  /\ Followed
         /\ RecvBeaconReply => Tidy'
         /\ ~RecvBeaconReply /\ Synchronizing => Tidy' = Tidy
         /\ ~RecvBeaconReply /\ Tidy' => Tidy
PROOF
<1>1. CASE UNCHANGED strays
  <2>1. Followed
    BY <1>1, StrayFollowed
  <2>2. RecvBeaconReply => Tidy'
    BY <1>1, <2>1, FirstReply DEF Followed, Tidy
  <2>3. ~RecvBeaconReply => Tidy' = Tidy
    BY <1>1, SampleKept DEF Tidy
  <2> QED BY <2>1, <2>2, <2>3
<1>2. ASSUME NEW node \in Nodes, Stray(node)
      PROVE  /\ Followed
             /\ ~Synchronizing /\ UNCHANGED sample /\ strays' # 0
  BY <1>2, StraysBefore DEF syncVars
<1>3. RecvBeaconReply => Synchronizing
  BY DEF RecvBeaconReply, Synchronizing
<1> QED BY <1>1, <1>2, <1>3, StraysStay DEF Tidy

\* What is timely stays so while it is no older, at a time called latest, than a
\* round trip: a timeout comes later, and a reply to the last beacon, which
\* makes its number that of an earlier round, is itself not that old.
LEMMA StaysTimely ==
  ASSUME Prompt, TypeOK, TypeOK', ConnectedInv, [Next]_vars, Followed', RoundInv,
         NEW n \in Nat, NEW t \in Int, NEW least \in Int, NEW most \in Int, NEW latest \in Int,
         Timely(n, t, least, most),
         latest - t + most <= RoundTrip,
         BeaconTimeout => latest = now,
         Tidy /\ RecvBeaconReply => t_i + 2 * MinLatency <= latest,
         Tidy => ~MalformedMessage
  PROVE  /\ Timely(n, t, least, most)'
         /\ Tidy' /\ Synchronizing' /\ n = seq' =>
              Tidy /\ Synchronizing /\ n = seq /\ t_i' = t_i
PROOF
<1> DEFINE Goal == /\ Timely(n, t, least, most)'
                   /\ Tidy' /\ Synchronizing' /\ n = seq' =>
                        Tidy /\ Synchronizing /\ n = seq /\ t_i' = t_i
<1>1. /\ t_i \in Nat /\ now \in Nat /\ recv_since \in Nat /\ t_i' \in Nat
  BY DEF TypeOK
<1>2. n \in 0..(SeqLimit - 1) /\ ~Greeting
  BY DEF Timely
<1>3. Age(n) \in Int /\ (n = seq => Age(n) = 0)
  BY <1>2, AgeTyped
<1>4. seq' = seq => Age(n)' = Age(n)
  BY DEF Age, Since
<1>5. /\ RecvBeaconReply => Tidy'
      /\ ~RecvBeaconReply /\ Synchronizing => Tidy' = Tidy
  BY StaysTidy
<1>6. ASSUME UNCHANGED <<seq, t_i>>, Synchronizing' \/ Greeting' => UNCHANGED sync_pc,
             ~RecvBeaconReply
      PROVE  Goal
  <2>1. Synchronizing' => Synchronizing /\ UNCHANGED sync_pc
    BY <1>6 DEF Synchronizing
  <2>2. Greeting' => Greeting
    BY <1>6 DEF Greeting
  <2> QED BY <1>2, <1>4, <1>5, <1>6, <2>1, <2>2 DEF Timely
<1>7. CASE SyncNext
  <2>1. CASE SendBeacon
    <3>1. /\ sync_pc = "beacon" /\ sync_pc' = "await" /\ seq' = seq /\ t_i <= now /\ t_i' = now
          /\ Synchronizing /\ ~RecvBeaconReply
      BY <2>1 DEF SendBeacon, Synchronizing, RecvBeaconReply
    <3>2. t - most <= t_i - Age(n) /\ (Tidy => n # seq) /\ (Tidy \/ n = seq)
      BY <3>1 DEF Timely
    <3>3. t - most <= t_i' - Age(n)'
      BY <1>1, <1>3, <1>4, <3>1, <3>2
    <3> QED BY <1>2, <1>5, <3>1, <3>2, <3>3 DEF Timely, Greeting
  <2>2. CASE BeaconTimeout
    <3>1. /\ sync_pc = "await" /\ sync_pc' = "beacon" /\ seq' = seq /\ t_i' = t_i
          /\ recv_since + Timeout <= now /\ Synchronizing /\ ~RecvBeaconReply
      BY <2>2 DEF BeaconTimeout, TimedOut, Synchronizing, RecvBeaconReply, Receive
    <3>2. t - most <= t_i - Age(n) /\ latest = now /\ (Tidy \/ n = seq)
      BY <2>2, <3>1 DEF Timely
    <3>3. n # seq
      BY <1>1, <1>3, <3>1, <3>2, Constants DEF RoundInv, Prompt
    <3> QED BY <1>2, <1>4, <1>5, <3>1, <3>2, <3>3 DEF Timely, Greeting
  <2>3. CASE IgnoreMessage
    BY <2>3, <1>6 DEF IgnoreMessage, RecvBeaconReply
  <2>4. CASE RecvBeaconReply
    <3>1. /\ sync_pc = "await" /\ sync_pc' = "beacon" /\ seq' = NextSeq /\ t_i' = t_i + Period
          /\ Synchronizing /\ Tidy'
      BY <2>4, <1>5 DEF RecvBeaconReply, Synchronizing
    <3>2. t - most <= t_i - Age(n) /\ (Tidy \/ n = seq)
      BY <3>1 DEF Timely
    <3>3. n # seq' /\ Age(n)' = Age(n) + Period
      <4>1. CASE Tidy
        <5>1. Age(n) # OtherRounds
          BY <1>1, <1>3, <2>4, <3>1, <3>2, <4>1, Constants DEF Prompt
        <5> QED BY <1>2, <3>1, <5>1, Aging
      <4>2. CASE n = seq
        <5>1. Age(n) # OtherRounds
          BY <1>3, <4>2, Rounds
        <5> QED BY <1>2, <3>1, <5>1, Aging
      <4> QED BY <3>2, <4>1, <4>2
    <3>4. t - most <= t_i' - Age(n)'
      BY <1>1, <1>3, <3>1, <3>2, <3>3, Constants
    <3> QED BY <1>2, <3>1, <3>3, <3>4 DEF Timely, Greeting
  <2>5. CASE MalformedMessage
    <3>1. /\ ~Tidy /\ sync_pc = "await" /\ sync_pc' = "beacon" /\ seq' = seq /\ t_i' = t_i
          /\ Synchronizing /\ ~RecvBeaconReply
      BY <2>5 DEF MalformedMessage, Synchronizing, RecvBeaconReply, IsReply, Malformed
    <3> QED BY <1>2, <1>4, <1>5, <3>1 DEF Timely, Greeting
  <2>6. CASE SendHandshake \/ SendHandshakeFails \/ HandshakeTimeout \/ RecvHandshakeReply
    BY <1>2, <2>6 DEF SendHandshake, SendHandshakeFails, HandshakeTimeout, RecvHandshakeReply,
       Greeting
  <2> QED BY <1>7, <2>1, <2>2, <2>3, <2>4, <2>5, <2>6 DEF SyncNext, SyncAttempts
<1>8. CASE UNCHANGED syncVars
  BY <1>6, <1>8 DEF syncVars, RecvBeaconReply
<1>9. CASE /\ Synchronizing' \/ Greeting' => UNCHANGED sync_pc
           /\ UNCHANGED <<sync_start, seq, t_i, to, recv_since, sample>>
  BY <1>6, <1>7, <1>9 DEF SyncNext
<1> QED BY <1>7, <1>8, <1>9, Steps

LEMMA StaysHonest ==
  ASSUME TypeOK, [Next]_vars, NEW body, NEW t, Honest(body, t),
         Tidy' /\ Synchronizing' /\ body.seq = seq' =>
           Tidy /\ Synchronizing /\ body.seq = seq /\ t_i' = t_i
  PROVE  Honest(body, t)'
  BY ConnectionStays DEF Honest, StaysConnected

---------------------------------------------------------------------------
(* The queues *)

\* What the SyncNode reads came in before all that it leaves.
LEMMA HeadFirst ==
  ASSUME TypeOK, SyncQueueInv, Receive("sync")
  PROVE  /\ Received("sync") \in Message /\ SyncMessageInv(Received("sync"))
         /\ \A i \in DOMAIN queue'["sync"] :
              /\ \E j \in DOMAIN queue["sync"] : queue'["sync"][i] = queue["sync"][j]
              /\ Received("sync").arrived <= queue'["sync"][i].arrived
              /\ Received("sync").body.type = "beacon_r" => queue'["sync"][i].body # Malformed
         /\ InOrder(queue'["sync"])
PROOF
<1> DEFINE q == queue["sync"]
<1>1. q \in Seq(Message) /\ q # <<>> /\ queue'["sync"] = Tail(q)
  BY DEF Receive, TypeOK, Nodes
<1>2. /\ Head(q) \in Message
      /\ Head(q) = q[1] /\ 1 \in DOMAIN q
      /\ \A i \in DOMAIN Tail(q) : i \in Int /\ 1 <= i /\ i + 1 \in DOMAIN q /\ Tail(q)[i] = q[i + 1]
  <2> HIDE DEF q
  <2> QED BY <1>1
<1>3. SyncMessageInv(Head(q))
  BY <1>2 DEF SyncQueueInv
<1>4. ASSUME NEW i \in DOMAIN q, NEW j \in DOMAIN q, i <= j
      PROVE  q[i].arrived <= q[j].arrived /\ (q[i].body.type = "beacon_r" => q[j].body # Malformed)
  BY <1>4 DEF SyncQueueInv, InOrder
<1>5. ASSUME NEW i \in DOMAIN Tail(q)
      PROVE  /\ Head(q).arrived <= Tail(q)[i].arrived
             /\ Head(q).body.type = "beacon_r" => Tail(q)[i].body # Malformed
  <2> HIDE DEF q
  <2>1. i + 1 \in DOMAIN q /\ 1 <= i + 1 /\ Tail(q)[i] = q[i + 1] /\ Head(q) = q[1] /\ 1 \in DOMAIN q
    BY <1>2
  <2> QED BY <1>4, <2>1
<1>6. InOrder(Tail(q))
  <2> SUFFICES ASSUME NEW i \in DOMAIN Tail(q), NEW j \in DOMAIN Tail(q), i <= j
               PROVE  /\ Tail(q)[i].arrived <= Tail(q)[j].arrived
                      /\ Tail(q)[i].body.type = "beacon_r" => Tail(q)[j].body # Malformed
    BY DEF InOrder
  <2> HIDE DEF q
  <2>1. /\ i + 1 \in DOMAIN q /\ j + 1 \in DOMAIN q /\ i + 1 <= j + 1
        /\ Tail(q)[i] = q[i + 1] /\ Tail(q)[j] = q[j + 1]
    BY <1>2
  <2> QED BY <1>4, <2>1
<1>7. \A i \in DOMAIN Tail(q) : \E j \in DOMAIN q : Tail(q)[i] = q[j]
  <2> HIDE DEF q
  <2> QED BY <1>2
<1> HIDE DEF q
<1> QED BY <1>1, <1>2, <1>3, <1>5, <1>6, <1>7 DEF q, Received

\* The reply that ends a round answers its last beacon, no sooner than it can.
LEMMA ReplyTimely ==
  ASSUME TypeOK, SyncQueueInv, RecvBeaconReply
  PROVE  /\ Tidy => t_i + 2 * MinLatency <= Received("sync").arrived
         /\ Received("sync").arrived <= now /\ Received("sync").arrived \in Nat
         /\ Received("sync").body \in Body /\ Received("sync").body.type = "beacon_r"
         /\ Received("sync").body.seq = seq
         /\ Honest(Received("sync").body, Received("sync").arrived - MinLatency)
PROOF
<1>1. /\ Receive("sync") /\ sync_pc = "await"
      /\ Received("sync").body.type = "beacon_r" /\ Received("sync").body.seq = seq
  BY DEF RecvBeaconReply, IsReply
<1>2. Received("sync") \in Message /\ SyncMessageInv(Received("sync"))
  BY <1>1, HeadFirst
<1> QED BY <1>1, <1>2 DEF SyncMessageInv, Timely, Synchronizing, Message

LEMMA NeverMalformed ==
  ASSUME TypeOK, SyncQueueInv, Tidy
  PROVE  ~MalformedMessage
  BY HeadFirst DEF MalformedMessage, SyncMessageInv

\* For whatever is no older now than a round trip.
LEMMA StaysTimelyNow ==
  ASSUME Prompt, TypeOK, TypeOK', ConnectedInv, [Next]_vars, Followed', RoundInv, SyncQueueInv,
         NEW n \in Nat, NEW t \in Int, NEW least \in Int, NEW most \in Int,
         Timely(n, t, least, most),
         now - t + most <= RoundTrip
  PROVE  /\ Timely(n, t, least, most)'
         /\ Tidy' /\ Synchronizing' /\ n = seq' =>
              Tidy /\ Synchronizing /\ n = seq /\ t_i' = t_i
PROOF
<1>1. now \in Int /\ t_i \in Int
  BY DEF TypeOK
<1>2. Tidy /\ RecvBeaconReply => t_i + 2 * MinLatency <= now
  BY <1>1, ReplyTimely, Constants
<1> QED BY <1>1, <1>2, NeverMalformed, StaysTimely

---------------------------------------------------------------------------
(* The datagrams under way *)

LEMMA NewPackets ==
  ASSUME TypeOK, [Next]_vars, NEW p \in packets'
  PROVE  \/ p \in packets /\ (now <= p.at + MaxLatency => now' <= p.at + MaxLatency)
         \/ SendBeacon /\ p = Packet("sync", peer_addr, Beacon(seq))
         \/ SendReply /\ p = Packet("ref", ref_peer,
                 BeaconReply(request.seq, request.recv_time, now - ref_start + RefReply))
         \/ /\ p.at = now /\ now' = now
            /\ p.body.type \notin {"beacon", "beacon_r"} /\ p.body # Malformed
PROOF
<1> DEFINE Old == p \in packets /\ (now <= p.at + MaxLatency => now' <= p.at + MaxLatency)
           New == /\ p.at = now /\ now' = now
                  /\ p.body.type \notin {"beacon", "beacon_r"} /\ p.body # Malformed
<1>1. packets' \subseteq packets /\ now' = now => Old
  OBVIOUS
<1>2. ASSUME NEW a, NEW d, now' = now, packets' = packets \cup {Packet(a, d, Handshake)}
      PROVE  Old \/ New
  BY <1>2 DEF Packet, Handshake, Malformed
<1>3. ASSUME NEW a, NEW d, now' = now, NEW s,
             packets' = packets \cup {Packet(a, d, HandshakeReply(s))}
      PROVE  Old \/ New
  BY <1>3 DEF Packet, HandshakeReply, Malformed
<1>4. ASSUME NEW a, NEW d, now' = now, packets' = packets \cup {Packet(a, d, GoodByeReply)}
      PROVE  Old \/ New
  BY <1>4 DEF Packet, GoodByeReply, Malformed
<1>5. CASE SyncNext
  <2>1. CASE SendHandshake
    BY <2>1, <1>2 DEF SendHandshake
  <2>2. CASE SendBeacon
    BY <2>2 DEF SendBeacon
  <2>3. CASE \/ SendHandshakeFails \/ HandshakeTimeout \/ RecvHandshakeReply \/ BeaconTimeout
             \/ MalformedMessage \/ IgnoreMessage \/ RecvBeaconReply
    BY <2>3, <1>1 DEF SendHandshakeFails, HandshakeTimeout, RecvHandshakeReply, BeaconTimeout,
       MalformedMessage, IgnoreMessage, RecvBeaconReply, netVars
  <2> QED BY <1>5, <2>1, <2>2, <2>3 DEF SyncNext, SyncAttempts
<1>6. CASE RefNext
  <2>1. CASE AcceptHandshake
    BY <2>1, <1>3 DEF AcceptHandshake, Answer
  <2>2. CASE RefuseHandshake
    BY <2>2, <1>3 DEF RefuseHandshake, Answer
  <2>3. CASE SendReply
    BY <2>3 DEF SendReply
  <2>4. CASE RecvGoodBye
    BY <2>4, <1>4 DEF RecvGoodBye
  <2>5. CASE RecvBeacon \/ DropMessage
    BY <2>5, <1>1 DEF RecvBeacon, DropMessage
  <2> QED BY <1>6, <2>1, <2>2, <2>3, <2>4, <2>5 DEF RefNext
<1>7. CASE Tick
  <2>1. p \in packets /\ now < p.at + MaxLatency /\ now' = now + 1
    BY <1>7 DEF Tick
  <2>2. now \in Int /\ p.at \in Int /\ MaxLatency \in Int
    BY <2>1, Constants DEF TypeOK, Datagram
  <2> QED BY <2>1, <2>2
<1>8. ASSUME NEW r \in packets, Arrive(r) \/ Unreachable(r) PROVE Old
  BY <1>8, <1>1 DEF Arrive, Unreachable
<1>9. ASSUME NEW node \in Nodes, Stray(node) PROVE Old
  BY <1>9, <1>1 DEF Stray
<1>10. CASE UNCHANGED vars
  BY <1>10, <1>1 DEF vars, netVars
<1> QED BY <1>5, <1>6, <1>7, <1>8, <1>9, <1>10 DEF Next, NetworkNext

LEMMA PacketsStay ==
  ASSUME Prompt, TypeOK, TypeOK', ConnectedInv, [Next]_vars, Followed', TimingInv
  PROVE  PacketsInv'
PROOF
<1> SUFFICES ASSUME NEW p \in packets' PROVE PacketInv(p)'
  BY DEF PacketsInv
<1>1. /\ now \in Nat /\ now' \in Nat /\ now <= now' /\ StaysConnected
  BY ConnectionStays DEF TypeOK
<1>2. p \in Datagram /\ p.at \in Nat /\ p.body \in Body
  BY DEF TypeOK, Datagram
<1>3. CASE p \in packets /\ (now <= p.at + MaxLatency => now' <= p.at + MaxLatency)
  <2>1. PacketInv(p)
    BY <1>3 DEF TimingInv, PacketsInv
  <2>2. /\ p.at <= now' /\ now' <= p.at + MaxLatency /\ p.body # Malformed
    BY <1>1, <1>2, <1>3, <2>1 DEF PacketInv
  <2>3. ASSUME p.body.type = "beacon" PROVE Timely(p.body.seq, p.at, 0, 0)'
    <3>1. p.body.seq \in Nat
      BY <1>2, <2>3, Bodies
    <3>2. PICK n, t : n = p.body.seq /\ t = p.at
      OBVIOUS
    <3>3. Timely(n, t, 0, 0) /\ now - t + 0 <= RoundTrip
      BY <1>1, <1>2, <2>1, <2>3, <3>2, Constants DEF PacketInv, RoundTrip
    <3>4. Timely(n, t, 0, 0)'
      <4>1. n \in Nat /\ t \in Int /\ 0 \in Int
        BY <1>2, <3>1, <3>2
      <4>2. RoundInv /\ SyncQueueInv
        BY DEF TimingInv
      <4> QED BY <3>3, <4>1, <4>2, StaysTimelyNow
    <3> QED BY <3>2, <3>4
  <2>4. ASSUME p.body.type = "beacon_r"
        PROVE  Timely(p.body.seq, p.at, MinLatency, MaxLatency + RefDelay)' /\ Honest(p.body, p.at)'
    <3>1. p.body.seq \in Nat
      BY <1>2, <2>4, Bodies
    <3>2. PICK n, t, b : n = p.body.seq /\ t = p.at /\ b = p.body
      OBVIOUS
    <3>3. /\ Timely(n, t, MinLatency, MaxLatency + RefDelay)
          /\ now - t + (MaxLatency + RefDelay) <= RoundTrip /\ Honest(b, t)
      BY <1>1, <1>2, <2>1, <2>4, <3>2, Constants DEF PacketInv, RoundTrip
    <3>4. /\ Timely(n, t, MinLatency, MaxLatency + RefDelay)'
          /\ Tidy' /\ Synchronizing' /\ n = seq' =>
               Tidy /\ Synchronizing /\ n = seq /\ t_i' = t_i
      <4>1. MaxLatency + RefDelay \in Int /\ MinLatency \in Int
        BY Constants
      <4> QED BY <1>2, <3>1, <3>2, <3>3, <4>1, StaysTimelyNow DEF TimingInv
    <3>5. Honest(b, t)'
      BY <3>2, <3>3, <3>4, StaysHonest
    <3> QED BY <3>2, <3>4, <3>5
  <2> QED BY <2>2, <2>3, <2>4 DEF PacketInv
<1>4. CASE SendBeacon /\ p = Packet("sync", peer_addr, Beacon(seq))
  <2>1. p.at = now /\ p.body = [type |-> "beacon", seq |-> seq]
    BY <1>4 DEF Packet, Beacon
  <2>2. /\ sync_pc' = "await" /\ seq' = seq /\ t_i' = now /\ now' = now
    BY <1>4 DEF SendBeacon
  <2>3. seq \in 0..(SeqLimit - 1)
    BY DEF TypeOK
  <2>4. Age(seq)' = 0
    <3>1. seq' \in 0..(SeqLimit - 1) /\ Age(seq)' = Age(seq)
      BY <2>2, <2>3 DEF Age, Since
    <3> QED BY <2>3, <3>1, AgeTyped
  <2>5. Timely(p.body.seq, p.at, 0, 0)'
    BY <1>1, <2>1, <2>2, <2>3, <2>4 DEF Timely, Greeting, Age, Since
  <2> QED BY <1>1, <2>1, <2>2, <2>5, Constants DEF PacketInv, Malformed
<1>5. CASE SendReply /\ p = Packet("ref", ref_peer,
                 BeaconReply(request.seq, request.recv_time, now - ref_start + RefReply))
  <2>1. /\ p.at = now /\ p.body.type = "beacon_r" /\ p.body.seq = request.seq
        /\ p.body.beacon_recv_time = request.recv_time
        /\ p.body.reply_send_time = now - ref_start + RefReply
    BY <1>5 DEF Packet, BeaconReply
  <2>2. /\ ref_pc = "reply" /\ RequestInv /\ now' = now /\ Accepted' /\ UNCHANGED ref_start
        /\ UNCHANGED <<sync_pc, seq, t_i, sync_start>> /\ Tidy' = Tidy
    BY <1>5 DEF SendReply, TimingInv, ReplyInv, syncVars, Accepted, Tidy, faults
  <2>3. /\ t_i \in Nat /\ request.arrived \in Nat /\ request.recv_time \in Int /\ ref_start \in Nat
    BY DEF TypeOK
  <2>4. request.seq \in 0..(SeqLimit - 1) /\ Age(request.seq) \in Int
    BY <2>2, AgeTyped DEF RequestInv, Timely
  <2>5. Timely(request.seq, now, MinLatency, MaxLatency + RefDelay)
    BY <1>1, <2>2, <2>3, <2>4, Constants DEF RequestInv, Timely
  <2>6. Timely(p.body.seq, p.at, MinLatency, MaxLatency + RefDelay)'
    BY <2>1, <2>2, <2>5 DEF Timely, Greeting, Synchronizing, Age, Since
  <2>7. Honest(p.body, p.at)'
    <3>1. p.body.reply_send_time + ref_start <= p.at + RefReply
      BY <1>1, <2>1, <2>3, Constants
    <3>2. Tidy /\ Synchronizing /\ p.body.seq = seq =>
            t_i + MinLatency <= p.body.beacon_recv_time + ref_start + RefBeacon
      BY <2>1, <2>2, <2>3, Constants DEF RequestInv, Timely
    <3>3. p.body.beacon_recv_time + RefBeacon + RefReply <= p.body.reply_send_time
      BY <1>1, <2>1, <2>2, <2>3, Constants DEF RequestInv
    <3> QED BY <2>2, <3>1, <3>2, <3>3 DEF Honest, Synchronizing
  <2>8. p.body # Malformed
    BY <2>1 DEF Malformed
  <2> QED BY <1>1, <2>1, <2>2, <2>6, <2>7, <2>8, Constants DEF PacketInv
<1>6. CASE /\ p.at = now /\ now' = now
           /\ p.body.type \notin {"beacon", "beacon_r"} /\ p.body # Malformed
  BY <1>1, <1>6, Constants DEF PacketInv
<1> QED BY <1>3, <1>4, <1>5, <1>6, NewPackets

---------------------------------------------------------------------------
(* The reference *)

LEMMA Clock ==
  ASSUME [Next]_vars
  PROVE  now' = now \/ Tick
PROOF
<1>1. CASE SyncNext
  BY <1>1 DEF SyncNext, SyncAttempts, SendHandshake, SendHandshakeFails, HandshakeTimeout,
     RecvHandshakeReply, SendBeacon, BeaconTimeout, MalformedMessage, IgnoreMessage,
     RecvBeaconReply
<1>2. CASE RefNext
  BY <1>2 DEF RefNext, AcceptHandshake, RefuseHandshake, RecvBeacon, SendReply, RecvGoodBye,
     DropMessage
<1>3. ASSUME NEW p \in packets, Arrive(p) \/ Unreachable(p) PROVE now' = now
  BY <1>3 DEF Arrive, Unreachable
<1>4. ASSUME NEW node \in Nodes, Stray(node) PROVE now' = now
  BY <1>4 DEF Stray
<1>5. CASE UNCHANGED vars
  BY <1>5 DEF vars
<1> QED BY <1>1, <1>2, <1>3, <1>4, <1>5 DEF Next, NetworkNext

\* A message in a queue was there, or has just come in.
LEMMA NewInQueue ==
  ASSUME TypeOK, ConnectedInv, [Next]_vars,
         NEW node \in Nodes, NEW i \in DOMAIN queue'[node], NEW m, m = queue'[node][i]
  PROVE  \/ \E j \in DOMAIN queue[node] : m = queue[node][j]
         \/ \E p \in packets : /\ Arrive(p) /\ p.to = node
                               /\ m = [from |-> p.from, body |-> p.body, arrived |-> now]
         \/ \E body \in Foreign :
              /\ Stray(node)
              /\ m = [from |-> "elsewhere", body |-> body, arrived |-> now]
PROOF
<1>1. CASE UNCHANGED queue
  BY <1>1
<1>2. CASE Receive("sync") \/ Receive("ref")
  <2>1. "sync" \in Nodes /\ "ref" \in Nodes
    BY DEF Nodes
  <2> QED BY <1>2, <2>1, ReceiveTyped DEF TypeOK
<1>3. ASSUME NEW p \in packets, Arrive(p)
      PROVE  \/ \E j \in DOMAIN queue[node] : m = queue[node][j]
             \/ p.to = node /\ m = [from |-> p.from, body |-> p.body, arrived |-> now]
  <2> DEFINE new == [from |-> p.from, body |-> p.body, arrived |-> now]
             q == queue[node]
  <2>1. p.to \in Nodes /\ queue' = [queue EXCEPT ![p.to] = Append(@, new)]
    BY <1>3 DEF Arrive
  <2>2. CASE p.to # node
    BY <2>1, <2>2 DEF TypeOK
  <2>3. CASE p.to = node
    <3>1. q \in Seq(Message) /\ queue'[node] = Append(q, new)
      BY <2>1, <2>3 DEF TypeOK
    <3>2. m = new \/ \E j \in DOMAIN q : m = q[j]
      <4> HIDE DEF q, new
      <4> QED BY <3>1
    <3> QED BY <2>3, <3>2
  <2> QED BY <2>2, <2>3
<1>4. CASE SyncNext
  BY <1>1, <1>2, <1>4 DEF SyncNext, SyncAttempts, SendHandshake, SendHandshakeFails,
     HandshakeTimeout, RecvHandshakeReply, SendBeacon, BeaconTimeout, MalformedMessage,
     IgnoreMessage, RecvBeaconReply, netVars
<1>5. CASE RefNext
  BY <1>1, <1>2, <1>5 DEF RefNext, AcceptHandshake, RefuseHandshake, RecvBeacon, SendReply,
     RecvGoodBye, DropMessage
<1>6. CASE Tick \/ UNCHANGED vars \/ \E p \in packets : Unreachable(p)
  BY <1>1, <1>6 DEF Tick, Unreachable, vars, netVars
<1>7. ASSUME NEW other \in Nodes, Stray(other)
      PROVE  \/ \E j \in DOMAIN queue[node] : m = queue[node][j]
             \/ \E body \in Foreign :
                  other = node /\ m = [from |-> "elsewhere", body |-> body, arrived |-> now]
  <2>1. PICK body \in Foreign :
          queue' = [queue EXCEPT ![other] =
                      Append(@, [from |-> "elsewhere", body |-> body, arrived |-> now])]
    BY <1>7 DEF Stray
  <2> DEFINE new == [from |-> "elsewhere", body |-> body, arrived |-> now]
             q == queue[node]
  <2>2. CASE other # node
    BY <2>1, <2>2 DEF TypeOK
  <2>3. CASE other = node
    <3>1. q \in Seq(Message) /\ queue'[node] = Append(q, new)
      BY <2>1, <2>3 DEF TypeOK
    <3>2. m = new \/ \E j \in DOMAIN q : m = q[j]
      <4> HIDE DEF q, new
      <4> QED BY <3>1
    <3> QED BY <2>3, <3>2
  <2> QED BY <2>2, <2>3
<1> QED BY <1>3, <1>4, <1>5, <1>6, <1>7 DEF Next, NetworkNext

LEMMA RefStaysEnded ==
  ASSUME [Next]_vars, Running("ref")'
  PROVE  Running("ref")
PROOF
<1>1. CASE UNCHANGED ref_pc
  BY <1>1 DEF Running
<1>2. CASE SyncNext
  BY <1>1, <1>2 DEF SyncNext, SyncAttempts, SendHandshake, SendHandshakeFails,
     HandshakeTimeout, RecvHandshakeReply, SendBeacon, BeaconTimeout, MalformedMessage,
     IgnoreMessage, RecvBeaconReply, refVars
<1>3. CASE RefNext
  BY <1>1, <1>3 DEF RefNext, AcceptHandshake, RefuseHandshake, RecvBeacon, SendReply,
     RecvGoodBye, DropMessage, Running, refVars
<1>4. ASSUME NEW p \in packets, Unreachable(p) PROVE Running("ref")
  BY <1>1, <1>4 DEF Unreachable, Running
<1>5. ASSUME NEW p \in packets, Arrive(p) PROVE Running("ref")
  BY <1>1, <1>5 DEF Arrive, refVars
<1>6. ASSUME NEW node \in Nodes, Stray(node) PROVE Running("ref")
  BY <1>1, <1>6 DEF Stray, refVars
<1>7. CASE Tick \/ UNCHANGED vars
  BY <1>1, <1>7 DEF Tick, vars, refVars
<1> QED BY <1>2, <1>3, <1>4, <1>5, <1>6, <1>7 DEF Next, NetworkNext

LEMMA RefQueueStays ==
  ASSUME Prompt, TypeOK, TypeOK', ConnectedInv, [Next]_vars, Followed', TimingInv
  PROVE  RefQueueInv'
PROOF
<1> SUFFICES ASSUME Running("ref")', NEW i \in DOMAIN queue'["ref"],
                    NEW m, m = queue'["ref"][i]
             PROVE  RefMessageInv(m)'
  BY DEF RefQueueInv
<1>1. Running("ref")
  BY RefStaysEnded
<1>2. now \in Nat /\ now' \in Nat
  BY DEF TypeOK
<1>3. CASE \E j \in DOMAIN queue["ref"] : m = queue["ref"][j]
  <2>1. PICK j \in DOMAIN queue["ref"] : m = queue["ref"][j]
    BY <1>3
  <2>2. m \in Message /\ m.arrived \in Nat /\ m.body \in Body
    <3>1. queue["ref"] \in Seq(Message)
      BY DEF TypeOK, Nodes
    <3>2. m \in Message
      BY <2>1, <3>1
    <3> QED BY <3>2 DEF Message
  <2>3. RefMessageInv(m)
    BY <1>1, <2>1 DEF TimingInv, RefQueueInv
  <2>4. m.arrived <= now' /\ now' <= m.arrived + RefDelay
    <3>1. CASE now' = now
      BY <2>3, <3>1 DEF RefMessageInv
    <3>2. CASE Tick
      <4>1. now < m.arrived + RefDelay /\ now' = now + 1
        BY <1>1, <2>1, <3>2 DEF Tick
      <4> QED BY <1>2, <2>2, <2>3, <4>1, Constants DEF RefMessageInv
    <3> QED BY <3>1, <3>2, Clock
  <2>5. ASSUME m.body.type = "beacon"
        PROVE  Timely(m.body.seq, m.arrived, MinLatency, MaxLatency)'
    <3>1. PICK n, t : n = m.body.seq /\ t = m.arrived
      OBVIOUS
    <3>2. n \in Nat /\ t \in Int /\ MinLatency \in Int /\ MaxLatency \in Int
      BY <2>2, <2>5, <3>1, Bodies, Constants
    <3>3. Timely(n, t, MinLatency, MaxLatency) /\ now - t + MaxLatency <= RoundTrip
      BY <1>2, <2>2, <2>3, <2>5, <3>1, Constants DEF RefMessageInv, RoundTrip
    <3>4. RoundInv /\ SyncQueueInv
      BY DEF TimingInv
    <3>5. Timely(n, t, MinLatency, MaxLatency)'
      BY <3>2, <3>3, <3>4, StaysTimelyNow
    <3> QED BY <3>1, <3>5
  <2> QED BY <2>4, <2>5 DEF RefMessageInv
<1>4. ASSUME NEW p \in packets, Arrive(p),
             m = [from |-> p.from, body |-> p.body, arrived |-> now]
      PROVE  RefMessageInv(m)'
  <2>1. /\ p.at + MinLatency <= now /\ UNCHANGED <<now, sync_pc, seq, t_i>> /\ Tidy' = Tidy
    BY <1>4 DEF Arrive, syncVars, Tidy
  <2>2. PacketInv(p) /\ p.at \in Nat /\ p.body \in Body
    BY DEF TimingInv, PacketsInv, TypeOK, Datagram
  <2>3. ASSUME m.body.type = "beacon"
        PROVE  Timely(m.body.seq, m.arrived, MinLatency, MaxLatency)'
    <3>1. Timely(p.body.seq, p.at, 0, 0) /\ p.body = m.body /\ m.arrived = now
      BY <1>4, <2>2, <2>3 DEF PacketInv
    <3>2. Timely(p.body.seq, now, MinLatency, MaxLatency)
      <4>1. t_i \in Nat /\ Age(p.body.seq) \in Int
        BY <3>1, AgeTyped DEF TypeOK, Timely
      <4> QED BY <1>2, <2>1, <2>2, <3>1, <4>1, Constants DEF Timely, PacketInv
    <3> QED BY <2>1, <3>1, <3>2 DEF Timely, Greeting, Synchronizing, Age, Since
  <2>4. m.arrived <= now' /\ now' <= m.arrived + RefDelay
    BY <1>2, <1>4, <2>1, Constants
  <2> QED BY <2>3, <2>4 DEF RefMessageInv
<1>5. "ref" \in Nodes
  BY DEF Nodes
<1>6. ASSUME NEW body \in Foreign, Stray("ref"),
             m = [from |-> "elsewhere", body |-> body, arrived |-> now]
      PROVE  RefMessageInv(m)'
  <2>1. m.arrived = now /\ now' = now /\ m.body.type # "beacon"
    BY <1>5, <1>6, StraysBefore DEF NoForeignRounds
  <2> QED BY <1>2, <2>1, Constants DEF RefMessageInv
<1> QED BY <1>3, <1>4, <1>5, <1>6, NewInQueue

LEMMA RequestKept ==
  ASSUME TypeOK, [Next]_vars, ref_pc' = "reply", ~RecvBeacon
  PROVE  ref_pc = "reply" /\ UNCHANGED <<request, ref_start>>
PROOF
<1>1. CASE UNCHANGED refVars
  BY <1>1 DEF refVars
<1>2. CASE SyncNext
  BY <1>1, <1>2 DEF SyncNext, SyncAttempts, SendHandshake, SendHandshakeFails,
     HandshakeTimeout, RecvHandshakeReply, SendBeacon, BeaconTimeout, MalformedMessage,
     IgnoreMessage, RecvBeaconReply
<1>3. CASE RefNext
  BY <1>1, <1>3 DEF RefNext, AcceptHandshake, RefuseHandshake, RecvBeacon, SendReply,
     RecvGoodBye, DropMessage
<1>4. ASSUME NEW p \in packets, Arrive(p) \/ Unreachable(p)
      PROVE  ref_pc = "reply" /\ UNCHANGED <<request, ref_start>>
  BY <1>1, <1>4 DEF Arrive, Unreachable
<1>5. CASE Tick \/ UNCHANGED vars
  BY <1>1, <1>5 DEF Tick, vars
<1>6. ASSUME NEW node \in Nodes, Stray(node)
      PROVE  ref_pc = "reply" /\ UNCHANGED <<request, ref_start>>
  BY <1>1, <1>6 DEF Stray
<1> QED BY <1>2, <1>3, <1>4, <1>5, <1>6 DEF Next, NetworkNext

LEMMA RequestStays ==
  ASSUME Prompt, TypeOK, TypeOK', ConnectedInv, [Next]_vars, Followed', TimingInv
  PROVE  ReplyInv'
PROOF
<1> SUFFICES ASSUME ref_pc' = "reply" PROVE RequestInv'
  BY DEF ReplyInv
<1>1. now \in Nat /\ now' \in Nat
  BY DEF TypeOK
<1>2. CASE RecvBeacon
  <2> DEFINE m == Received("ref")
  <2>1. /\ ref_pc = "serve" /\ Receive("ref") /\ m.body.type = "beacon"
        /\ UNCHANGED <<now, sync_pc, seq, t_i, ref_start>> /\ Tidy' = Tidy
        /\ request' = [seq |-> m.body.seq, recv_time |-> now - ref_start - RefBeacon,
                       arrived |-> m.arrived]
    BY <1>2 DEF RecvBeacon, syncVars, Tidy, faults
  <2>2. m \in Message /\ \E j \in DOMAIN queue["ref"] : m = queue["ref"][j]
    <3>1. "ref" \in Nodes
      BY DEF Nodes
    <3> QED BY <2>1, <3>1, ReceiveTyped DEF TypeOK
  <2>3. RefMessageInv(m) /\ m.arrived \in Nat
    BY <2>1, <2>2 DEF TimingInv, RefQueueInv, Running, Message
  <2> HIDE DEF m
  <2>4. request'.seq = m.body.seq /\ request'.arrived = m.arrived
        /\ request'.recv_time = now - ref_start - RefBeacon
    BY <2>1
  <2>5. Timely(m.body.seq, m.arrived, MinLatency, MaxLatency)
    BY <2>1, <2>3 DEF RefMessageInv
  <2>6. Timely(request.seq, request.arrived, MinLatency, MaxLatency)'
    BY <2>1, <2>4, <2>5 DEF Timely, Greeting, Synchronizing, Age, Since
  <2>7. /\ m.arrived <= now - ref_start - RefBeacon + ref_start + RefBeacon
        /\ now - ref_start - RefBeacon + ref_start + RefBeacon <= now
    <3>1. ref_start \in Nat
      BY DEF TypeOK
    <3> QED BY <1>1, <2>3, <3>1, Constants DEF RefMessageInv
  <2> QED BY <2>1, <2>3, <2>4, <2>6, <2>7 DEF RequestInv, RefMessageInv
<1>3. CASE ~RecvBeacon
  <2>1. ref_pc = "reply" /\ UNCHANGED <<request, ref_start>>
    BY <1>3, RequestKept
  <2>2. RequestInv /\ request.arrived \in Nat /\ request.seq \in Nat
    BY <2>1 DEF TimingInv, ReplyInv, TypeOK
  <2>3. /\ request.arrived <= now' /\ now' <= request.arrived + RefDelay
        /\ request.recv_time + ref_start + RefBeacon <= now'
    <3>1. CASE now' = now
      BY <2>2, <3>1 DEF RequestInv
    <3>2. CASE Tick
      <4>1. now < request.arrived + RefDelay /\ now' = now + 1
        BY <2>1, <3>2 DEF Tick
      <4>2. request.recv_time \in Int /\ ref_start \in Nat
        BY DEF TypeOK
      <4> QED BY <1>1, <2>2, <4>1, <4>2, Constants DEF RequestInv
    <3> QED BY <3>1, <3>2, Clock
  <2>4. Timely(request.seq, request.arrived, MinLatency, MaxLatency)'
    <3>1. PICK n, t : n = request.seq /\ t = request.arrived
      OBVIOUS
    <3>2. n \in Nat /\ t \in Int /\ MinLatency \in Int /\ MaxLatency \in Int
      BY <2>2, <3>1, Constants
    <3>3. Timely(n, t, MinLatency, MaxLatency) /\ now - t + MaxLatency <= RoundTrip
      BY <1>1, <2>2, <3>1, Constants DEF RequestInv, RoundTrip
    <3>4. RoundInv /\ SyncQueueInv
      BY DEF TimingInv
    <3>5. Timely(n, t, MinLatency, MaxLatency)'
      BY <3>2, <3>3, <3>4, StaysTimelyNow
    <3> QED BY <2>1, <3>1, <3>5
  <2> QED BY <2>1, <2>2, <2>3, <2>4 DEF RequestInv
<1> QED BY <1>2, <1>3

---------------------------------------------------------------------------
(* The SyncNode *)

\* What waits to be read is as old as when it came in: what is read before it
\* came in earlier, and a read times out on an empty queue only.
LEMMA SyncMessagesStay ==
  ASSUME Prompt, TypeOK, TypeOK', ConnectedInv, [Next]_vars, Followed', TimingInv,
         NEW i \in DOMAIN queue'["sync"], NEW m, m = queue'["sync"][i]
  PROVE  SyncMessageInv(m)'
PROOF
<1>1. now \in Nat /\ now' \in Nat /\ now <= now'
  BY ConnectionStays DEF TypeOK
<1>2. "sync" \in Nodes /\ SyncQueueInv /\ RoundInv
  BY DEF Nodes, TimingInv
<1>6. /\ RecvBeaconReply => Tidy'
      /\ ~RecvBeaconReply /\ Tidy' => Tidy
  BY <1>2, StaysTidy
<1>3. CASE \E j \in DOMAIN queue["sync"] : m = queue["sync"][j]
  <2>1. PICK j \in DOMAIN queue["sync"] : m = queue["sync"][j]
    BY <1>3
  <2>2. m \in Message /\ m.arrived \in Nat /\ m.body \in Body
    <3>1. queue["sync"] \in Seq(Message)
      BY <1>2 DEF TypeOK
    <3>2. m \in Message
      BY <2>1, <3>1
    <3> QED BY <3>2 DEF Message
  <2>3. SyncMessageInv(m)
    BY <1>2, <2>1 DEF SyncQueueInv
  <2>4. ~BeaconTimeout
    BY <2>1 DEF BeaconTimeout, TimedOut
  <2>5. Tidy /\ RecvBeaconReply => t_i + 2 * MinLatency <= m.arrived
    <3>1. RecvBeaconReply => Received("sync").arrived <= m.arrived
      BY <1>2, HeadFirst DEF RecvBeaconReply
    <3>2. t_i \in Nat
      BY DEF TypeOK
    <3> QED BY <1>2, <2>2, <3>1, <3>2, ReplyTimely, Constants
  <2>6. ASSUME m.body.type = "beacon_r"
        PROVE  /\ Timely(m.body.seq, m.arrived, 2 * MinLatency, RoundTrip)'
               /\ Honest(m.body, m.arrived - MinLatency)'
    <3>1. PICK n, t, b, o, least : /\ n = m.body.seq /\ t = m.arrived /\ b = m.body
                            /\ o = m.arrived - MinLatency /\ least = 2 * MinLatency
      OBVIOUS
    <3>2. n \in Nat /\ t \in Int /\ least \in Int /\ RoundTrip \in Int
      BY <2>2, <2>6, <3>1, Bodies, Constants
    <3>3. Timely(n, t, least, RoundTrip) /\ Honest(b, o) /\ t - t + RoundTrip <= RoundTrip
      BY <2>3, <2>6, <3>1, <3>2 DEF SyncMessageInv
    <3>4. Tidy => ~MalformedMessage
      BY <1>2, NeverMalformed
    <3>5. /\ Timely(n, t, least, RoundTrip)'
          /\ Tidy' /\ Synchronizing' /\ n = seq' =>
               Tidy /\ Synchronizing /\ n = seq /\ t_i' = t_i
      <4>1. /\ BeaconTimeout => t = now
            /\ Tidy /\ RecvBeaconReply => t_i + 2 * MinLatency <= t
        BY <2>4, <2>5, <3>1
      <4> QED BY <1>2, <3>2, <3>3, <3>4, <4>1, StaysTimely
    <3>6. Honest(b, o)'
      BY <3>1, <3>3, <3>5, StaysHonest
    <3> QED BY <3>1, <3>5, <3>6
  <2>7. Tidy' => m.body # Malformed
    <3>1. CASE RecvBeaconReply
      <4>1. Receive("sync") /\ Received("sync").body.type = "beacon_r"
        BY <3>1 DEF RecvBeaconReply, IsReply
      <4> QED BY <1>2, <4>1, HeadFirst
    <3>2. CASE ~RecvBeaconReply
      BY <1>6, <2>3, <3>2 DEF SyncMessageInv
    <3> QED BY <3>1, <3>2
  <2> QED BY <1>1, <2>2, <2>3, <2>6, <2>7 DEF SyncMessageInv
<1>4. ASSUME NEW p \in packets, Arrive(p),
             m = [from |-> p.from, body |-> p.body, arrived |-> now]
      PROVE  SyncMessageInv(m)'
  <2>1. /\ p.at + MinLatency <= now /\ UNCHANGED <<now, sync_pc, seq, t_i, ref_pc, ref_start>>
        /\ Tidy' = Tidy
    BY <1>4 DEF Arrive, syncVars, refVars, Tidy
  <2>2. PacketInv(p) /\ p.at \in Nat /\ p.body \in Body
    BY DEF TimingInv, PacketsInv, TypeOK, Datagram
  <2>3. p.body = m.body /\ m.arrived = now
    BY <1>4
  <2>4. ASSUME m.body.type = "beacon_r"
        PROVE  /\ Timely(m.body.seq, m.arrived, 2 * MinLatency, RoundTrip)'
               /\ Honest(m.body, m.arrived - MinLatency)'
    <3>1. Timely(p.body.seq, p.at, MinLatency, MaxLatency + RefDelay) /\ Honest(p.body, p.at)
      BY <2>2, <2>3, <2>4 DEF PacketInv
    <3>2. t_i \in Nat /\ ref_start \in Nat /\ Age(p.body.seq) \in Int
      BY <3>1, AgeTyped DEF TypeOK, Timely
    <3>3. Timely(p.body.seq, now, 2 * MinLatency, RoundTrip)
      BY <1>1, <2>1, <2>2, <3>1, <3>2, Constants DEF Timely, PacketInv, RoundTrip
    <3>4. Honest(p.body, now - MinLatency)
      <4>1. p.body.reply_send_time \in Int
        BY <2>2, <2>3, <2>4, Bodies
      <4>2. p.body.reply_send_time + ref_start <= now - MinLatency + RefReply
        BY <1>1, <2>1, <2>2, <3>1, <3>2, <4>1, Constants DEF Honest
      <4> QED BY <3>1, <4>2 DEF Honest
    <3>5. Timely(m.body.seq, m.arrived, 2 * MinLatency, RoundTrip)'
      BY <2>1, <2>3, <3>3 DEF Timely, Greeting, Synchronizing, Age, Since
    <3>6. Honest(m.body, m.arrived - MinLatency)'
      BY <2>1, <2>3, <3>4 DEF Honest, Accepted, Synchronizing
    <3> QED BY <3>5, <3>6
  <2> QED BY <1>1, <2>1, <2>2, <2>3, <2>4 DEF SyncMessageInv, PacketInv
<1>5. ASSUME NEW body \in Foreign, Stray("sync"),
             m = [from |-> "elsewhere", body |-> body, arrived |-> now]
      PROVE  SyncMessageInv(m)'
  <2>1. m.arrived = now /\ now' = now /\ m.body.type # "beacon_r"
    BY <1>2, <1>5, StraysBefore DEF NoForeignRounds
  <2>2. Greeting /\ strays' # 0 /\ sample' = sample
    BY <1>2, <1>5, StraysBefore DEF syncVars
  <2>3. ~Tidy'
    BY <2>2 DEF Tidy, TimingInv, SampleInv
  <2> QED BY <1>1, <2>1, <2>3 DEF SyncMessageInv
<1> QED BY <1>2, <1>3, <1>4, <1>5, NewInQueue

LEMMA AppendInOrder ==
  ASSUME NEW q \in Seq(Message), InOrder(q), NEW m,
         \A i \in DOMAIN q : /\ q[i].arrived <= m.arrived
                             /\ q[i].body.type = "beacon_r" => m.body # Malformed,
         m.arrived <= m.arrived, m.body.type = "beacon_r" => m.body # Malformed
  PROVE  InOrder(Append(q, m))
PROOF
<1>1. DOMAIN Append(q, m) = 1..(Len(q) + 1) /\ DOMAIN q = 1..Len(q) /\ Len(q) \in Nat
  OBVIOUS
<1>2. \A i \in DOMAIN Append(q, m) : Append(q, m)[i] = IF i = Len(q) + 1 THEN m ELSE q[i]
  OBVIOUS
<1> QED BY <1>1, <1>2 DEF InOrder

LEMMA SyncOrderStays ==
  ASSUME TypeOK, ConnectedInv, [Next]_vars, Followed', TimingInv
  PROVE  InOrder(queue["sync"])'
PROOF
<1> DEFINE q == queue["sync"]
<1>1. /\ q \in Seq(Message) /\ InOrder(q) /\ now <= now
      /\ \A i \in DOMAIN q : q[i].arrived <= now /\ (q[i].body.type = "beacon_r" => ~Greeting)
  BY DEF TypeOK, Nodes, TimingInv, SyncQueueInv, SyncMessageInv, Timely
<1>2. CASE queue'["sync"] = q
  BY <1>1, <1>2 DEF InOrder
<1>3. CASE Receive("sync")
  BY <1>3, HeadFirst DEF InOrder, TimingInv
<1>4. CASE Receive("ref")
  BY <1>2, <1>4 DEF Receive, TypeOK, Nodes
<1>5. ASSUME NEW m, queue'["sync"] = Append(q, m), m.arrived = now,
             m.body # Malformed \/ Greeting, m.body.type = "beacon_r" => m.body # Malformed
      PROVE  InOrder(queue["sync"])'
  <2>1. InOrder(Append(q, m))
    <3> HIDE DEF q
    <3> QED BY <1>1, <1>5, AppendInOrder
  <2> QED BY <1>5, <2>1 DEF InOrder
<1>6. ASSUME NEW p \in packets, Arrive(p) PROVE InOrder(queue["sync"])'
  <2> DEFINE new == [from |-> p.from, body |-> p.body, arrived |-> now]
  <2>1. queue' = [queue EXCEPT ![p.to] = Append(@, new)] /\ p.to \in Nodes
    BY <1>6 DEF Arrive
  <2>2. CASE p.to # "sync"
    BY <1>2, <2>1, <2>2 DEF TypeOK, Nodes
  <2>3. CASE p.to = "sync"
    <3>1. queue'["sync"] = Append(q, new)
      BY <2>1, <2>3 DEF TypeOK, Nodes
    <3>2. new.arrived = now /\ new.body # Malformed
      BY <1>6 DEF TimingInv, PacketsInv, PacketInv
    <3> QED BY <1>5, <3>1, <3>2
  <2> QED BY <2>2, <2>3
<1>7. ASSUME NEW node \in Nodes, Stray(node) PROVE InOrder(queue["sync"])'
  <2>1. PICK body \in Foreign :
          queue' = [queue EXCEPT ![node] =
                      Append(@, [from |-> "elsewhere", body |-> body, arrived |-> now])]
    BY <1>7 DEF Stray
  <2>2. CASE node # "sync"
    BY <1>2, <2>1, <2>2 DEF TypeOK, Nodes
  <2>3. CASE node = "sync"
    <3> DEFINE new == [from |-> "elsewhere", body |-> body, arrived |-> now]
    <3>1. queue'["sync"] = Append(q, new)
      BY <2>1, <2>3 DEF TypeOK, Nodes
    <3>2. new.arrived = now /\ new.body.type # "beacon_r" /\ Greeting
      BY <1>7, <2>3, StraysBefore DEF NoForeignRounds
    <3> QED BY <1>5, <3>1, <3>2
  <2> QED BY <2>2, <2>3
<1>8. CASE SyncNext
  BY <1>2, <1>3, <1>8 DEF SyncNext, SyncAttempts, SendHandshake, SendHandshakeFails,
     HandshakeTimeout, RecvHandshakeReply, SendBeacon, BeaconTimeout, MalformedMessage,
     IgnoreMessage, RecvBeaconReply, netVars
<1>9. CASE RefNext
  BY <1>2, <1>4, <1>9 DEF RefNext, AcceptHandshake, RefuseHandshake, RecvBeacon, SendReply,
     RecvGoodBye, DropMessage
<1>10. CASE Tick \/ UNCHANGED vars \/ \E p \in packets : Unreachable(p)
  BY <1>2, <1>10 DEF Tick, Unreachable, vars, netVars
<1> QED BY <1>6, <1>7, <1>8, <1>9, <1>10 DEF Next, NetworkNext

LEMMA RoundStays ==
  ASSUME TypeOK, TypeOK', [Next]_vars, RoundInv
  PROVE  RoundInv'
PROOF
<1>1. /\ now \in Nat /\ t_i \in Nat /\ sync_start \in Nat /\ recv_since \in Nat /\ to \in Int
      /\ now' \in Nat /\ now <= now' /\ Period \in Nat
  BY ConnectionStays, Constants DEF TypeOK
<1>2. CASE /\ Synchronizing' \/ Greeting' => UNCHANGED sync_pc
           /\ UNCHANGED <<sync_start, seq, t_i, to, recv_since, sample>>
  BY <1>1, <1>2 DEF RoundInv, Synchronizing
<1>3. CASE UNCHANGED syncVars
  BY <1>2, <1>3 DEF syncVars
<1>4. CASE SyncNext
  <2>1. CASE SendHandshake \/ SendHandshakeFails \/ HandshakeTimeout
    BY <2>1 DEF SendHandshake, SendHandshakeFails, HandshakeTimeout, RoundInv, Synchronizing
  <2>2. CASE RecvHandshakeReply
    BY <1>1, <2>2 DEF RecvHandshakeReply, RoundInv, Synchronizing
  <2>3. CASE SendBeacon
    BY <1>1, <2>3 DEF SendBeacon, RoundInv, Synchronizing
  <2>4. CASE BeaconTimeout \/ MalformedMessage
    BY <1>1, <2>4 DEF BeaconTimeout, MalformedMessage, RoundInv, Synchronizing
  <2>5. CASE IgnoreMessage
    BY <1>1, <2>5 DEF IgnoreMessage, RoundInv, Synchronizing
  <2>6. CASE RecvBeaconReply
    BY <1>1, <2>6 DEF RecvBeaconReply, RoundInv, Synchronizing
  <2> QED BY <1>4, <2>1, <2>2, <2>3, <2>4, <2>5, <2>6 DEF SyncNext, SyncAttempts
<1> QED BY <1>2, <1>3, <1>4, Steps

\* The sample a reply makes: its times are those of the beacon and the reply,
\* and it is read after both.
LEMMA NewSample ==
  ASSUME TypeOK, TypeOK', ConnectedInv, Followed, TimingInv, RecvBeaconReply
  PROVE  /\ sample'.tbr + RefBeacon + RefReply <= sample'.tbt
         /\ sample'.to = to + SyncBeacon /\ to + sync_start = t_i
         /\ SampleRead' = now
         /\ sample'.tbt + ref_start + MinLatency <= now + RefReply
         /\ Tidy => /\ t_i + MinLatency <= sample'.tbr + ref_start + RefBeacon
                    /\ t_i + 2 * MinLatency <= now
         /\ ref_start <= sync_start /\ sync_start <= t_i /\ t_i <= now
         /\ UNCHANGED <<now, sync_start, ref_start>>
         /\ t_i' = t_i + Period /\ sync_pc = "await" /\ sync_pc' = "beacon"
         /\ Accepted' /\ ~Greeting'
PROOF
<1> DEFINE m == Received("sync")
<1>1. /\ sync_pc = "await" /\ sync_pc' = "beacon" /\ UNCHANGED <<now, sync_start, ref_pc, ref_start>>
      /\ t_i' = t_i + Period
      /\ sample' = [to |-> to + SyncBeacon, tbr |-> m.body.beacon_recv_time,
                    tbt |-> m.body.reply_send_time, tr |-> now - sync_start - SyncReply]
  BY DEF RecvBeaconReply, refVars
<1>2. /\ m.arrived <= now /\ m.arrived \in Nat /\ m.body \in Body /\ m.body.type = "beacon_r"
      /\ m.body.seq = seq /\ Honest(m.body, m.arrived - MinLatency)
      /\ Tidy => t_i + 2 * MinLatency <= m.arrived
  BY ReplyTimely DEF TimingInv
<1>3. m.body.beacon_recv_time \in Int /\ m.body.reply_send_time \in Int
  BY <1>2, Bodies
<1>4. /\ to + sync_start = t_i /\ sync_start <= t_i /\ t_i <= now
  BY <1>1 DEF TimingInv, RoundInv, Synchronizing
<1>5. Accepted /\ ref_start <= sync_start
  BY <1>1, FollowedPeer DEF Synchronizing
<1>6. /\ now \in Nat /\ t_i \in Nat /\ sync_start \in Nat /\ to \in Int /\ ref_start \in Nat
  BY DEF TypeOK
<1>7. /\ Tidy => t_i + MinLatency <= m.body.beacon_recv_time + ref_start + RefBeacon
      /\ m.body.reply_send_time + ref_start <= m.arrived - MinLatency + RefReply
      /\ m.body.beacon_recv_time + RefBeacon + RefReply <= m.body.reply_send_time
  BY <1>1, <1>2 DEF Honest, Synchronizing
<1>8. /\ sample'.to = to + SyncBeacon /\ sample'.tbr = m.body.beacon_recv_time
      /\ sample'.tbt = m.body.reply_send_time /\ sample'.tr = now - sync_start - SyncReply
  BY <1>1
<1> HIDE DEF m
<1>9. SampleRead' = now
  BY <1>1, <1>6, <1>8, Constants DEF SampleRead
<1>10. m.body.reply_send_time + ref_start + MinLatency <= now + RefReply
  BY <1>2, <1>3, <1>6, <1>7, Constants
<1>11. Tidy => t_i + 2 * MinLatency <= now
  BY <1>2, <1>6, Constants
<1> QED BY <1>1, <1>4, <1>5, <1>7, <1>8, <1>9, <1>10, <1>11 DEF Accepted, Greeting

\* Its times bracket those of the reference.
LEMMA NewSampleSound ==
  ASSUME TypeOK, TypeOK', ConnectedInv, Followed, TimingInv, RecvBeaconReply, Tidy
  PROVE  /\ SyncBeacon <= sample'.tbr
         /\ sample'.to <= Truth(sample.tbr)' /\ Truth(sample.tbt)' <= sample'.tr
PROOF
<1>1. /\ sample' \in [to : Int, tbr : Int, tbt : Int, tr : Int]
      /\ now \in Nat /\ t_i \in Nat /\ sync_start \in Nat /\ to \in Int /\ ref_start \in Nat
  BY DEF TypeOK
<1>2. /\ sample'.to \in Int /\ sample'.tbr \in Int /\ sample'.tbt \in Int /\ sample'.tr \in Int
  BY <1>1
<1>3. /\ Truth(sample.tbr)' = sample'.tbr + ref_start - sync_start
      /\ Truth(sample.tbt)' = sample'.tbt + ref_start - sync_start
  BY NewSample DEF Truth
<1>4. /\ sample'.to = to + SyncBeacon /\ to + sync_start = t_i
      /\ sample'.tr + sync_start + SyncReply = now
      /\ sample'.tbt + ref_start + MinLatency <= now + RefReply
      /\ t_i + MinLatency <= sample'.tbr + ref_start + RefBeacon
      /\ ref_start <= sync_start /\ sync_start <= t_i
  BY NewSample DEF SampleRead
<1> QED BY <1>1, <1>2, <1>3, <1>4, Constants

\* Both clocks keep their starts.
LEMMA StaysStarted ==
  ASSUME TypeOK, [Next]_vars, Accepted, ~Greeting
  PROVE  Accepted' /\ ~Greeting' /\ UNCHANGED <<ref_start, sync_start>>
PROOF
<1>1. CASE RecvBeaconReply
  BY <1>1 DEF RecvBeaconReply, refVars, Accepted, Greeting
<1>2. CASE ~RecvBeaconReply
  BY <1>2, SampleKept, ConnectionStays DEF StaysConnected
<1> QED BY <1>1, <1>2

\* A round starts no sooner than the last one ended, and ends a Period later.
LEMMA BeaconLater ==
  ASSUME TypeOK, TypeOK', [Next]_vars, ~RecvBeaconReply, RoundInv
  PROVE  /\ Synchronizing' /\ ~Greeting => Synchronizing /\ t_i <= t_i'
         /\ sync_pc' = "await" /\ ~Greeting => (sync_pc = "await" /\ t_i' = t_i) \/ t_i' = now
PROOF
<1>1. t_i \in Nat /\ now \in Nat /\ t_i' \in Nat
  BY DEF TypeOK
<1>2. CASE /\ Synchronizing' \/ Greeting' => UNCHANGED sync_pc
           /\ UNCHANGED <<sync_start, seq, t_i, to, recv_since, sample>>
  BY <1>1, <1>2 DEF Synchronizing
<1>3. CASE UNCHANGED syncVars
  BY <1>2, <1>3 DEF syncVars
<1>4. CASE SyncNext
  <2>1. CASE SendHandshake \/ SendHandshakeFails \/ HandshakeTimeout \/ RecvHandshakeReply
    BY <2>1 DEF SendHandshake, SendHandshakeFails, HandshakeTimeout, RecvHandshakeReply,
       Greeting, Synchronizing
  <2>2. CASE SendBeacon
    BY <1>1, <2>2 DEF SendBeacon, Synchronizing
  <2>3. CASE BeaconTimeout \/ MalformedMessage \/ IgnoreMessage
    BY <1>1, <2>3 DEF BeaconTimeout, MalformedMessage, IgnoreMessage, Synchronizing
  <2> QED BY <1>4, <2>1, <2>2, <2>3 DEF SyncNext, SyncAttempts
<1> QED BY <1>2, <1>3, <1>4, Steps

LEMMA SampleStays ==
  ASSUME TypeOK, TypeOK', ConnectedInv, [Next]_vars, Followed', TimingInv
  PROVE  SampleInv'
PROOF
<1>1. /\ now \in Nat /\ now' \in Nat /\ now <= now' /\ t_i \in Nat /\ t_i' \in Nat
      /\ ref_start \in Nat /\ sync_start \in Nat /\ strays \in Nat
      /\ sample \in [to : Int, tbr : Int, tbt : Int, tr : Int]
      /\ sample' \in [to : Int, tbr : Int, tbt : Int, tr : Int]
  BY ConnectionStays DEF TypeOK
<1>2. SampleInv /\ RoundInv /\ Followed
  BY StaysTidy DEF TimingInv
<1>3. /\ sample.to \in Int /\ sample.tbt \in Int /\ sample.tr \in Int
      /\ sample'.to \in Int /\ sample'.tbr \in Int /\ sample'.tbt \in Int /\ sample'.tr \in Int
  BY <1>1
<1>4. strays' = 0 => strays = 0
  BY NoStrays
<1>5. CASE ~RecvBeaconReply
  <2>1. UNCHANGED sample
    BY <1>5, SampleKept
  <2>2. CASE sample = NoSample
    BY <1>2, <2>1, <2>2 DEF SampleInv, SamplesSound
  <2>3. CASE sample # NoSample
    <3>1. Accepted /\ ~Greeting /\ SampleOld
      BY <1>2, <2>3 DEF SampleInv
    <3>2. Accepted' /\ ~Greeting' /\ UNCHANGED <<sample, ref_start, sync_start>>
      BY <2>1, <3>1, StaysStarted
    <3>3. SampleRead' = SampleRead /\ SampleRead \in Int
      BY <1>1, <1>3, <3>2, Constants DEF SampleRead
    <3>4. /\ Synchronizing' => Synchronizing /\ t_i <= t_i'
          /\ sync_pc' = "await" => (sync_pc = "await" /\ t_i' = t_i) \/ t_i' = now
      BY <1>2, <1>5, <3>1, BeaconLater
    <3>5. SampleRead' <= now' /\ (sync_pc' = "await" => SampleRead' <= t_i')
      BY <1>1, <3>1, <3>3, <3>4 DEF SampleOld
    <3>6. Synchronizing' => sample'.to + sync_start' + Period <= t_i' + SyncBeacon
      <4>1. Synchronizing' => sample.to + sync_start + Period <= t_i + SyncBeacon /\ t_i <= t_i'
        BY <3>1, <3>4 DEF SampleOld
      <4> QED BY <1>1, <1>3, <3>2, <4>1, Constants
    <3>7. SampleOld'
      BY <3>1, <3>2, <3>3, <3>5, <3>6 DEF SampleOld
    <3> QED BY <1>2, <1>4, <3>2, <3>7 DEF SampleInv, SamplesSound, Truth
  <2> QED BY <2>2, <2>3
<1>6. CASE RecvBeaconReply
  <2>1. SamplesSound'
    <3>1. strays' = 0 => Tidy
      BY <1>4 DEF Tidy
    <3>2. strays' = 0 => 0 <= sample'.tbr
      BY <1>2, <1>3, <1>6, <3>1, NewSampleSound, Constants
    <3> QED BY <1>2, <1>6, <3>1, <3>2, NewSampleSound DEF SamplesSound
  <2>2. sample'.tbr <= sample'.tbt
    BY <1>2, <1>3, <1>6, NewSample, Constants
  <2>3. SampleOld'
    <3>1. /\ SampleRead' = now /\ now' = now /\ sync_pc' = "beacon" /\ t_i' = t_i + Period
          /\ sample'.tbt + ref_start' + MinLatency <= now + RefReply
          /\ sample'.to = to + SyncBeacon /\ to + sync_start = t_i /\ sync_start' = sync_start
      BY <1>2, <1>6, NewSample
    <3>2. to \in Int
      BY DEF TypeOK
    <3>3. sample'.to + sync_start' + Period <= t_i' + SyncBeacon
      BY <1>1, <3>1, <3>2, Constants
    <3> QED BY <1>1, <3>1, <3>3 DEF SampleOld
  <2> QED BY <1>2, <1>6, <2>1, <2>2, <2>3, NewSample DEF SampleInv
<1> QED BY <1>5, <1>6

---------------------------------------------------------------------------
(* The theorems *)

LEMMA InitTiming == Init => FollowedInv
PROOF
<1> SUFFICES ASSUME Init PROVE TimingInv
  BY DEF FollowedInv
<1>1. /\ packets = {} /\ queue["sync"] = <<>> /\ queue["ref"] = <<>> /\ ref_pc = "listen"
      /\ sync_pc = "greet" /\ sample = NoSample
  BY DEF Init, Nodes
<1>2. DOMAIN queue["sync"] = {} /\ DOMAIN queue["ref"] = {}
  BY <1>1
<1>3. PacketsInv /\ RefQueueInv /\ ReplyInv /\ SyncQueueInv
  BY <1>1, <1>2 DEF PacketsInv, RefQueueInv, ReplyInv, SyncQueueInv, InOrder
<1>4. RoundInv /\ SampleInv
  BY <1>1 DEF RoundInv, SampleInv, SamplesSound, NoSample, Synchronizing
<1> QED BY <1>3, <1>4 DEF TimingInv

LEMMA NextTiming ==
  ASSUME Prompt, TypeOK, TypeOK', ConnectedInv, [Next]_vars, FollowedInv
  PROVE  FollowedInv'
PROOF
<1> SUFFICES ASSUME Followed' PROVE TimingInv'
  BY DEF FollowedInv
<1>1. TimingInv
  BY NoStrays, StrayFollowed DEF FollowedInv
<1>2. PacketsInv'
  BY <1>1, PacketsStay
<1>3. RefQueueInv'
  BY <1>1, RefQueueStays
<1>4. ReplyInv'
  BY <1>1, RequestStays
<1>5. SyncQueueInv'
  <2>1. \A i \in DOMAIN queue'["sync"] : \A m : m = queue'["sync"][i] => SyncMessageInv(m)'
    BY <1>1, SyncMessagesStay
  <2>2. InOrder(queue["sync"])'
    BY <1>1, SyncOrderStays
  <2> QED BY <2>1, <2>2 DEF SyncQueueInv
<1>6. RoundInv'
  BY <1>1, RoundStays DEF TimingInv
<1>7. SampleInv'
  BY <1>1, SampleStays
<1> QED BY <1>2, <1>3, <1>4, <1>5, <1>6, <1>7 DEF TimingInv

LEMMA TimingSteps ==
  ASSUME Prompt
  PROVE  Spec => [](TypeOK /\ ConnectedInv /\ FollowedInv)
PROOF
<1>1. TypeOK /\ TypeOK' /\ ConnectedInv /\ [Next]_vars => ConnectedInv'
  BY NextConnected
<1>2. TypeOK /\ TypeOK' /\ ConnectedInv /\ [Next]_vars /\ FollowedInv => FollowedInv'
  BY NextTiming
<1> QED BY InitConnected, InitTiming, SessionTyped, <1>1, <1>2, PTL DEF Spec

\* The data points of a session bracket the truth, for all timings in which a
\* round trip is shorter than the timeout and than all other rounds together,
\* whatever is lost, late, reordered or duplicated.
THEOREM SessionSamplesSound ==
  ASSUME Prompt
  PROVE  Spec => []SamplesSound
PROOF
<1>1. FollowedInv => SamplesSound
  BY DEF FollowedInv, Followed, TimingInv, SampleInv, SamplesSound
<1> QED BY TimingSteps, <1>1, PTL

\* The times of a round are after those of the round before it.
LEMMA NextSample ==
  ASSUME Prompt, Measured, TypeOK, TypeOK', ConnectedInv, Followed, TimingInv, RecvBeaconReply
  PROVE  /\ sample'.tbr < sample'.tbt
         /\ sample # NoSample => /\ sample.tbt < sample'.tbr
                                 /\ sample.to < sample'.to
                                 /\ sample.tr < sample'.tr
PROOF
<1>1. /\ now \in Nat /\ t_i \in Nat /\ to \in Int /\ ref_start \in Nat /\ sync_start \in Nat
      /\ sample \in [to : Int, tbr : Int, tbt : Int, tr : Int]
      /\ sample' \in [to : Int, tbr : Int, tbt : Int, tr : Int]
  BY DEF TypeOK
<1>2. /\ sample.to \in Int /\ sample.tbt \in Int /\ sample.tr \in Int
      /\ sample'.to \in Int /\ sample'.tbr \in Int /\ sample'.tbt \in Int /\ sample'.tr \in Int
  BY <1>1
<1>3. SyncBeacon > 0 /\ RefBeacon + RefReply > 0
  BY DEF Measured
<1>4. sample'.tbr < sample'.tbt
  BY <1>2, <1>3, NewSample, Constants
<1>5. ASSUME sample # NoSample
      PROVE  sample.tbt < sample'.tbr /\ sample.to < sample'.to /\ sample.tr < sample'.tr
  <2>1. sync_pc = "await" /\ SampleOld
    BY <1>5 DEF RecvBeaconReply, TimingInv, SampleInv
  <2>2. /\ sample.tr + sync_start + SyncReply <= t_i
        /\ sample.tbt + ref_start + MinLatency <= sample.tr + sync_start + SyncReply + RefReply
        /\ sample.to + sync_start + Period <= t_i + SyncBeacon
    BY <2>1 DEF SampleOld, SampleRead, Synchronizing
  <2>3. /\ sample'.to = to + SyncBeacon /\ to + sync_start = t_i
        /\ sample'.tr + sync_start + SyncReply = now
        /\ t_i + MinLatency <= sample'.tbr + ref_start + RefBeacon
        /\ t_i + 2 * MinLatency <= now
    BY <1>5, NewSample DEF SampleRead, Tidy
  <2>4. Period > 0
    BY Rounds
  <2>5. sample.to < sample'.to
    BY <1>1, <1>2, <2>2, <2>3, <2>4, Constants
  <2>6. sample.tr < sample'.tr
    BY <1>1, <1>2, <1>3, <2>2, <2>3, Constants
  <2>7. sample.tbt < sample'.tbr
    BY <1>1, <1>2, <1>3, <2>2, <2>3, Constants
  <2> QED BY <2>5, <2>6, <2>7
<1> QED BY <1>4, <1>5

\* A SyncNode that greets, or synchronizes with another program, gets no replies,
\* and the reference no beacons, unless other programs send them.
OfRound(body) == body.type \in {"beacon", "beacon_r"}

QuietInv ==
  NoForeignRounds /\ (Greeting \/ Redirected) =>
    /\ \A p \in packets : p.to \in Nodes => ~OfRound(p.body)
    /\ \A node \in Nodes : \A i \in DOMAIN queue[node] : ~OfRound(queue[node][i].body)
    /\ ref_pc # "reply"

LEMMA NextQuiet ==
  ASSUME TypeOK, ConnectedInv, [Next]_vars, QuietInv
  PROVE  QuietInv'
PROOF
<1> SUFFICES ASSUME NoForeignRounds, (Greeting \/ Redirected)' PROVE QuietInv'
  BY DEF QuietInv, NoForeignRounds
<1>1. Greeting \/ Redirected
  <2>1. Greeting' => Greeting
    <3>1. CASE SyncNext
      BY <3>1 DEF SyncNext, SyncAttempts, SendHandshake, SendHandshakeFails, HandshakeTimeout,
         RecvHandshakeReply, SendBeacon, BeaconTimeout, MalformedMessage, IgnoreMessage,
         RecvBeaconReply, Greeting
    <3> QED BY <3>1, Steps DEF Greeting, syncVars
  <2>2. ~Greeting => UNCHANGED peer_addr
    <3>1. CASE SyncNext
      BY <3>1 DEF SyncNext, SyncAttempts, SendHandshake, SendHandshakeFails, HandshakeTimeout,
         RecvHandshakeReply, SendBeacon, BeaconTimeout, MalformedMessage, IgnoreMessage,
         RecvBeaconReply, Greeting
    <3>2. UNCHANGED syncVars => UNCHANGED peer_addr
      BY DEF syncVars
    <3>3. RefNext => UNCHANGED syncVars
      BY DEF RefNext, AcceptHandshake, RefuseHandshake, RecvBeacon, SendReply, RecvGoodBye,
         DropMessage
    <3>4. NetworkNext => UNCHANGED peer_addr
      BY <3>2 DEF NetworkNext, Tick, Arrive, Unreachable, Stray
    <3> QED BY <3>1, <3>2, <3>3, <3>4 DEF Next, vars
  <2> QED BY <2>1, <2>2 DEF Redirected
<1>2. /\ \A p \in packets : p.to \in Nodes => ~OfRound(p.body)
      /\ \A node \in Nodes : \A i \in DOMAIN queue[node] : ~OfRound(queue[node][i].body)
      /\ ref_pc # "reply"
  BY <1>1 DEF QuietInv
<1>3. ~SendReply
  BY <1>2 DEF SendReply
<1>4. ~RecvBeacon
  <2> SUFFICES ASSUME RecvBeacon PROVE FALSE
    OBVIOUS
  <2>1. "ref" \in Nodes /\ Receive("ref") /\ OfRound(Received("ref").body)
    BY DEF Nodes, RecvBeacon, OfRound
  <2> QED BY <1>2, <2>1, ReceiveTyped DEF TypeOK
<1>5. ref_pc' # "reply"
  BY <1>2, <1>4, RequestKept
<1>6. ASSUME NEW p \in packets', p.to \in Nodes PROVE ~OfRound(p.body)
  <2>1. ~(SendBeacon /\ p = Packet("sync", peer_addr, Beacon(seq)))
    <3> SUFFICES ASSUME SendBeacon, p.to = peer_addr PROVE FALSE
      BY DEF Packet
    <3>1. peer_addr = "elsewhere"
      BY <1>1 DEF Redirected, SendBeacon, Greeting
    <3> QED BY <1>6, <3>1 DEF Nodes
  <2> QED BY <1>2, <1>3, <1>6, <2>1, NewPackets DEF OfRound
<1>7. ASSUME NEW node \in Nodes, NEW i \in DOMAIN queue'[node], NEW m, m = queue'[node][i]
      PROVE  ~OfRound(m.body)
  <2>1. ASSUME NEW p \in packets, p.to = node,
               m = [from |-> p.from, body |-> p.body, arrived |-> now]
        PROVE  ~OfRound(m.body)
    BY <1>2, <2>1
  <2>2. ASSUME NEW body \in Foreign,
               m = [from |-> "elsewhere", body |-> body, arrived |-> now]
        PROVE  ~OfRound(m.body)
    BY <2>2 DEF NoForeignRounds, OfRound
  <2> QED BY <1>2, <1>7, <2>1, <2>2, NewInQueue
<1> QED BY <1>5, <1>6, <1>7 DEF QuietInv, OfRound

LEMMA InitQuiet == Init => QuietInv
  BY DEF Init, QuietInv, Nodes

LEMMA QuietSteps == Spec => []QuietInv
PROOF
<1>1. TypeOK /\ ConnectedInv /\ [Next]_vars /\ QuietInv => QuietInv'
  BY NextQuiet
<1> QED BY InitQuiet, SessionTyped, SessionGenuine, <1>1, PTL DEF Spec

\* So the replies a SyncNode accepts are the reference's.
LEMMA ReplyFollowed ==
  ASSUME Measured, TypeOK, QuietInv, strays = 0 \/ NoForeignRounds, RecvBeaconReply
  PROVE  Followed
PROOF
<1>1. ~(NoForeignRounds /\ Redirected)
  <2> SUFFICES ASSUME NoForeignRounds, Redirected PROVE FALSE
    OBVIOUS
  <2>1. "sync" \in Nodes /\ Receive("sync") /\ OfRound(Received("sync").body)
    BY DEF Nodes, RecvBeaconReply, IsReply, OfRound
  <2>2. \E j \in DOMAIN queue["sync"] : Received("sync") = queue["sync"][j]
    BY <2>1, ReceiveTyped DEF TypeOK
  <2> QED BY <2>1, <2>2 DEF QuietInv
<1> QED BY <1>1 DEF Followed

\* The data points of a session come in the order of their times, none twice:
\* for those timings, over all timeouts, duplicates and wraps of the number of a
\* round, and whatever other programs send unless it is a beacon or a reply to
\* one, be it the acceptance that makes one of them the peer.
THEOREM SessionSamplesInOrder ==
  ASSUME Prompt, Measured
  PROVE  Spec => SamplesInOrder
PROOF
<1> DEFINE Ordered == /\ sample'.tbr < sample'.tbt
                      /\ sample # NoSample => /\ sample.tbt < sample'.tbr
                                              /\ sample.to < sample'.to
                                              /\ sample.tr < sample'.tr
           Inv == TypeOK /\ ConnectedInv /\ FollowedInv /\ QuietInv
           Premise == (strays = 0 \/ NoForeignRounds) /\ sample' # sample
<1>1. ASSUME Inv, Inv', [Next]_vars, Premise PROVE Ordered
  <2>1. RecvBeaconReply
    BY <1>1, SampleKept
  <2>3. Followed
    BY <1>1, <2>1, ReplyFollowed
  <2>4. TimingInv
    BY <1>1, <2>3 DEF FollowedInv
  <2> QED BY <1>1, <2>1, <2>3, <2>4, NextSample
<1>2. Inv /\ Inv' /\ [Next]_vars => [Premise => Ordered]_vars
  BY <1>1
<1> QED BY TimingSteps, QuietSteps, <1>2, PTL DEF Spec, SamplesInOrder
=============================================================================
