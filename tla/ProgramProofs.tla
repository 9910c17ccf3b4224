---------------------------- MODULE ProgramProofs ----------------------------
(***************************************************************************)
(* What a node measures while it is alone on its host, for any number of   *)
(* nodes that start one after the other, of rounds, and of delays; and     *)
(* that one signal costs a session no sample, unless a failed check aborts *)
(* the program, whatever the number of samples, of signals and of nodes.   *)
(***************************************************************************)
EXTENDS Program, TLAPS

---------------------------------------------------------------------------
(* The calibration *)


Domains ==
  /\ DOMAIN main = Nodes /\ DOMAIN T0 = Nodes /\ DOMAIN i = Nodes /\ DOMAIN echoed = Nodes
  /\ DOMAIN t_out = Nodes /\ DOMAIN beacons = Nodes /\ DOMAIN replies = Nodes
  /\ DOMAIN min_bcn_delay = Nodes /\ DOMAIN min_rpl_delay = Nodes

Numbers ==
  now \in Int /\ \A n \in Nodes : T0[n] \in Int /\ t_out[n] \in Int /\ i[n] \in Int

\* A node is bound while it measures, and nobody else is.
Alone ==
  /\ bound \subseteq Nodes
  /\ \A m, n \in bound : m = n
  /\ \A n \in Nodes : n \in bound <=> main[n] \in {"send", "receive", "join"}

Empty(n) == beacons[n] = <<>> /\ replies[n] = <<>>

BeaconWaits(n) ==
  beacons[n] = <<n>> /\ replies[n] = <<>> /\ t_out[n] = now - T0[n]

ReplyWaits(n) ==
  /\ beacons[n] = <<>>
  /\ \E received \in Int :
       /\ replies[n] = <<[beacon_recv_time |-> received, reply_send_time |-> now - T0[n]]>>
       /\ received - t_out[n] \in Transit

\* One datagram is under way while the main thread waits, otherwise none.
OneUnderWay ==
  \A n \in Nodes : IF main[n] = "receive" THEN BeaconWaits(n) \/ ReplyWaits(n) ELSE Empty(n)

Measurements == Halves(Transit) \cup {Unmeasured}

\* The last round has been measured when they all are over.
MeasuredOK ==
  \A n \in Nodes :
    /\ min_bcn_delay[n] \in Measurements /\ min_rpl_delay[n] \in Measurements
    /\ main[n] \in {"join", "done"} =>
         min_bcn_delay[n] \in Halves(Transit) /\ min_rpl_delay[n] \in Halves(Transit)

CalibrationInv == ~overlap => Domains /\ Numbers /\ Alone /\ OneUnderWay /\ MeasuredOK

---------------------------------------------------------------------------

LEMMA CalibrationInitHolds == CalibrationInit => CalibrationInv
BY DEF CalibrationInit, CalibrationInv, Domains, Numbers, Alone, OneUnderWay, Empty, MeasuredOK,
       Measurements

LEMMA TransitInt == \A d \in Transit : d \in Int /\ d \div 2 \in Halves(Transit)
BY CalibrationAssumption DEF Halves

\* Whichever of two measurements is less, it is one.
LEMMA LeastMeasured ==
  ASSUME NEW old \in Measurements, NEW new \in Halves(Transit)
  PROVE  Least(old, new) \in Halves(Transit)
BY DEF Least, Measurements

\* No constructor binds the port next to another one.
LEMMA BindKeeps ==
  ASSUME CalibrationInv, NEW n \in Nodes, Bind(n)
  PROVE  CalibrationInv'
<1> SUFFICES ASSUME ~overlap' PROVE CalibrationInv'
  BY DEF CalibrationInv
<1>1. ~overlap /\ bound = {}
  BY DEF Bind
<1>2. Domains /\ Numbers /\ Alone /\ OneUnderWay /\ MeasuredOK
  BY <1>1 DEF CalibrationInv
<1>3. \A m \in Nodes \ {n} : main'[m] = main[m] /\ T0'[m] = T0[m]
  BY <1>2 DEF Bind, Domains
<1>4. main'[n] = "send" /\ T0'[n] = now
  BY <1>2 DEF Bind, Domains
<1>5. Domains' /\ Numbers'
  <2>1. Domains'
    BY <1>2 DEF Bind, Domains, measured
  <2>2. now' = now /\ t_out' = t_out /\ i' = i
    BY DEF Bind
  <2>3. Numbers'
    BY <1>2, <1>3, <1>4, <2>2 DEF Numbers
  <2> QED
    BY <2>1, <2>3
<1>6. Alone'
  BY <1>1, <1>2, <1>3, <1>4 DEF Bind, Alone
<1>7. OneUnderWay'
  <2>1. \A m \in Nodes : main[m] # "receive"
    BY <1>1, <1>2 DEF Alone
  <2>2. \A m \in Nodes : Empty(m)
    BY <1>2, <2>1 DEF OneUnderWay
  <2> QED
    BY <2>1, <2>2, <1>3, <1>4 DEF Bind, OneUnderWay, Empty
<1>8. MeasuredOK'
  BY <1>2, <1>3, <1>4 DEF Bind, measured, MeasuredOK
<1> QED
  BY <1>5, <1>6, <1>7, <1>8 DEF CalibrationInv

LEMMA SendBeaconKeeps ==
  ASSUME CalibrationInv, NEW n \in Nodes, SendBeacon(n)
  PROVE  CalibrationInv'
<1> SUFFICES ASSUME ~overlap' PROVE CalibrationInv'
  BY DEF CalibrationInv
<1>1. ~overlap /\ main[n] = "send" /\ UNCHANGED <<now, bound, T0, i, replies, measured>>
  BY DEF SendBeacon
<1>2. Domains /\ Numbers /\ Alone /\ OneUnderWay /\ MeasuredOK
  BY <1>1 DEF CalibrationInv
<1>3. \A m \in bound : m = n
  BY <1>1, <1>2 DEF Alone
<1>4. beacons' = [beacons EXCEPT ![n] = Append(@, n)]
  BY <1>3 DEF SendBeacon
<1>5. /\ main' = [main EXCEPT ![n] = "receive"]
      /\ t_out' = [t_out EXCEPT ![n] = now - T0[n]]
  BY DEF SendBeacon
<1>6. \A m \in Nodes \ {n} : main'[m] = main[m] /\ t_out'[m] = t_out[m] /\ beacons'[m] = beacons[m]
  BY <1>2, <1>4, <1>5 DEF Domains
<1>7. main'[n] = "receive" /\ t_out'[n] = now - T0[n] /\ beacons'[n] = <<n>> /\ replies[n] = <<>>
  <2>1. Empty(n)
    BY <1>1, <1>2 DEF OneUnderWay
  <2>2. beacons'[n] = Append(<<>>, n)
    BY <1>2, <1>4, <2>1 DEF Domains, Empty
  <2> QED
    BY <1>2, <1>5, <2>1, <2>2 DEF Domains, Empty
<1>8. Domains' /\ Numbers'
  <2>1. Domains'
    BY <1>1, <1>2, <1>4, <1>5 DEF Domains, SendBeacon, measured
  <2>2. Numbers'
    BY <1>1, <1>2, <1>6, <1>7 DEF Numbers
  <2> QED
    BY <2>1, <2>2
<1>9. Alone'
  BY <1>1, <1>2, <1>6, <1>7 DEF Alone
<1>10. OneUnderWay'
  <2> SUFFICES ASSUME NEW m \in Nodes
               PROVE (IF main[m] = "receive" THEN BeaconWaits(m) \/ ReplyWaits(m) ELSE Empty(m))'
    BY DEF OneUnderWay
  <2>1. CASE m = n
    BY <1>1, <1>7, <2>1 DEF BeaconWaits
  <2>2. CASE m # n
    <3>1. main[m] # "receive" /\ Empty(m)
      BY <1>1, <1>2, <1>3, <2>2 DEF Alone, OneUnderWay
    <3> QED
      BY <1>1, <1>6, <2>2, <3>1 DEF Empty
  <2> QED
    BY <2>1, <2>2
<1>11. MeasuredOK'
  BY <1>1, <1>2, <1>6, <1>7 DEF measured, MeasuredOK
<1> QED
  BY <1>8, <1>9, <1>10, <1>11 DEF CalibrationInv

\* The second thread answers the beacon of its own main thread.
LEMMA EchoKeeps ==
  ASSUME CalibrationInv, NEW n \in Nodes, Echo(n)
  PROVE  CalibrationInv'
<1> SUFFICES ASSUME ~overlap' PROVE CalibrationInv'
  BY DEF CalibrationInv
<1>1. /\ ~overlap /\ n \in bound /\ beacons[n] # <<>>
      /\ UNCHANGED <<bound, main, T0, i, t_out, measured>>
  BY DEF Echo, Listens
<1>2. Domains /\ Numbers /\ Alone /\ OneUnderWay /\ MeasuredOK
  BY <1>1 DEF CalibrationInv
<1>3. main[n] = "receive" /\ BeaconWaits(n)
  BY <1>1, <1>2 DEF OneUnderWay, Empty, ReplyWaits
<1>4. beacons[n] = <<n>> /\ Head(beacons[n]) = n /\ Tail(beacons[n]) = <<>> /\ replies[n] = <<>>
  BY <1>3 DEF BeaconWaits
<1>5. PICK d \in Transit, p \in Pauses :
        /\ now' = now + d + p
        /\ replies' = [replies EXCEPT ![n] = Append(@, Reply(now + d - T0[n], p))]
  BY <1>4 DEF Echo
<1>6. d \in Int /\ p \in Int /\ now \in Int /\ T0[n] \in Int /\ t_out[n] = now - T0[n]
  BY <1>2, <1>3, CalibrationAssumption DEF Numbers, BeaconWaits
<1>7. beacons' = [beacons EXCEPT ![n] = Tail(@)] /\ echoed' = [echoed EXCEPT ![n] = @ + 1]
  BY DEF Echo
<1>8. \A m \in Nodes \ {n} : beacons'[m] = beacons[m] /\ replies'[m] = replies[m]
  BY <1>2, <1>5, <1>7 DEF Domains
<1>9. ReplyWaits(n)'
  <2>1. beacons'[n] = <<>>
    BY <1>2, <1>4, <1>7 DEF Domains
  <2>2. replies'[n] = Append(<<>>, Reply(now + d - T0[n], p))
    BY <1>2, <1>4, <1>5 DEF Domains
  <2>3. replies'[n] = <<Reply(now + d - T0[n], p)>>
    BY <2>2
  <2>4. /\ now + d - T0[n] \in Int
        /\ (now + d - T0[n]) - t_out'[n] = d
        /\ (now + d - T0[n]) + p = now' - T0'[n]
    BY <1>1, <1>5, <1>6
  <2>5. replies'[n] = <<[beacon_recv_time |-> now + d - T0[n], reply_send_time |-> now' - T0'[n]]>>
    BY <2>3, <2>4 DEF Reply
  <2> QED
    BY <2>1, <2>4, <2>5 DEF ReplyWaits
<1>10. Domains' /\ Numbers'
  <2>1. Domains'
    BY <1>1, <1>2, <1>5, <1>7 DEF Domains, measured
  <2>2. Numbers'
    BY <1>1, <1>2, <1>5, <1>6 DEF Numbers
  <2> QED
    BY <2>1, <2>2
<1>11. Alone' /\ MeasuredOK'
  BY <1>1, <1>2 DEF Alone, MeasuredOK, measured
<1>12. OneUnderWay'
  <2> SUFFICES ASSUME NEW m \in Nodes
               PROVE (IF main[m] = "receive" THEN BeaconWaits(m) \/ ReplyWaits(m) ELSE Empty(m))'
    BY DEF OneUnderWay
  <2>1. CASE m = n
    BY <1>1, <1>3, <1>9, <2>1
  <2>2. CASE m # n
    <3>1. main[m] # "receive" /\ Empty(m)
      BY <1>1, <1>2, <2>2 DEF Alone, OneUnderWay
    <3> QED
      BY <1>1, <1>8, <2>2, <3>1 DEF Empty
  <2> QED
    BY <2>1, <2>2
<1> QED
  BY <1>10, <1>11, <1>12 DEF CalibrationInv

\* Both delays are those of the datagrams, the pause is in neither.
LEMMA RecvReplyKeeps ==
  ASSUME CalibrationInv, NEW n \in Nodes, RecvReply(n)
  PROVE  CalibrationInv'
<1> SUFFICES ASSUME ~overlap' PROVE CalibrationInv'
  BY DEF CalibrationInv
<1>1. /\ ~overlap /\ main[n] = "receive" /\ replies[n] # <<>>
      /\ UNCHANGED <<bound, T0, echoed, t_out, beacons>>
  BY DEF RecvReply
<1>2. Domains /\ Numbers /\ Alone /\ OneUnderWay /\ MeasuredOK
  BY <1>1 DEF CalibrationInv
<1>3. ReplyWaits(n)
  BY <1>1, <1>2 DEF OneUnderWay, BeaconWaits
<1>4. PICK received \in Int :
        /\ replies[n] = <<[beacon_recv_time |-> received, reply_send_time |-> now - T0[n]]>>
        /\ received - t_out[n] \in Transit
  BY <1>3 DEF ReplyWaits
<1>5. /\ Head(replies[n]).beacon_recv_time = received
      /\ Head(replies[n]).reply_send_time = now - T0[n]
      /\ Tail(replies[n]) = <<>>
  BY <1>4
<1>6. PICK d \in Transit : now' = now + d /\ Measure(n, now + d - T0[n])
  BY DEF RecvReply
<1>7. /\ now \in Int /\ T0[n] \in Int /\ t_out[n] \in Int /\ i[n] \in Int /\ d \in Int
      /\ now' \in Int
  BY <1>2, <1>6, TransitInt DEF Numbers
<1>8. (now + d - T0[n]) - Head(replies[n]).reply_send_time = d
  BY <1>5, <1>7
<1>9. /\ (Head(replies[n]).beacon_recv_time - t_out[n]) \div 2 \in Halves(Transit)
      /\ ((now + d - T0[n]) - Head(replies[n]).reply_send_time) \div 2 \in Halves(Transit)
  BY <1>4, <1>5, <1>8, TransitInt
<1>10. /\ replies' = [replies EXCEPT ![n] = Tail(@)]
       /\ i' = [i EXCEPT ![n] = @ + 1]
       /\ main' = [main EXCEPT ![n] = IF i'[n] < Rounds THEN "send" ELSE "join"]
  BY DEF RecvReply
<1>11. /\ \A m \in Nodes \ {n} : replies'[m] = replies[m] /\ i'[m] = i[m] /\ main'[m] = main[m]
       /\ replies'[n] = <<>> /\ i'[n] = i[n] + 1
       /\ main'[n] = IF i[n] + 1 < Rounds THEN "send" ELSE "join"
  BY <1>2, <1>5, <1>10 DEF Domains
<1>12. /\ DOMAIN min_bcn_delay' = Nodes /\ DOMAIN min_rpl_delay' = Nodes
       /\ \A m \in Nodes \ {n} : /\ min_bcn_delay'[m] = min_bcn_delay[m]
                                 /\ min_rpl_delay'[m] = min_rpl_delay[m]
       /\ min_bcn_delay'[n] \in Measurements /\ min_rpl_delay'[n] \in Measurements
       /\ i[n] >= Rounds - Considered => /\ min_bcn_delay'[n] \in Halves(Transit)
                                         /\ min_rpl_delay'[n] \in Halves(Transit)
  <2> DEFINE b == (Head(replies[n]).beacon_recv_time - t_out[n]) \div 2
             r == ((now + d - T0[n]) - Head(replies[n]).reply_send_time) \div 2
  <2>1. min_bcn_delay[n] \in Measurements /\ min_rpl_delay[n] \in Measurements
    BY <1>2 DEF MeasuredOK
  <2>2. /\ Least(min_bcn_delay[n], b) \in Halves(Transit)
        /\ Least(min_rpl_delay[n], r) \in Halves(Transit)
    <3> HIDE DEF b, r
    <3>1. b \in Halves(Transit) /\ r \in Halves(Transit)
      BY <1>9 DEF b, r
    <3> QED
      BY <2>1, <3>1, LeastMeasured
  <2>3. IF i[n] >= Rounds - Considered
        THEN /\ min_bcn_delay' = [min_bcn_delay EXCEPT ![n] = Least(@, b)]
             /\ min_rpl_delay' = [min_rpl_delay EXCEPT ![n] = Least(@, r)]
        ELSE UNCHANGED measured
    BY <1>6 DEF Measure
  <2> HIDE DEF b, r
  <2>4. CASE i[n] >= Rounds - Considered
    BY <1>2, <2>2, <2>3, <2>4 DEF Domains, Measurements
  <2>5. CASE ~(i[n] >= Rounds - Considered)
    BY <1>2, <2>1, <2>3, <2>5 DEF Domains, measured
  <2> QED
    BY <2>4, <2>5
<1>13. Domains' /\ Numbers'
  <2>1. Domains'
    BY <1>1, <1>2, <1>10, <1>12 DEF Domains
  <2>2. Numbers'
    BY <1>1, <1>2, <1>7, <1>11 DEF Numbers
  <2> QED
    BY <2>1, <2>2
<1>14. Alone'
  BY <1>1, <1>2, <1>11 DEF Alone
<1>15. OneUnderWay'
  <2> SUFFICES ASSUME NEW m \in Nodes
               PROVE (IF main[m] = "receive" THEN BeaconWaits(m) \/ ReplyWaits(m) ELSE Empty(m))'
    BY DEF OneUnderWay
  <2>1. CASE m = n
    BY <1>1, <1>3, <1>11, <2>1 DEF ReplyWaits, Empty
  <2>2. CASE m # n
    <3>1. main[m] # "receive" /\ Empty(m)
      BY <1>1, <1>2, <2>2 DEF Alone, OneUnderWay
    <3> QED
      BY <1>1, <1>11, <2>2, <3>1 DEF Empty
  <2> QED
    BY <2>1, <2>2
<1>16. MeasuredOK'
  <2>1. main'[n] = "join" => i[n] >= Rounds - Considered
    BY <1>7, <1>11, CalibrationAssumption
  <2>2. main'[n] # "done"
    BY <1>11
  <2> QED
    BY <1>2, <1>11, <1>12, <2>1, <2>2 DEF MeasuredOK
<1> QED
  BY <1>13, <1>14, <1>15, <1>16 DEF CalibrationInv

\* A constructor that ends leaves nothing behind.
LEMMA LeaveKeeps ==
  ASSUME CalibrationInv, NEW n \in Nodes, Leave(n), UNCHANGED <<overlap, measured>>,
         NEW where \in {"done", "abandoned"}, main' = [main EXCEPT ![n] = where],
         where = "done" => main[n] = "join"
  PROVE  CalibrationInv'
<1> SUFFICES ASSUME ~overlap PROVE CalibrationInv'
  BY DEF CalibrationInv
<1>1. Domains /\ Numbers /\ Alone /\ OneUnderWay /\ MeasuredOK
  BY DEF CalibrationInv
<1>2. /\ \A m \in Nodes \ {n} : /\ main'[m] = main[m] /\ T0'[m] = T0[m] /\ i'[m] = i[m]
                                /\ t_out'[m] = t_out[m] /\ beacons'[m] = beacons[m]
                                /\ replies'[m] = replies[m]
      /\ main'[n] = where /\ T0'[n] = 0 /\ i'[n] = 0 /\ t_out'[n] = 0
      /\ beacons'[n] = <<>> /\ replies'[n] = <<>>
  BY <1>1 DEF Leave, Domains
<1>3. Domains'
  BY <1>1 DEF Leave, Domains, measured
<1>4. Numbers'
  BY <1>1, <1>2 DEF Leave, Numbers
<1>5. Alone'
  BY <1>1, <1>2 DEF Leave, Alone
<1>6. OneUnderWay'
  <2> SUFFICES ASSUME NEW m \in Nodes
               PROVE (IF main[m] = "receive" THEN BeaconWaits(m) \/ ReplyWaits(m) ELSE Empty(m))'
    BY DEF OneUnderWay
  <2>1. CASE m = n
    BY <1>2, <2>1 DEF Empty
  <2>2. CASE m # n /\ main[m] = "receive"
    <3>1. m \in bound /\ now' = now
      BY <1>1, <2>2 DEF Alone, Leave
    <3>2. BeaconWaits(m) \/ ReplyWaits(m)
      BY <1>1, <2>2 DEF OneUnderWay
    <3> QED
      BY <1>2, <2>2, <3>1, <3>2 DEF BeaconWaits, ReplyWaits
  <2>3. CASE m # n /\ main[m] # "receive"
    BY <1>1, <1>2, <2>3 DEF OneUnderWay, Empty
  <2> QED
    BY <2>1, <2>2, <2>3
<1>7. MeasuredOK'
  BY <1>1, <1>2 DEF MeasuredOK, measured
<1> QED
  BY <1>3, <1>4, <1>5, <1>6, <1>7 DEF CalibrationInv

\* node.cpp:45-171: the invariant of the constructors on a host.
THEOREM CalibrationInvariant == CalibrationSpec => []CalibrationInv
<1>1. ASSUME CalibrationInv, [CalibrationNext]_calibrationVars PROVE CalibrationInv'
  <2>1. ASSUME NEW n \in Nodes, Construct(n) PROVE CalibrationInv'
    <3>1. CASE Join(n)
      BY <1>1, <3>1, LeaveKeeps DEF Join
    <3> QED
      BY <1>1, <2>1, <3>1, BindKeeps, SendBeaconKeeps, RecvReplyKeeps DEF Construct
  <2>2. ASSUME NEW n \in Nodes, Echo(n) PROVE CalibrationInv'
    BY <1>1, <2>2, EchoKeeps
  <2>3. ASSUME NEW n \in Nodes, Abandon(n) PROVE CalibrationInv'
    BY <1>1, <2>3, LeaveKeeps DEF Abandon
  <2>4. CASE UNCHANGED calibrationVars
    BY <1>1, <2>4 DEF calibrationVars, measured, CalibrationInv, Domains, Numbers, Alone,
                      OneUnderWay, Empty, BeaconWaits, ReplyWaits, MeasuredOK
  <2> QED
    BY <1>1, <2>1, <2>2, <2>3, <2>4 DEF CalibrationNext
<1> QED
  BY <1>1, CalibrationInitHolds, PTL DEF CalibrationSpec

\* node.cpp:143-162: a node that is alone measures halves of the delays its
\* datagrams had, in the last of its rounds at the latest.
THEOREM DelaysMeasuredAll == CalibrationSpec => []DelaysMeasured
<1>1. CalibrationInv => DelaysMeasured
  BY DEF CalibrationInv, MeasuredOK, DelaysMeasured
<1> QED
  BY <1>1, CalibrationInvariant, PTL

---------------------------------------------------------------------------
(* The program around it *)


InSession ==
  {"check", "send", "receive", "connect", "farewell", "catch", "delete"}

\* Something has closed the socket before its time.
Closed == signals >= 1 \/ failed

\* What OneSignalSaves asks of the run.
Clean == output /\ disk # "full" /\ signals <= 1 /\ ~failed

CountsOK ==
  /\ samples \in Nat /\ index \in Nat /\ written \in Nat /\ signals \in Nat
  /\ failed \in BOOLEAN

\* What the global pointer says of where main() is.
NodeOK ==
  /\ node \in {"null", "live", "freed"}
  /\ pc = "construct" => node = "null"
  /\ node = "null" => pc \in {"construct", "stuck", "exited", "aborted"}
  /\ node = "live" => pc \in InSession \cup {"write", "destroy", "crashed", "aborted"}
  /\ node = "freed" => pc \in {"return", "exited", "crashed"}

\* No sample comes before connect(), which is not called again.
ConnectOK ==
  /\ ~connected => samples = 0
  /\ pc = "connect" => ~connected

\* Nothing is written before the session ends, and until then only a signal or
\* a failure closes the socket.
SessionOK ==
  /\ pc \in {"construct"} \cup InSession =>
       /\ index = 0 /\ written = 0
       /\ sock = "socket" \/ (sock = "nothing" /\ Closed)
  /\ pc = "catch" => Closed

\* The number of the socket is the file's only if it was closed before, and a
\* signal that closes the file is then the second one.
WriteOK ==
  pc = "write" =>
    /\ index <= samples
    /\ sock # "socket" => Closed
    /\ Clean => ~bad /\ written = index

\* After that the file is complete.
WrittenOK ==
  pc \in {"destroy", "return", "exited", "crashed"} /\ node # "null" /\ Clean =>
    written = samples

ProgramInv == CountsOK /\ NodeOK /\ ConnectOK /\ SessionOK /\ WriteOK /\ WrittenOK

---------------------------------------------------------------------------

\* The main thread while it constructs the node, the second thread and the
\* other nodes change nothing of this.
LEMMA OthersKeep ==
  ASSUME ProgramInv, UNCHANGED mainVars
  PROVE  ProgramInv'
BY DEF ProgramInv, mainVars, given, nodeVars, fileVars, CountsOK, NodeOK, ConnectOK, SessionOK,
       WriteOK, WrittenOK, Clean, Closed, InSession

LEMMA InitHolds == ProgramInit => ProgramInv
<1> SUFFICES ASSUME ProgramInit PROVE ProgramInv
  OBVIOUS
<1> USE DEF ProgramInit
<1>1. CountsOK
  BY DEF CountsOK
<1>2. NodeOK /\ ConnectOK
  BY DEF NodeOK, ConnectOK, InSession
<1>3. SessionOK /\ WriteOK /\ WrittenOK
  BY DEF SessionOK, WriteOK, WrittenOK
<1> QED
  BY <1>1, <1>2, <1>3 DEF ProgramInv

\* When the loop of write_csv finds no sample left it has come to the last.
LEMMA NoneRemaining ==
  ASSUME samples \in Nat, index \in Nat, index <= samples, Remaining = {}
  PROVE  index = samples
<1>1. SUFFICES ASSUME index # samples PROVE FALSE
  OBVIOUS
<1>2. index \in 0 .. samples - 1
  BY <1>1
<1>3. index \in Remaining
  BY <1>2 DEF Remaining
<1> QED
  BY <1>3

LEMMA SomeRemaining ==
  ASSUME samples \in Nat, index \in Nat, Remaining # {}
  PROVE  index + 1 <= samples
<1>1. PICK k \in Remaining : TRUE
  OBVIOUS
<1> QED
  BY <1>1 DEF Remaining

\* A second signal may close the file; then the run is not Clean.
LEMMA SignalKeeps == ASSUME ProgramInv, Signal PROVE ProgramInv'
<1> USE DEF ProgramInv, CountsOK, NodeOK, ConnectOK, SessionOK, WriteOK, WrittenOK, Clean,
            Closed, InSession
<1>1. /\ signals' = signals + 1 /\ UNCHANGED <<output, disk, node, connected, samples, index>>
      /\ UNCHANGED <<written, failed>> /\ pc \notin {"exited", "crashed", "aborted", "stuck"}
  BY DEF Signal, given, Ended
<1>2. CASE node = "null" /\ pc' \in {"exited", "stuck"} /\ UNCHANGED <<running, sock, bad>>
  BY <1>1, <1>2
<1>3. CASE node = "live" /\ ShutDown /\ UNCHANGED pc
  <2>1. sock' = "nothing" /\ bad' = (bad \/ sock = "file") /\ pc' = pc
    BY <1>3 DEF ShutDown
  <2> QED
    BY <1>1, <1>3, <2>1
<1>4. CASE node = "freed" /\ pc' \in {pc, "crashed"} /\ UNCHANGED <<running, sock, bad>>
  BY <1>1, <1>4
<1> QED
  BY <1>2, <1>3, <1>4 DEF Signal

LEMMA MainThreadKeeps == ASSUME ProgramInv, MainThread PROVE ProgramInv'
<1> USE DEF CountsOK, NodeOK, ConnectOK, SessionOK, WriteOK, WrittenOK, Clean,
            Closed, InSession, given, nodeVars, fileVars
<1>1. CASE ConstructSelf
  BY <1>1, OthersKeep DEF ConstructSelf
<1>2. CASE ConstructFails
  BY <1>2 DEF ProgramInv, ConstructFails
<1>3. CASE Constructed
  BY <1>3 DEF ProgramInv, Constructed
<1>4. CASE Check
  BY <1>4 DEF ProgramInv, Check
<1>5. CASE Send
  BY <1>5 DEF ProgramInv, Send
<1>6. CASE SendFails
  BY <1>6 DEF ProgramInv, SendFails
<1>7. CASE Receive
  <2>1. CASE pc' \in Following /\ UNCHANGED <<samples, failed>>
    BY <1>7, <2>1 DEF ProgramInv, Receive, Following
  <2>2. CASE CompleteRound
    <3>1. /\ sock = "socket" /\ connected /\ pc = "receive"
          /\ UNCHANGED <<given, nodeVars, fileVars, signals>>
          /\ \/ pc' = "check" /\ samples' = samples + 1 /\ failed' = failed
             \/ pc' = "aborted" /\ samples' = samples /\ failed' = failed
             \/ pc' = "catch" /\ samples' = samples /\ failed' = TRUE
      BY <1>7, <2>2 DEF Receive, CompleteRound, AddSample
    <3>2. CASE pc' = "check"
      BY <3>1, <3>2 DEF ProgramInv
    <3>3. CASE pc' = "aborted"
      BY <3>1, <3>3 DEF ProgramInv
    <3>4. CASE pc' = "catch"
      BY <3>1, <3>4 DEF ProgramInv
    <3> QED
      BY <3>1, <3>2, <3>3, <3>4
  <2> QED
    BY <1>7, <2>1, <2>2 DEF Receive
<1>8. CASE Connect
  BY <1>8 DEF ProgramInv, Connect
<1>9. CASE Refused
  BY <1>9 DEF ProgramInv, Refused
<1>10. CASE Farewell
  BY <1>10 DEF ProgramInv, Farewell
<1>11. CASE ReceiveFails
  BY <1>11 DEF ProgramInv, ReceiveFails
<1>12. CASE Catch
  BY <1>12 DEF ProgramInv, Catch, ShutDown
<1>13. CASE Open
  BY <1>13 DEF ProgramInv, Open
<1>14. CASE WriteRecord
  <2>1. index + 1 <= samples
    BY <1>14, SomeRemaining DEF ProgramInv, WriteRecord
  <2> QED
    BY <1>14, <2>1 DEF ProgramInv, WriteRecord
<1>15. CASE Close
  <2>1. index = samples
    BY <1>15, NoneRemaining DEF ProgramInv, Close
  <2> QED
    BY <1>15, <2>1 DEF ProgramInv, Close
<1>16. CASE Destroy
  BY <1>16 DEF ProgramInv, Destroy, ShutDown
<1>17. CASE Return
  BY <1>17 DEF ProgramInv, Return
<1> QED
  BY <1>1, <1>2, <1>3, <1>4, <1>5, <1>6, <1>7, <1>8, <1>9, <1>10, <1>11, <1>12, <1>13, <1>14,
     <1>15, <1>16, <1>17 DEF MainThread

\* main.cpp:18-102: the invariant of the main thread, which every thread keeps.
THEOREM ProgramInvariant == Spec => []ProgramInv
<1>1. ASSUME ProgramInv, [ProgramNext]_programVars PROVE ProgramInv'
  <2>1. CASE MainThread
    BY <1>1, <2>1, MainThreadKeeps
  <2>2. CASE Signal
    BY <1>1, <2>2, SignalKeeps
  <2>3. CASE (\E n \in Nodes : SecondThread(n)) \/ (\E n \in Others : OtherNode(n))
    BY <1>1, <2>3, OthersKeep DEF SecondThread, OtherNode
  <2>4. CASE UNCHANGED programVars
    BY <1>1, <2>4, OthersKeep DEF programVars
  <2> QED
    BY <1>1, <2>1, <2>2, <2>3, <2>4 DEF ProgramNext
<1> QED
  BY <1>1, InitHolds, PTL DEF Spec

\* stats.cpp:31-60: one SIGINT, whenever it comes in a session or while it ends,
\* leaves every sample in the file, unless abort() ends the program.
THEOREM OneSignalSavesAll == Spec => []OneSignalSaves
<1>1. ProgramInv => OneSignalSaves
  BY DEF ProgramInv, NodeOK, WrittenOK, Clean, OneSignalSaves, Ended
<1> QED
  BY <1>1, ProgramInvariant, PTL
=============================================================================
