----------------------------- MODULE Calibration -----------------------------
(***************************************************************************)
(* The constructor of a Node (demo/node.cpp:45-171), which measures the    *)
(* least delays through the network stack: its main thread sends beacons   *)
(* over the loopback interface, a second thread answers them.  Several     *)
(* nodes may start on one host.  Their sockets share port 5555, and a      *)
(* beacon reaches any of those bound to it at that time.                   *)
(*                                                                         *)
(* Time passes while a datagram is under way, by a delay of Transit, and   *)
(* while the second thread works, by one of Pauses.                        *)
(***************************************************************************)
EXTENDS Integers, Sequences

CONSTANTS
  Nodes,               \* the nodes that start on the host
  Rounds, Considered,  \* total_samples and considered_samples
  Transit, Pauses

\* Delays are halved, and counted in units of which they have an even number.
ASSUME CalibrationAssumption ==
  /\ Rounds \in Nat /\ Considered \in Nat
  /\ 0 < Considered /\ Considered <= Rounds
  /\ Transit \subseteq Nat /\ Transit # {} /\ \A d \in Transit : d % 2 = 0
  /\ Pauses \subseteq Nat /\ Pauses # {}

VARIABLES
  now,
  bound,        \* the nodes whose loop_in_fd is bound to port 5555
  overlap,      \* one was bound while another one was
  main,         \* where the constructor is
  T0,
  i,            \* the main thread's loop counter
  echoed,       \* the second thread's loop counter
  t_out,
  beacons,      \* for each node, the beacons at loop_in_fd, by their senders
  replies,      \* and the replies at loop_out_fd
  min_bcn_delay, min_rpl_delay

measured == <<min_bcn_delay, min_rpl_delay>>
calibrationVars == <<now, bound, overlap, main, T0, i, echoed, t_out, beacons, replies, measured>>

\* numeric_limits::max()
Unmeasured == -1

CalibrationInit ==
  /\ now = 0 /\ bound = {} /\ overlap = FALSE
  /\ main = [n \in Nodes |-> "bind"]
  /\ T0 = [n \in Nodes |-> 0]
  /\ i = [n \in Nodes |-> 0]
  /\ echoed = [n \in Nodes |-> 0]
  /\ t_out = [n \in Nodes |-> 0]
  /\ beacons = [n \in Nodes |-> <<>>]
  /\ replies = [n \in Nodes |-> <<>>]
  /\ min_bcn_delay = [n \in Nodes |-> Unmeasured]
  /\ min_rpl_delay = [n \in Nodes |-> Unmeasured]

\* SO_REUSEADDR lets every node bind the port.
Bind(n) ==
  /\ main[n] = "bind"
  /\ bound' = bound \cup {n}
  /\ overlap' = (overlap \/ bound # {})
  /\ T0' = [T0 EXCEPT ![n] = now]
  /\ main' = [main EXCEPT ![n] = "send"]
  /\ UNCHANGED <<now, i, echoed, t_out, beacons, replies, measured>>

SendBeacon(n) ==
  /\ main[n] = "send"
  /\ t_out' = [t_out EXCEPT ![n] = now - T0[n]]
  /\ \E m \in bound : beacons' = [beacons EXCEPT ![m] = Append(@, n)]
  /\ main' = [main EXCEPT ![n] = "receive"]
  /\ UNCHANGED <<now, bound, overlap, T0, i, echoed, replies, measured>>

\* Mutant: the second thread answers one beacon less.
ListensShort(n) == n \in bound /\ echoed[n] < Rounds - 1

\* The second thread answers as many beacons as its own main thread sends.
Listens(n) == n \in bound /\ echoed[n] < Rounds

\* Mutant: both times are the time of reception.
ReplyAtOnce(received, pause) == [beacon_recv_time |-> received, reply_send_time |-> received]

Reply(received, pause) ==
  [beacon_recv_time |-> received, reply_send_time |-> received + pause]

\* It takes both times from its own T0, whoever asked.
Echo(n) ==
  /\ Listens(n)
  /\ beacons[n] # <<>>
  /\ \E d \in Transit, p \in Pauses :
       /\ now' = now + d + p
       /\ replies' = [replies EXCEPT ![Head(beacons[n])] =
                        Append(@, Reply(now + d - T0[n], p))]
  /\ beacons' = [beacons EXCEPT ![n] = Tail(@)]
  /\ echoed' = [echoed EXCEPT ![n] = @ + 1]
  /\ UNCHANGED <<bound, overlap, main, T0, i, t_out, measured>>

Least(old, new) == IF old = Unmeasured \/ new < old THEN new ELSE old

\* Only the last rounds count.
Measure(n, t_in) ==
  LET reply == Head(replies[n])
      bcn_delay == (reply.beacon_recv_time - t_out[n]) \div 2
      rpl_delay == (t_in - reply.reply_send_time) \div 2
  IN  IF i[n] >= Rounds - Considered
      THEN /\ min_bcn_delay' = [min_bcn_delay EXCEPT ![n] = Least(@, bcn_delay)]
           /\ min_rpl_delay' = [min_rpl_delay EXCEPT ![n] = Least(@, rpl_delay)]
      ELSE UNCHANGED measured

RecvReply(n) ==
  /\ main[n] = "receive"
  /\ replies[n] # <<>>
  /\ \E d \in Transit : now' = now + d /\ Measure(n, now + d - T0[n])
  /\ replies' = [replies EXCEPT ![n] = Tail(@)]
  /\ i' = [i EXCEPT ![n] = @ + 1]
  /\ main' = [main EXCEPT ![n] = IF i'[n] < Rounds THEN "send" ELSE "join"]
  /\ UNCHANGED <<bound, overlap, T0, echoed, t_out, beacons>>

\* What was local to the constructor is gone and its sockets are closed.  Only
\* differences of times matter: without a constructor, time starts again.
Leave(n) ==
  /\ bound' = bound \ {n}
  /\ beacons' = [beacons EXCEPT ![n] = <<>>]
  /\ replies' = [replies EXCEPT ![n] = <<>>]
  /\ T0' = [T0 EXCEPT ![n] = 0]
  /\ i' = [i EXCEPT ![n] = 0]
  /\ echoed' = [echoed EXCEPT ![n] = 0]
  /\ t_out' = [t_out EXCEPT ![n] = 0]
  /\ now' = IF bound \subseteq {n} THEN 0 ELSE now

\* t.join(): the second thread has answered its last beacon.
Join(n) ==
  /\ main[n] = "join"
  /\ ~Listens(n)
  /\ Leave(n)
  /\ main' = [main EXCEPT ![n] = "done"]
  /\ UNCHANGED <<overlap, measured>>

\* The program ends in the middle of it.
Abandon(n) ==
  /\ Leave(n)
  /\ main' = [main EXCEPT ![n] = "abandoned"]
  /\ UNCHANGED <<overlap, measured>>

Construct(n) == Bind(n) \/ SendBeacon(n) \/ RecvReply(n) \/ Join(n)

Stopped(n) == main[n] \in {"done", "abandoned"}

CalibrationNext ==
  \E n \in Nodes : Construct(n) \/ Echo(n) \/ (~Stopped(n) /\ Abandon(n))

\* Both threads of a node go on while they can.
CalibrationSpec ==
  /\ CalibrationInit
  /\ [][CalibrationNext]_calibrationVars
  /\ \A n \in Nodes : WF_calibrationVars(Construct(n)) /\ WF_calibrationVars(Echo(n))

---------------------------------------------------------------------------
(* Properties                                                              *)

\* What a node that was alone on its host measured (node.cpp:149-162) are
\* halves of delays of the network stack, without the time it takes to answer:
\* no more than what any datagram takes.
Halves(d) == {x \div 2 : x \in d}
DelaysMeasured ==
  \A n \in Nodes : main[n] = "done" /\ ~overlap =>
    min_bcn_delay[n] \in Halves(Transit) /\ min_rpl_delay[n] \in Halves(Transit)

\* node.cpp:66-159: every constructor comes to its end, though nothing in it
\* times out, unless two nodes share the port.
ConstructorEnds == \A n \in Nodes : <>(Stopped(n) \/ overlap)
=============================================================================
