----------------------------- MODULE SystemProofs -----------------------------
(***************************************************************************)
(* End to end: the estimate a SyncNode publishes holds the truth about the *)
(* two clocks.  What the session hands to the algorithm is sound           *)
(* (SessionTiming), and the algorithm makes sound estimates of what is     *)
(* (SyncBaseProofs), for whichever offset the two starts happen to have.   *)
(***************************************************************************)
EXTENDS System, SessionTiming

\* Base with the state of the SyncNode's MiniSync.
B == INSTANCE CleanupProofs WITH
       Samples <- {}, Slope <- 1, Offset <- 0, Ordered <- FALSE, Loguru <- TRUE

\* The assumptions of Base hold of the constants it gets here.
LEMMA BaseAssumptions == B!SamplesAssumption /\ B!ParametersAssumption
BY SystemAssumption DEF B!SamplesAssumption, B!ParametersAssumption

---------------------------------------------------------------------------
(* MiniSync, as the system uses it, is Base *)

LEMMA SamePoints == \A s :
  /\ Mini!LowPoints(s) = B!LowPoints(s)
  /\ Mini!HighPoints(s) = B!HighPoints(s)
  /\ Mini!LowConstraints(s) = B!LowConstraints(s)
  /\ Mini!HighConstraints(s) = B!HighConstraints(s)
BY DEF Mini!LowPoints, B!LowPoints, Mini!HighPoints, B!HighPoints,
       Mini!LowConstraints, B!LowConstraints, Mini!HighConstraints, B!HighConstraints,
       Mini!NewPairs, B!NewPairs, Mini!Insert, B!Insert,
       Mini!NewLow, B!NewLow, Mini!NewHigh, B!NewHigh, Mini!Point, B!Point

LEMMA SameLine == \A c : Mini!LineOf(c) = B!LineOf(c)
BY DEF Mini!LineOf, B!LineOf, Mini!Line, B!Line

LEMMA SameDifference == \A c, d : Mini!Difference(c, d) = B!Difference(c, d)
BY SameLine DEF Mini!Difference, B!Difference, Mini!Gap, B!Gap

LEMMA SameEstimate == \A c, d : Mini!Estimate(c, d) = B!Estimate(c, d)
BY SameLine DEF Mini!Estimate, B!Estimate, Mini!Midpoint, B!Midpoint

LEMMA SameLess == \A p, q : Mini!Less(p, q) <=> B!Less(p, q)
BY DEF Mini!Less, B!Less

LEMMA SameArrives == \A s : Mini!Arrives(s) <=> B!Arrives(s)
BY DEF Mini!Arrives, B!Arrives, Mini!Aborted, B!Aborted, Mini!InTimeOrder, B!InTimeOrder,
       Mini!Increment, B!Increment

LEMMA SameStore == \A s : Mini!Store(s) => B!Store(s)
BY SamePoints, SameArrives DEF Mini!Store, B!Store

LEMMA SameImprovements == \A s : Mini!Improvements(s) = B!Improvements(s)
BY SamePoints, SameDifference, SameLess DEF Mini!Improvements, B!Improvements

LEMMA SameTightest == \A pairs : Mini!Tightest(pairs) = B!Tightest(pairs)
BY SameDifference, SameLess DEF Mini!Tightest, B!Tightest

LEMMA SameSelect == \A s : Mini!Select(s) => B!Select(s)
BY SameImprovements, SameTightest, SameDifference DEF Mini!Select, B!Select

LEMMA SameRecalculates == \A s : Mini!Recalculates(s) => B!Recalculates(s)
BY SameArrives, SameSelect DEF Mini!Recalculates, B!Recalculates

LEMMA SamePublish == Mini!Publish => B!Publish
BY SameEstimate DEF Mini!Publish, B!Publish, Mini!NoPair, B!NoPair, Mini!NoPoint, B!NoPoint,
       Mini!Point, B!Point, Mini!DriftRefused, B!DriftRefused

LEMMA SamePrune == \A s, low, high : Mini!Prune(s, low, high) => B!Prune(s, low, high)
BY SamePoints DEF Mini!Prune, B!Prune

LEMMA SameThrows == \A s, low, high : Mini!CleanupThrows(s, low, high) => B!CleanupThrows(s, low, high)
BY SamePoints DEF Mini!CleanupThrows, B!CleanupThrows

\* cleanup() keeps every pinned point and adds none.
LEMMA KeptKeeps ==
  ASSUME NEW points, NEW slopes, NEW pinned, NEW sign
  PROVE  Mini!Kept(points, slopes, pinned, sign) \in B!Keeps(points, pinned)
<1>1. points \cap pinned \subseteq Mini!Stays(points, slopes, pinned, sign)
  BY DEF Mini!Stays
<1>2. points \cap pinned \subseteq Mini!Kept(points, slopes, pinned, sign)
  BY <1>1 DEF Mini!Kept
<1>3. Mini!Kept(points, slopes, pinned, sign) \subseteq points
  BY DEF Mini!Kept
<1> QED
  BY <1>2, <1>3 DEF B!Keeps

LEMMA SameRecalculate == \A s : Mini!MiniRecalculate(s) => B!Recalculate(s)
<1> SUFFICES ASSUME NEW s, Mini!MiniRecalculate(s) PROVE B!Recalculate(s)
  OBVIOUS
<1>1. B!Recalculates(s)
  BY SameRecalculates DEF Mini!MiniRecalculate
<1>2. /\ Mini!KeptLow(s) \in B!Keeps(B!LowPoints(s), B!PinnedLow')
      /\ Mini!KeptHigh(s) \in B!Keeps(B!HighPoints(s), B!PinnedHigh')
      /\ B!HighPoints(s) \in B!Keeps(B!HighPoints(s), B!PinnedHigh')
  <2>1. Mini!PinnedLow' = B!PinnedLow' /\ Mini!PinnedHigh' = B!PinnedHigh'
    BY DEF Mini!PinnedLow, B!PinnedLow, Mini!PinnedHigh, B!PinnedHigh
  <2>2. B!HighPoints(s) \in B!Keeps(B!HighPoints(s), B!PinnedHigh')
    BY DEF B!Keeps
  <2> QED
    BY <2>1, <2>2, SamePoints, KeptKeeps DEF Mini!KeptLow, Mini!KeptHigh
<1>3. CASE Mini!MiniCleanup(s) /\ Mini!Publish
  <2>1. /\ Mini!Prune(s, Mini!KeptLow(s), Mini!KeptHigh(s))
        /\ low_points' = Mini!KeptLow(s) /\ high_points' = Mini!KeptHigh(s)
    BY <1>3 DEF Mini!MiniCleanup, Mini!Prune
  <2>2. B!Prune(s, low_points', high_points') /\ B!Publish
    BY <1>3, <2>1, SamePrune, SamePublish
  <2> QED
    BY <1>1, <1>2, <2>1, <2>2 DEF B!Recalculate
<1>4. ASSUME NEW low \in B!Keeps(B!LowPoints(s), B!PinnedLow'),
             NEW high \in B!Keeps(B!HighPoints(s), B!PinnedHigh'),
             Mini!CleanupThrows(s, low, high)
      PROVE  B!Recalculate(s)
  <2>1. B!CleanupThrows(s, low, high)
    BY <1>4, SameThrows
  <2>2. low_points' = low /\ high_points' = high
    BY <2>1 DEF B!CleanupThrows
  <2> QED
    BY <1>1, <2>1, <2>2 DEF B!Recalculate
<1>5. CASE Mini!MiniLowThrows(s)
  <2>1. Mini!CleanupThrows(s, Mini!KeptLow(s), B!HighPoints(s))
    BY <1>5, SamePoints DEF Mini!MiniLowThrows
  <2> QED
    BY <1>2, <1>4, <2>1
<1>6. CASE Mini!MiniHighThrows(s)
  BY <1>2, <1>4, <1>6 DEF Mini!MiniHighThrows
<1> QED
  BY <1>3, <1>5, <1>6 DEF Mini!MiniRecalculate

---------------------------------------------------------------------------
(* The invariant *)

\* How far the starts of the two clocks are apart, and that they both run.
Apart == ref_start - sync_start
Started == Accepted /\ ~Greeting

\* The points of a round still to be added bracket the times of the reference.
PendingInv ==
  /\ pending \in Seq([to : Int, tb : Int, tr : Int])
  /\ strays = 0 /\ pending # <<>> =>
       /\ Started
       /\ \A i \in DOMAIN pending : B!Brackets(pending[i], 1, Apart)

\* The algorithm has not been used, or all it holds is sound for that offset.
AlgorithmInv ==
  strays = 0 =>
    B!BaseInit \/ (Started /\ \E o \in Int : o = Apart /\ B!BaseInv(1, o))

SystemInv ==
  /\ TypeOK /\ ConnectedInv /\ FollowedInv
  /\ PendingInv /\ AlgorithmInv

LEMMA InitSystem == SystemInit => SystemInv
<1> SUFFICES ASSUME SystemInit PROVE SystemInv
  OBVIOUS
<1>1. TypeOK /\ ConnectedInv /\ FollowedInv
  BY InitTyped, InitConnected, InitTiming DEF SystemInit
<1>2. PendingInv
  BY DEF SystemInit, PendingInv
<1>3. AlgorithmInv
  BY DEF SystemInit, AlgorithmInv, Mini!MiniInit, Mini!BaseInit, B!BaseInit, Mini!NoPair, B!NoPair,
         Mini!NoPoint, B!NoPoint, Mini!Point, B!Point, Mini!Infinity, B!Infinity,
         Mini!NoEstimate, B!NoEstimate
<1> QED
  BY <1>1, <1>2, <1>3 DEF SystemInv

\* A program that ends leaves the session as it was.
LEMMA FailureKeeps ==
  ASSUME TypeOK, ConnectedInv, FollowedInv, sync_pc' = "failed",
         UNCHANGED <<now, netVars, peer_addr, sync_start, seq, t_i, to, recv_since, sample, refVars>>
  PROVE  TypeOK' /\ ConnectedInv' /\ FollowedInv'
<1>1. TypeOK'
  BY DEF TypeOK, netVars, faults, refVars
<1>2. ConnectedInv'
  BY DEF ConnectedInv, Genuine, Connected, PeersInv, Synchronizing, Accepted, netVars, faults,
         refVars
<1>3. FollowedInv'
  BY DEF FollowedInv, TimingInv, PacketsInv, PacketInv, RefQueueInv, RefMessageInv, Running,
         ReplyInv, RequestInv, SyncQueueInv, SyncMessageInv, InOrder, RoundInv, SampleInv,
         SamplesSound, SampleOld, SampleRead, Followed, Redirected, NoForeignRounds, Measured, Tidy,
         Truth, Timely, Honest, Greeting, Synchronizing, Age, Since, Accepted,
         netVars, faults, refVars
<1> QED
  BY <1>1, <1>2, <1>3

\* A step of the session keeps its invariant.
LEMMA SessionKeeps ==
  ASSUME Prompt, TypeOK, ConnectedInv, FollowedInv, [Next]_vars
  PROVE  TypeOK' /\ ConnectedInv' /\ FollowedInv'
BY NextTyped, NextConnected, NextTiming

\* One that does not touch the algorithm keeps what it holds sound.
LEMMA AlgorithmKept ==
  ASSUME SystemInv, [Next]_vars, UNCHANGED algoVars
  PROVE  AlgorithmInv'
<1> SUFFICES ASSUME strays' = 0
             PROVE  B!BaseInit' \/ (Started' /\ \E o \in Int : o = Apart' /\ B!BaseInv(1, o)')
  BY DEF AlgorithmInv
<1>1. UNCHANGED B!baseVars /\ strays = 0 /\ TypeOK
  BY NoStrays DEF algoVars, B!baseVars, SystemInv
<1>2. CASE B!BaseInit
  BY <1>1, <1>2 DEF B!BaseInit, B!baseVars
<1>3. CASE Started /\ \E o \in Int : o = Apart /\ B!BaseInv(1, o)
  <2>1. PICK o \in Int : o = Apart /\ B!BaseInv(1, o)
    BY <1>3
  <2>2. Started' /\ o = Apart'
    BY <1>1, <1>3, <2>1, StaysStarted DEF Started, Apart
  <2>3. B!BaseInv(1, o)'
    <3>1. ASSUME NEW m \in Int, m = 1 PROVE B!BaseInv(m, o)'
      <4>1. B!BaseInv(m, o) /\ UNCHANGED B!baseVars
        BY <1>1, <2>1, <3>1
      <4> QED
        BY <4>1, B!StutterInv, BaseAssumptions
    <3> QED
      BY <3>1
  <2> QED
    BY <2>2, <2>3
<1> QED
  BY <1>1, <1>2, <1>3 DEF SystemInv, AlgorithmInv

LEMMA CompleteRoundKeeps ==
  ASSUME Prompt, SystemInv, CompleteRound
  PROVE  SystemInv'
<1>1. RecvBeaconReply /\ [Next]_vars /\ UNCHANGED algoVars /\ pending' = DataPoints(sample')
  BY DEF CompleteRound, Next, SyncNext
<1>2. TypeOK' /\ ConnectedInv' /\ FollowedInv' /\ AlgorithmInv'
  BY <1>1, SessionKeeps, AlgorithmKept DEF SystemInv
<1>3. pending' = <<[to |-> sample'.to, tb |-> sample'.tbr, tr |-> sample'.tr],
                   [to |-> sample'.to, tb |-> sample'.tbt, tr |-> sample'.tr]>>
  BY <1>1 DEF DataPoints
<1>4. pending' \in Seq([to : Int, tb : Int, tr : Int])
  <2>1. sample' \in [to : Int, tbr : Int, tbt : Int, tr : Int]
    BY <1>2 DEF TypeOK
  <2> QED
    BY <1>3, <2>1
<1>5. ASSUME strays' = 0
      PROVE  Started' /\ \A i \in DOMAIN pending' : B!Brackets(pending'[i], 1, Apart')
  <2>1. TypeOK /\ ConnectedInv /\ Followed /\ TimingInv /\ Tidy
    BY <1>1, <1>5, NoStrays DEF SystemInv, FollowedInv, Followed, Tidy
  <2>2. /\ sample'.to <= Truth(sample.tbr)' /\ Truth(sample.tbt)' <= sample'.tr
        /\ SyncBeacon <= sample'.tbr /\ sample'.tbr + RefBeacon + RefReply <= sample'.tbt
        /\ Started'
    BY <1>1, <1>2, <2>1, NewSample, NewSampleSound DEF Started
  <2>6. /\ sample'.to \in Int /\ sample'.tbr \in Int /\ sample'.tbt \in Int /\ sample'.tr \in Int
    BY <1>2 DEF TypeOK
  <2>5. /\ sample'.tbr \in Nat /\ sample'.tbt \in Nat /\ sample'.tbr <= sample'.tbt
    BY <2>2, <2>6, Constants
  <2>3. ref_start' \in Nat /\ sync_start' \in Nat
    BY <1>2 DEF TypeOK
  <2>4. /\ B!Brackets([to |-> sample'.to, tb |-> sample'.tbr, tr |-> sample'.tr], 1, Apart')
        /\ B!Brackets([to |-> sample'.to, tb |-> sample'.tbt, tr |-> sample'.tr], 1, Apart')
    BY <2>2, <2>3, <2>5, <2>6 DEF B!Brackets, Apart, Truth
  <2> QED
    BY <1>3, <2>2, <2>4
<1>6. PendingInv'
  BY <1>4, <1>5 DEF PendingInv
<1> QED
  BY <1>2, <1>6 DEF SystemInv

\* What a call leaves of the session.
LEMMA CallKeeps ==
  ASSUME Prompt, TypeOK, ConnectedInv, FollowedInv, AddDataPoint
  PROVE  TypeOK' /\ ConnectedInv' /\ FollowedInv'
<1>1. /\ sync_pc' \in {"failed", sync_pc}
      /\ UNCHANGED <<now, netVars, peer_addr, sync_start, seq, t_i, to, recv_since, sample, refVars>>
  BY DEF AddDataPoint
<1>2. CASE sync_pc' = "failed"
  BY <1>1, <1>2, FailureKeeps
<1>3. CASE sync_pc' = sync_pc
  <2>1. UNCHANGED vars
    BY <1>1, <1>3 DEF vars, syncVars
  <2> QED
    BY <2>1, SessionKeeps
<1> QED
  BY <1>1, <1>2, <1>3

\* The points of a round are added with the session standing still.
LEMMA AddDataPointKeeps ==
  ASSUME Prompt, SystemInv, AddDataPoint
  PROVE  SystemInv'
<1> DEFINE s == Head(pending)
<1>1. /\ pending # <<>>
      /\ B!Store(s) \/ B!Recalculate(s)
      /\ sync_pc' \in {"failed", sync_pc}
      /\ pending' \in {<<>>, Tail(pending)}
      /\ UNCHANGED <<now, netVars, peer_addr, sync_start, seq, t_i, to, recv_since, sample, refVars>>
  BY SameStore, SameRecalculate DEF AddDataPoint, Mini!MiniStore
<1>2. TypeOK' /\ ConnectedInv' /\ FollowedInv'
  BY CallKeeps DEF SystemInv
<1>3. strays' = strays /\ Apart' = Apart /\ (Started => Started')
  BY <1>1 DEF netVars, faults, refVars, Apart, Started, Accepted, Greeting
<1>4. PendingInv'
  <2>1. /\ pending \in Seq([to : Int, tb : Int, tr : Int])
        /\ strays = 0 => /\ Started
                         /\ \A i \in DOMAIN pending : B!Brackets(pending[i], 1, Apart)
    BY <1>1 DEF SystemInv, PendingInv
  <2>2. CASE pending' = <<>>
    BY <2>2 DEF PendingInv
  <2>3. CASE pending' = Tail(pending)
    <3>1. /\ pending' \in Seq([to : Int, tb : Int, tr : Int])
          /\ \A i \in DOMAIN pending' : i + 1 \in DOMAIN pending /\ pending'[i] = pending[i + 1]
      BY <1>1, <2>1, <2>3
    <3>2. ASSUME strays = 0, NEW i \in DOMAIN pending' PROVE B!Brackets(pending'[i], 1, Apart')
      <4>1. B!Brackets(pending'[i], 1, Apart)
        BY <2>1, <3>1, <3>2
      <4> QED
        BY <1>3, <4>1
    <3> QED
      BY <1>3, <2>1, <3>1, <3>2 DEF PendingInv
  <2> QED
    BY <1>1, <2>2, <2>3
<1>5. AlgorithmInv'
  <2> SUFFICES ASSUME strays = 0 PROVE Started' /\ \E o \in Int : o = Apart' /\ B!BaseInv(1, o)'
    BY <1>3 DEF AlgorithmInv
  <2>1. PICK o \in Int : o = Apart
    BY DEF SystemInv, TypeOK, Apart
  <2>2. Started /\ B!Brackets(s, 1, o)
    <3>1. /\ Started /\ pending \in Seq([to : Int, tb : Int, tr : Int])
          /\ \A i \in DOMAIN pending : B!Brackets(pending[i], 1, o)
      BY <1>1, <2>1 DEF SystemInv, PendingInv
    <3>2. s = pending[1] /\ 1 \in DOMAIN pending
      BY <1>1, <3>1
    <3> QED
      BY <3>1, <3>2
  <2>3. PICK m \in Int : m = 1
    OBVIOUS
  <2>4. B!BaseInv(m, o)
    <3>1. CASE B!BaseInit
      BY <3>1, B!InitInv, BaseAssumptions
    <3>2. CASE B!BaseInv(1, o)
      BY <2>3, <3>2
    <3> QED
      BY <2>1, <3>1, <3>2 DEF SystemInv, AlgorithmInv
  <2>5. B!BaseInv(m, o)'
    <3>1. B!Brackets(s, m, o)
      BY <2>2, <2>3
    <3> HIDE DEF s
    <3> QED
      BY <1>1, <2>4, <3>1, B!StoreInv, B!RecalculateInv, BaseAssumptions
  <2> QED
    BY <1>3, <2>1, <2>2, <2>3, <2>5
<1> QED
  BY <1>2, <1>4, <1>5 DEF SystemInv

LEMMA OtherStepsKeep ==
  ASSUME Prompt, SystemInv, pending = <<>>, [Next]_vars, UNCHANGED <<algoVars, pending>>
  PROVE  SystemInv'
<1>1. TypeOK' /\ ConnectedInv' /\ FollowedInv'
  BY SessionKeeps DEF SystemInv
<1>2. AlgorithmInv'
  BY AlgorithmKept
<1>3. PendingInv'
  BY DEF SystemInv, PendingInv
<1> QED
  BY <1>1, <1>2, <1>3 DEF SystemInv

LEMMA NextKeeps ==
  ASSUME Prompt, SystemInv, [SystemNext]_systemVars
  PROVE  SystemInv'
<1>1. CASE AddDataPoint
  BY <1>1, AddDataPointKeeps
<1>2. CASE CompleteRound
  BY <1>2, CompleteRoundKeeps
<1>3. CASE /\ pending = <<>>
           /\ SyncAttempts \/ RefNext \/ NetworkNext
           /\ UNCHANGED <<algoVars, pending>>
  BY <1>3, OtherStepsKeep DEF Next, SyncNext
<1>4. CASE UNCHANGED systemVars
  <2>1. UNCHANGED vars /\ UNCHANGED algoVars /\ pending' = pending
    BY <1>4 DEF systemVars
  <2>2. TypeOK' /\ ConnectedInv' /\ FollowedInv' /\ AlgorithmInv'
    BY <2>1, SessionKeeps, AlgorithmKept DEF SystemInv
  <2>3. PendingInv'
    BY <2>1 DEF SystemInv, PendingInv, vars, netVars, faults, syncVars, refVars, Started,
                Accepted, Greeting, Apart
  <2> QED
    BY <2>2, <2>3 DEF SystemInv
<1> QED
  BY <1>1, <1>2, <1>3, <1>4 DEF SystemNext

---------------------------------------------------------------------------
(***************************************************************************)
(* Whenever a session has published an estimate, the drift of 1 and the    *)
(* offset between the starts of the two clocks are within its errors, for  *)
(* all timings in which a round trip is shorter than the timeout and than  *)
(* all other rounds together, and whatever is lost, late, reordered or     *)
(* duplicated.                                                             *)
(***************************************************************************)
THEOREM EndToEnd ==
  ASSUME Prompt
  PROVE  SystemSpec => []EstimateHolds
<1>1. SystemInv /\ [SystemNext]_systemVars => SystemInv'
  BY NextKeeps
<1>2. SystemInv => EstimateHolds
  <2> SUFFICES ASSUME SystemInv, estimate # Mini!NoEstimate, strays = 0
               PROVE  /\ Mini!Within(estimate.den, estimate.drift, estimate.driftError)
                      /\ Mini!Within((ref_start - sync_start) * estimate.den, estimate.offset,
                                     estimate.offsetError)
    BY DEF EstimateHolds
  <2>1. Mini!NoEstimate = B!NoEstimate
    BY DEF Mini!NoEstimate, B!NoEstimate
  <2>2. ~B!BaseInit
    BY <2>1 DEF B!BaseInit
  <2>3. PICK o \in Int : o = ref_start - sync_start /\ B!BaseInv(1, o)
    BY <2>2 DEF SystemInv, AlgorithmInv, Apart
  <2>4. B!Sound(estimate, 1, o) /\ estimate.den \in Int
    BY <2>1, <2>3 DEF B!BaseInv, B!EstimateInv, B!IsEstimate
  <2>5. 1 * estimate.den = estimate.den
    BY <2>4
  <2> QED
    BY <2>3, <2>4, <2>5 DEF B!Sound, B!Within, Mini!Within
<1> QED
  BY InitSystem, <1>1, <1>2, PTL DEF SystemSpec

---------------------------------------------------------------------------
(* The order of the calls *)

First(s) == [to |-> s.to, tb |-> s.tbr, tr |-> s.tr]
Second(s) == [to |-> s.to, tb |-> s.tbt, tr |-> s.tr]

\* No other program takes part in the rounds.
Undisturbed == strays = 0 \/ NoForeignRounds

\* Between rounds the last point added is the second of the last sample; within
\* one its points are the next ones in order.
RoundsInOrder ==
  /\ pending = <<>> /\ calls > 0 /\ sync_pc # "failed" =>
       sample # NoSample /\ last = Second(sample)
  /\ pending # <<>> =>
       /\ sample # NoSample /\ sample.tbr < sample.tbt
       /\ \/ /\ pending = <<First(sample), Second(sample)>>
             /\ calls > 0 => Mini!InTimeOrder(First(sample))
          \/ pending = <<Second(sample)>> /\ calls > 0 /\ last = First(sample)

CallsInv == calls \in Nat /\ (Undisturbed => RoundsInOrder)

InOrderInv == TypeOK /\ ConnectedInv /\ FollowedInv /\ QuietInv /\ CallsInv

LEMMA InitCalls == SystemInit => CallsInv
BY DEF SystemInit, Mini!MiniInit, Mini!BaseInit, CallsInv, RoundsInOrder

\* Who takes part in the rounds after a step did so before it.
LEMMA UndisturbedBefore ==
  ASSUME TypeOK, [Next]_vars, Undisturbed'
  PROVE  Undisturbed
BY NoStrays DEF Undisturbed, NoForeignRounds

\* A call reads and sends nothing, and sends nobody elsewhere.
LEMMA CallQuiet ==
  ASSUME QuietInv, AddDataPoint
  PROVE  QuietInv'
BY DEF AddDataPoint, QuietInv, Greeting, Redirected, NoForeignRounds, OfRound, netVars, refVars

\* Nothing but a completed round hands a sample on, and a SyncNode that has
\* failed stays so.
LEMMA OtherSteps ==
  ASSUME SyncAttempts \/ RefNext \/ NetworkNext
  PROVE  UNCHANGED sample /\ (sync_pc = "failed" => sync_pc' = "failed")
<1>1. CASE SyncAttempts
  BY <1>1 DEF SyncAttempts, SendHandshake, SendHandshakeFails, HandshakeTimeout,
     RecvHandshakeReply, SendBeacon, BeaconTimeout, MalformedMessage, IgnoreMessage
<1>2. CASE RefNext
  BY <1>2 DEF RefNext, AcceptHandshake, RefuseHandshake, RecvBeacon, SendReply,
     RecvGoodBye, DropMessage, syncVars
<1>3. ASSUME NEW p \in packets, Unreachable(p)
      PROVE  UNCHANGED sample /\ (sync_pc = "failed" => sync_pc' = "failed")
  BY <1>3 DEF Unreachable, Running
<1>4. ASSUME Tick \/ (\E p \in packets : Arrive(p)) \/ (\E node \in Nodes : Stray(node))
      PROVE  UNCHANGED syncVars
  BY <1>4 DEF Tick, Arrive, Stray
<1> QED
  BY <1>1, <1>2, <1>3, <1>4 DEF NetworkNext, syncVars

LEMMA CompleteRoundInOrder ==
  ASSUME Prompt, Measured, InOrderInv, pending = <<>>, CompleteRound
  PROVE  InOrderInv'
<1>1. RecvBeaconReply /\ [Next]_vars /\ UNCHANGED algoVars /\ pending' = DataPoints(sample')
  BY DEF CompleteRound, Next, SyncNext
<1>2. TypeOK' /\ ConnectedInv' /\ FollowedInv' /\ QuietInv'
  BY <1>1, SessionKeeps, NextQuiet DEF InOrderInv
<1>3. calls' = calls /\ calls \in Nat
  BY <1>1 DEF algoVars, InOrderInv, CallsInv
<1>4. CASE ~Undisturbed'
  BY <1>2, <1>3, <1>4 DEF InOrderInv, CallsInv
<1>5. SUFFICES ASSUME Undisturbed' PROVE InOrderInv'
  BY <1>4
<1>6. Undisturbed /\ RoundsInOrder
  BY <1>1, <1>5, UndisturbedBefore DEF InOrderInv, CallsInv
<1>7. Followed /\ TimingInv
  BY <1>1, <1>6, ReplyFollowed DEF Undisturbed, InOrderInv, FollowedInv
<1>8. /\ sample'.tbr < sample'.tbt
      /\ sample # NoSample => /\ sample.tbt < sample'.tbr
                              /\ sample.to < sample'.to
                              /\ sample.tr < sample'.tr
  BY <1>1, <1>2, <1>7, NextSample DEF InOrderInv
<1>9. sample' # NoSample
  BY <1>1, <1>7, FirstReply DEF InOrderInv, TimingInv
<1>10. pending' = <<First(sample)', Second(sample)'>>
  BY <1>1 DEF DataPoints, First, Second
<1>11. calls' = calls /\ last' = last
  BY <1>1 DEF algoVars
<1>12. ASSUME calls > 0 PROVE Mini!InTimeOrder(First(sample))'
  <2>1. sync_pc = "await"
    BY <1>1 DEF RecvBeaconReply
  <2>2. sample # NoSample /\ last = Second(sample)
    BY <1>12, <1>6, <2>1 DEF RoundsInOrder
  <2>3. last.to = sample.to /\ last.tb = sample.tbt /\ last.tr = sample.tr
    BY <2>2 DEF Second
  <2>4. /\ sample \in [to : Int, tbr : Int, tbt : Int, tr : Int]
        /\ sample' \in [to : Int, tbr : Int, tbt : Int, tr : Int]
    BY <1>2 DEF InOrderInv, TypeOK
  <2> QED
    BY <1>8, <1>11, <2>2, <2>3, <2>4 DEF Mini!InTimeOrder, First
<1>13. CallsInv'
  BY <1>8, <1>9, <1>10, <1>11, <1>12, <1>3 DEF CallsInv, RoundsInOrder
<1> QED
  BY <1>2, <1>13 DEF InOrderInv

\* A call adds the point it is given, after the last one.
LEMMA CallInOrder ==
  ASSUME InOrderInv, AddDataPoint
  PROVE  /\ calls' = calls + 1 /\ last' = Head(pending)
         /\ Undisturbed /\ calls > 0 => Mini!InTimeOrder(Head(pending))
<1>1. calls' = calls + 1 /\ last' = Head(pending)
  BY DEF AddDataPoint, Mini!MiniStore, Mini!Store, Mini!MiniRecalculate, Mini!Recalculates, Mini!Arrives
<1>2. pending # <<>>
  BY DEF AddDataPoint
<1> SUFFICES ASSUME Undisturbed PROVE calls > 0 => Mini!InTimeOrder(Head(pending))
  BY <1>1
<1>3. CASE pending = <<First(sample), Second(sample)>>
  BY <1>1, <1>2, <1>3 DEF InOrderInv, CallsInv, RoundsInOrder
<1>4. CASE pending = <<Second(sample)>> /\ calls > 0 /\ last = First(sample)
  <2>1. /\ Head(pending).tb = sample.tbt /\ Head(pending).to = sample.to /\ Head(pending).tr = sample.tr
        /\ last.tb = sample.tbr /\ last.to = sample.to /\ last.tr = sample.tr
    BY <1>4 DEF First, Second
  <2>2. sample.tbr < sample.tbt
    BY <1>2 DEF InOrderInv, CallsInv, RoundsInOrder
  <2>3. sample \in [to : Int, tbr : Int, tbt : Int, tr : Int]
    BY DEF InOrderInv, TypeOK
  <2> QED
    BY <1>1, <2>1, <2>2, <2>3 DEF Mini!InTimeOrder
<1> QED
  BY <1>2, <1>3, <1>4 DEF InOrderInv, CallsInv, RoundsInOrder

LEMMA AddDataPointInOrder ==
  ASSUME Prompt, InOrderInv, AddDataPoint
  PROVE  InOrderInv'
<1>1. TypeOK' /\ ConnectedInv' /\ FollowedInv' /\ QuietInv'
  BY CallKeeps, CallQuiet DEF InOrderInv
<1>2. calls' = calls + 1 /\ last' = Head(pending) /\ calls \in Nat /\ pending # <<>> /\ sample' = sample
  BY CallInOrder DEF InOrderInv, CallsInv, AddDataPoint
<1>3. calls' \in Nat /\ (First(sample))' = First(sample) /\ (Second(sample))' = Second(sample)
  BY <1>2 DEF First, Second
<1>4. Undisturbed' = Undisturbed
  BY DEF AddDataPoint, Undisturbed, NoForeignRounds, netVars, faults
<1>5. ASSUME pending' = <<>>, sync_pc' = "failed" PROVE CallsInv'
  BY <1>3, <1>5 DEF CallsInv, RoundsInOrder
<1>6. ASSUME pending' = Tail(pending), Undisturbed PROVE CallsInv'
  <2>1. sample # NoSample /\ sample.tbr < sample.tbt
    BY <1>2, <1>6 DEF InOrderInv, CallsInv, RoundsInOrder
  <2>2. CASE pending = <<First(sample), Second(sample)>>
    <3>1. last' = First(sample) /\ pending' = <<Second(sample)>> /\ calls' > 0
      BY <1>2, <1>6, <2>2
    <3> QED
      BY <1>2, <1>3, <2>1, <3>1 DEF CallsInv, RoundsInOrder
  <2>3. CASE pending = <<Second(sample)>>
    <3>1. last' = Second(sample) /\ pending' = <<>>
      BY <1>2, <1>6, <2>3
    <3> QED
      BY <1>2, <1>3, <2>1, <3>1 DEF CallsInv, RoundsInOrder
  <2> QED
    BY <1>2, <1>6, <2>2, <2>3 DEF InOrderInv, CallsInv, RoundsInOrder
<1>7. CallsInv'
  BY <1>3, <1>5, <1>6, <1>4 DEF AddDataPoint, CallsInv
<1> QED
  BY <1>1, <1>7 DEF InOrderInv

LEMMA NextInOrder ==
  ASSUME Prompt, Measured, InOrderInv, [SystemNext]_systemVars
  PROVE  InOrderInv'
<1>1. CASE AddDataPoint
  BY <1>1, AddDataPointInOrder
<1>2. CASE pending = <<>> /\ CompleteRound
  BY <1>2, CompleteRoundInOrder
<1>3. CASE /\ pending = <<>>
           /\ SyncAttempts \/ RefNext \/ NetworkNext
           /\ UNCHANGED <<algoVars, pending>>
  <2>1. TypeOK' /\ ConnectedInv' /\ FollowedInv' /\ QuietInv' /\ (Undisturbed' => Undisturbed)
    BY <1>3, SessionKeeps, NextQuiet, UndisturbedBefore DEF InOrderInv, Next, SyncNext
  <2>2. UNCHANGED <<calls, last, pending, sample>> /\ (sync_pc = "failed" => sync_pc' = "failed")
    BY <1>3, OtherSteps DEF algoVars
  <2>3. CallsInv'
    BY <1>3, <2>1, <2>2 DEF InOrderInv, CallsInv, RoundsInOrder, Second
  <2> QED
    BY <2>1, <2>3 DEF InOrderInv
<1>4. CASE UNCHANGED systemVars
  <2>1. UNCHANGED vars /\ UNCHANGED <<calls, last, pending, sample, sync_pc>>
    BY <1>4 DEF systemVars, algoVars, vars, syncVars
  <2>2. TypeOK' /\ ConnectedInv' /\ FollowedInv' /\ QuietInv' /\ (Undisturbed' => Undisturbed)
    BY <2>1, SessionKeeps, NextQuiet, UndisturbedBefore DEF InOrderInv
  <2>3. CallsInv'
    BY <2>1, <2>2 DEF InOrderInv, CallsInv, RoundsInOrder, First, Second, Mini!InTimeOrder
  <2> QED
    BY <2>2, <2>3 DEF InOrderInv
<1> QED
  BY <1>1, <1>2, <1>3, <1>4 DEF SystemNext

LEMMA InOrderSteps ==
  ASSUME Prompt, Measured
  PROVE  SystemSpec => []InOrderInv
<1>1. SystemInit => InOrderInv
  <2> SUFFICES ASSUME SystemInit PROVE InOrderInv
    OBVIOUS
  <2>1. TypeOK /\ ConnectedInv /\ FollowedInv
    BY InitSystem DEF SystemInv
  <2>2. CallsInv /\ QuietInv
    BY InitCalls, InitQuiet DEF SystemInit
  <2> QED
    BY <2>1, <2>2 DEF InOrderInv
<1> QED
  BY <1>1, NextInOrder, PTL DEF SystemSpec

(***************************************************************************)
(* A session adds its data points to the algorithm in the order it         *)
(* assumes, two to a round and round after round: for all those timings,   *)
(* whatever is lost, late, reordered or duplicated, and whatever other     *)
(* programs send or accept, unless they send beacons or replies to them.   *)
(***************************************************************************)
THEOREM SystemCallsInOrder ==
  ASSUME Prompt, Measured
  PROVE  SystemSpec => CallsInOrder
<1>1. ASSUME InOrderInv, [SystemNext]_systemVars
      PROVE  (strays = 0 \/ NoForeignRounds) /\ calls' # calls /\ calls > 0 =>
               Mini!InTimeOrder(last')
  <2>1. calls' # calls => AddDataPoint
    BY <1>1 DEF SystemNext, CompleteRound, algoVars, systemVars
  <2> QED
    BY <1>1, <2>1, CallInOrder DEF Undisturbed
<1>2. InOrderInv /\ [SystemNext]_systemVars =>
        [(strays = 0 \/ NoForeignRounds) /\ calls' # calls /\ calls > 0 =>
           Mini!InTimeOrder(last')]_systemVars
  BY <1>1
<1> QED
  BY <1>2, InOrderSteps, PTL DEF SystemSpec, CallsInOrder

---------------------------------------------------------------------------
(* The checks of the algorithm *)

LEMMA SameSlopes == \A s :
  /\ Mini!LowSlopes(s) = B!LowSlopes(s)
  /\ Mini!HighSlopes(s) = B!HighSlopes(s)
BY SamePoints DEF Mini!LowSlopes, B!LowSlopes, Mini!HighSlopes, B!HighSlopes,
       Mini!NewSlopes, B!NewSlopes, Mini!NewLow, B!NewLow, Mini!NewHigh, B!NewHigh,
       Mini!Point, B!Point

LEMMA SameStays == \A points, slopes, pinned, sign :
  Mini!Stays(points, slopes, pinned, sign) = B!Stays(points, slopes, pinned, sign)
BY DEF Mini!Stays, B!Stays, Mini!Ends, B!Ends, Mini!After, B!After,
       Mini!Uncached, B!Uncached, Mini!Bends, B!Bends

LEMMA SameThrowers == \A points, slopes, pinned, sign :
  Mini!Throwers(points, slopes, pinned, sign) = B!Throwers(points, slopes, pinned, sign)
BY DEF Mini!Throwers, B!Throwers, Mini!Stays, B!Stays, Mini!Ends, B!Ends, Mini!After, B!After,
       Mini!Uncached, B!Uncached, Mini!Bends, B!Bends

LEMMA SameKept == \A points, slopes, pinned, sign :
  Mini!Kept(points, slopes, pinned, sign) = B!Kept(points, slopes, pinned, sign)
BY SameStays, SameThrowers DEF Mini!Kept, B!Kept

LEMMA SameForget == \A slopes, erased : Mini!Forget(slopes, erased) = B!Forget(slopes, erased)
BY DEF Mini!Forget, B!Forget

LEMMA SameCleanup == \A s :
  /\ Mini!KeptLow(s) = B!KeptLow(s) /\ Mini!KeptHigh(s) = B!KeptHigh(s)
  /\ Mini!LowThrows(s) = B!LowThrows(s) /\ Mini!HighThrows(s) = B!HighThrows(s)
<1>1. Mini!PinnedLow' = B!PinnedLow' /\ Mini!PinnedHigh' = B!PinnedHigh'
  BY DEF Mini!PinnedLow, B!PinnedLow, Mini!PinnedHigh, B!PinnedHigh
<1> QED
  BY <1>1, SamePoints, SameSlopes, SameKept, SameThrowers
     DEF Mini!KeptLow, B!KeptLow, Mini!KeptHigh, B!KeptHigh,
         Mini!LowThrows, B!LowThrows, Mini!HighThrows, B!HighThrows

LEMMA SameMiniStore == \A s : Mini!MiniStore(s) => B!MiniStore(s)
BY SameStore, SameSlopes DEF Mini!MiniStore, B!MiniStore

LEMMA SameMiniRecalculate == \A s : Mini!MiniRecalculate(s) => B!MiniRecalculate(s)
<1> SUFFICES ASSUME NEW s, Mini!MiniRecalculate(s) PROVE B!MiniRecalculate(s)
  OBVIOUS
<1>1. B!Recalculates(s)
  BY SameRecalculates DEF Mini!MiniRecalculate
<1>2. CASE Mini!MiniCleanup(s) /\ Mini!Publish
  <2>1. B!MiniCleanup(s)
    BY <1>2, SamePoints, SameSlopes, SameCleanup, SameForget, SamePrune
       DEF Mini!MiniCleanup, B!MiniCleanup
  <2> QED
    BY <1>1, <1>2, <2>1, SamePublish DEF B!MiniRecalculate
<1>3. CASE Mini!MiniLowThrows(s)
  <2>1. B!MiniLowThrows(s)
    BY <1>3, SamePoints, SameSlopes, SameCleanup, SameForget, SameThrows
       DEF Mini!MiniLowThrows, B!MiniLowThrows
  <2> QED
    BY <1>1, <2>1 DEF B!MiniRecalculate
<1>4. CASE Mini!MiniHighThrows(s)
  <2>1. B!MiniHighThrows(s)
    BY <1>4, SamePoints, SameSlopes, SameCleanup, SameForget, SameThrows
       DEF Mini!MiniHighThrows, B!MiniHighThrows
  <2> QED
    BY <1>1, <2>1 DEF B!MiniRecalculate
<1> QED
  BY <1>2, <1>3, <1>4 DEF Mini!MiniRecalculate

\* The points of a round are from after the reference's start.
LaterInv == strays = 0 => \A i \in DOMAIN pending : pending[i].tb > 0

\* No check has failed, and none will: the algorithm has not been used, or all
\* that holds of it with samples in time order holds for that offset.
ChecksInv ==
  strays = 0 =>
    /\ outcome \notin Failures
    /\ B!AllAfterStart
    /\ B!SlopeInv
    /\ B!MiniInit \/ (Started /\ \E o \in Int : o = Apart /\ B!TurnInv(1, o))

FaultlessInv == SystemInv /\ QuietInv /\ CallsInv /\ LaterInv /\ ChecksInv

LEMMA InitChecks == SystemInit => LaterInv /\ ChecksInv
<1> SUFFICES ASSUME SystemInit PROVE LaterInv /\ ChecksInv
  OBVIOUS
<1>1. B!MiniInit
  BY DEF SystemInit, Mini!MiniInit, Mini!BaseInit, B!MiniInit, B!BaseInit, Mini!NoPair, B!NoPair,
         Mini!NoPoint, B!NoPoint, Mini!Point, B!Point, Mini!Infinity, B!Infinity,
         Mini!NoEstimate, B!NoEstimate
<1>2. B!SlopeInv
  BY <1>1, B!InitSlopes, BaseAssumptions
<1>3. B!AllAfterStart /\ outcome = "none"
  BY <1>1 DEF B!MiniInit, B!BaseInit, B!AllAfterStart
<1>4. LaterInv
  BY DEF SystemInit, LaterInv
<1> QED
  BY <1>1, <1>2, <1>3, <1>4 DEF ChecksInv, Failures

\* A step that does not touch the algorithm keeps what holds of it.
LEMMA ChecksKept ==
  ASSUME TypeOK, ConnectedInv, ChecksInv, [Next]_vars, UNCHANGED algoVars
  PROVE  ChecksInv'
<1> SUFFICES ASSUME strays' = 0
             PROVE  /\ outcome' \notin Failures /\ B!AllAfterStart' /\ B!SlopeInv'
                    /\ B!MiniInit' \/ (Started' /\ \E o \in Int : o = Apart' /\ B!TurnInv(1, o)')
  BY DEF ChecksInv, Failures
<1>1. UNCHANGED B!miniVars /\ UNCHANGED B!baseVars /\ strays = 0
  BY NoStrays DEF algoVars, B!miniVars, B!baseVars
<1>2. outcome \notin Failures /\ B!AllAfterStart /\ B!SlopeInv
  BY <1>1 DEF ChecksInv
<1>3. outcome' \notin Failures /\ B!AllAfterStart'
  BY <1>1, <1>2 DEF B!miniVars, B!AllAfterStart
<1>4. B!SlopeInv'
  BY <1>1, <1>2, B!StutterSlopes, BaseAssumptions
<1>5. CASE B!MiniInit
  <2>1. B!MiniInit'
    BY <1>1, <1>5 DEF B!MiniInit, B!BaseInit, B!miniVars
  <2> QED
    BY <1>3, <1>4, <2>1
<1>6. CASE Started /\ \E o \in Int : o = Apart /\ B!TurnInv(1, o)
  <2>1. PICK o \in Int : o = Apart /\ B!TurnInv(1, o)
    BY <1>6
  <2>2. Started' /\ o = Apart'
    BY <1>6, <2>1, StaysStarted DEF Started, Apart
  <2>3. B!TurnInv(1, o)'
    <3>1. ASSUME NEW m \in Int, m = 1 PROVE B!TurnInv(m, o)'
      <4>1. B!TurnInv(m, o)
        BY <2>1, <3>1
      <4> QED
        BY <1>1, <4>1, B!StutterTurn, BaseAssumptions
    <3> QED
      BY <3>1
  <2> QED
    BY <1>3, <1>4, <2>2, <2>3
<1> QED
  BY <1>1, <1>5, <1>6 DEF ChecksInv

LEMMA CompleteRoundFaultless ==
  ASSUME Prompt, Measured, FaultlessInv, pending = <<>>, CompleteRound
  PROVE  FaultlessInv'
<1>1. RecvBeaconReply /\ [Next]_vars /\ UNCHANGED algoVars /\ pending' = DataPoints(sample')
  BY DEF CompleteRound, Next, SyncNext
<1>2. SystemInv' /\ QuietInv' /\ CallsInv'
  BY CompleteRoundKeeps, CompleteRoundInOrder DEF FaultlessInv, SystemInv, InOrderInv
<1>3. ChecksInv'
  BY <1>1, ChecksKept DEF FaultlessInv, SystemInv
<1>4. LaterInv'
  <2> SUFFICES ASSUME strays' = 0 PROVE \A i \in DOMAIN pending' : pending'[i].tb > 0
    BY DEF LaterInv
  <2>1. TypeOK /\ TypeOK' /\ ConnectedInv /\ Followed /\ TimingInv /\ Tidy
    BY <1>1, <1>2, NoStrays DEF FaultlessInv, SystemInv, FollowedInv, Followed, Tidy
  <2>2. SyncBeacon <= sample'.tbr /\ sample'.tbr < sample'.tbt /\ SyncBeacon > 0
    BY <1>1, <2>1, NewSampleSound, NextSample DEF Measured
  <2>3. sample'.tbr \in Int /\ sample'.tbt \in Int /\ SyncBeacon \in Nat
    BY <2>1, Constants DEF TypeOK
  <2>4. sample'.tbr > 0 /\ sample'.tbt > 0
    BY <2>2, <2>3
  <2> QED
    BY <1>1, <2>4 DEF DataPoints
<1> QED
  BY <1>2, <1>3, <1>4 DEF FaultlessInv

\* The next point of a round is one the algorithm has been proved to take.
LEMMA NextPoint ==
  ASSUME FaultlessInv, AddDataPoint, strays = 0
  PROVE  /\ Started
         /\ B!Brackets(Head(pending), 1, Apart)
         /\ B!InTurn(Head(pending)) /\ Head(pending).tb > 0
<1>1. /\ pending # <<>> /\ pending \in Seq([to : Int, tb : Int, tr : Int]) /\ Started
      /\ \A i \in DOMAIN pending : B!Brackets(pending[i], 1, Apart) /\ pending[i].tb > 0
  BY DEF FaultlessInv, SystemInv, PendingInv, LaterInv, AddDataPoint
<1>2. Head(pending) = pending[1] /\ 1 \in DOMAIN pending
  BY <1>1
<1>3. B!Brackets(Head(pending), 1, Apart) /\ Head(pending).tb > 0
  BY <1>1, <1>2
<1>4. calls > 0 => B!InTimeOrder(Head(pending))
  BY CallInOrder
     DEF FaultlessInv, SystemInv, InOrderInv, Undisturbed, Mini!InTimeOrder, B!InTimeOrder
<1>5. Apart \in Int
  BY DEF FaultlessInv, SystemInv, TypeOK, Apart
<1>6. /\ Head(pending).to \in Int /\ Head(pending).tb \in Nat /\ Head(pending).tr \in Int
      /\ Head(pending).to <= Head(pending).tr
  BY <1>3, <1>5 DEF B!Brackets
<1> QED
  BY <1>1, <1>3, <1>4, <1>6 DEF B!InTurn

\* And it takes it.
LEMMA CallSucceeds ==
  ASSUME FaultlessInv, AddDataPoint, strays = 0
  PROVE  /\ outcome' \notin Failures /\ B!AllAfterStart' /\ B!SlopeInv'
         /\ \E o \in Int : o = Apart /\ B!TurnInv(1, o)'
<1> DEFINE s == Head(pending)
<1>1. PICK o \in Int : o = Apart
  BY DEF FaultlessInv, SystemInv, TypeOK, Apart
<1>2. PICK m \in Int : m = 1
  OBVIOUS
<1>3. B!Brackets(s, m, o) /\ B!InTurn(s) /\ s.tb > 0
  BY <1>1, <1>2, NextPoint
<1>4. B!MiniStore(s) \/ B!MiniRecalculate(s)
  BY SameMiniStore, SameMiniRecalculate DEF AddDataPoint
<1> HIDE DEF s
<1>5. B!SlopeInv /\ B!AllAfterStart
  BY DEF FaultlessInv, ChecksInv
<1>6. B!TurnInv(m, o)
  <2>1. CASE B!MiniInit
    <3>1. B!BaseInit
      BY <2>1 DEF B!MiniInit
    <3> QED
      BY <3>1, B!InitTurn, BaseAssumptions
  <2>2. CASE \E p \in Int : p = Apart /\ B!TurnInv(1, p)
    BY <1>1, <1>2, <2>2
  <2> QED
    BY <2>1, <2>2 DEF FaultlessInv, ChecksInv
<1>7. CASE B!MiniStore(s)
  <2>1. B!Store(s)
    BY <1>7 DEF B!MiniStore
  <2>2. B!TurnInv(m, o)'
    BY <1>3, <1>6, <2>1, B!StoreTurn, BaseAssumptions
  <2>3. B!SlopeInv'
    BY <1>3, <1>5, <1>7, B!MiniStoreSlopes, BaseAssumptions
  <2>4. B!AllAfterStart'
    <3>1. B!OrderInv
      BY <1>6 DEF B!TurnInv, B!StoredInv
    <3> QED
      BY <1>3, <1>5, <2>1, <3>1, B!StaysAfterStart, BaseAssumptions
  <2>5. outcome' = "stored"
    BY <2>1 DEF B!Store
  <2> QED
    BY <1>1, <1>2, <2>2, <2>3, <2>4, <2>5 DEF Failures
<1>8. CASE B!MiniRecalculate(s)
  <2>1. B!Completes(s)
    BY <1>3, <1>5, <1>8, B!MiniCompletes, BaseAssumptions
  <2>2. B!TurnInv(m, o)'
    BY <1>3, <1>6, <2>1, B!CompletesTurn, BaseAssumptions
  <2>3. B!SlopeInv'
    BY <1>3, <1>5, <1>8, B!MiniRecalculateSlopes, BaseAssumptions
  <2>4. B!AllAfterStart'
    <3>1. B!OrderInv
      BY <1>6 DEF B!TurnInv, B!StoredInv
    <3> QED
      BY <1>3, <1>5, <2>1, <3>1, B!StaysAfterStart, BaseAssumptions
  <2>5. outcome' = "ok"
    BY <1>3, <1>5, <1>6, <2>1, B!CompletesOk, BaseAssumptions
  <2> QED
    BY <1>1, <1>2, <2>2, <2>3, <2>4, <2>5 DEF Failures
<1> QED
  BY <1>4, <1>7, <1>8

LEMMA AddDataPointFaultless ==
  ASSUME Prompt, FaultlessInv, AddDataPoint
  PROVE  FaultlessInv'
<1>1. SystemInv' /\ QuietInv' /\ CallsInv'
  BY AddDataPointKeeps, AddDataPointInOrder DEF FaultlessInv, SystemInv, InOrderInv
<1>2. strays' = strays /\ Apart' = Apart /\ (Started => Started')
  BY DEF AddDataPoint, netVars, faults, refVars, Apart, Started, Accepted, Greeting
<1>3. ChecksInv'
  BY <1>2, NextPoint, CallSucceeds DEF ChecksInv, Failures
<1>4. LaterInv'
  <2> SUFFICES ASSUME strays = 0 PROVE \A i \in DOMAIN pending' : pending'[i].tb > 0
    BY <1>2 DEF LaterInv
  <2>1. /\ pending # <<>> /\ pending \in Seq([to : Int, tb : Int, tr : Int])
        /\ \A i \in DOMAIN pending : pending[i].tb > 0
        /\ pending' \in {<<>>, Tail(pending)}
    BY DEF FaultlessInv, SystemInv, PendingInv, LaterInv, AddDataPoint
  <2>2. CASE pending' = Tail(pending)
    <3>1. \A i \in DOMAIN pending' : i + 1 \in DOMAIN pending /\ pending'[i] = pending[i + 1]
      BY <2>1, <2>2
    <3> QED
      BY <2>1, <3>1
  <2>3. CASE pending' = <<>>
    BY <2>3
  <2> QED
    BY <2>1, <2>2, <2>3
<1> QED
  BY <1>1, <1>3, <1>4 DEF FaultlessInv

LEMMA NextFaultless ==
  ASSUME Prompt, Measured, FaultlessInv, [SystemNext]_systemVars
  PROVE  FaultlessInv'
<1>1. CASE AddDataPoint
  BY <1>1, AddDataPointFaultless
<1>2. CASE pending = <<>> /\ CompleteRound
  BY <1>2, CompleteRoundFaultless
<1>3. ASSUME [Next]_vars, UNCHANGED <<algoVars, pending>>, SystemInv', QuietInv', CallsInv'
      PROVE  FaultlessInv'
  <2>1. ChecksInv'
    BY <1>3, ChecksKept DEF FaultlessInv, SystemInv
  <2>2. LaterInv'
    BY <1>3, NoStrays DEF FaultlessInv, SystemInv, LaterInv
  <2> QED
    BY <1>3, <2>1, <2>2 DEF FaultlessInv
<1>4. InOrderInv' /\ SystemInv'
  BY NextInOrder, NextKeeps DEF FaultlessInv, SystemInv, InOrderInv
<1>5. CASE /\ pending = <<>>
           /\ SyncAttempts \/ RefNext \/ NetworkNext
           /\ UNCHANGED <<algoVars, pending>>
  BY <1>3, <1>4, <1>5 DEF Next, SyncNext, InOrderInv
<1>6. CASE UNCHANGED systemVars
  BY <1>3, <1>4, <1>6 DEF systemVars, InOrderInv
<1> QED
  BY <1>1, <1>2, <1>5, <1>6 DEF SystemNext

(***************************************************************************)
(* The algorithm never makes a session fail that nothing strayed into: its *)
(* samples find a pair of constraints, whose drift is not negative, and    *)
(* the caches hold all that cleanup() looks up.                            *)
(***************************************************************************)
THEOREM SystemNeverFails ==
  ASSUME Prompt, Measured
  PROVE  SystemSpec => []NeverFails
<1>1. SystemInit => FaultlessInv
  BY InitSystem, InitCalls, InitQuiet, InitChecks DEF FaultlessInv, SystemInit
<1>2. FaultlessInv /\ [SystemNext]_systemVars => FaultlessInv'
  BY NextFaultless
<1>3. FaultlessInv => NeverFails
  BY DEF FaultlessInv, ChecksInv, NeverFails
<1> QED
  BY <1>1, <1>2, <1>3, PTL DEF SystemSpec
=============================================================================
