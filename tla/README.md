# MiniSynCPP in TLA+

MiniSynCPP estimates the drift and the offset of a local clock relative to a
reference clock (`src/libminisyncpp`, the TinySync and MiniSync algorithms), and
has a demo program that runs the algorithm over UDP (`src/demo`). These modules
model the algorithms, the session of the demo program, and the program around
it from its start to its end; TLC checks them on small instances and TLAPS
proves the main results for all values of the constants. Line numbers refer to
`src/src/libminisyncpp/minisync.cpp` and `src/src/demo/node.cpp` unless a file is
named.

## The system

| Component | State | Operations | Modelled in |
|---|---|---|---|
| Points and lines (`constraints.h`, `.cpp`) | immutable | a line through a low and a high point | `Constraints` |
| `Algorithms::Base` | point sets, constraint maps, current pair, `diff_factor`, counter, estimate | `addDataPoint` (add points, add constraints, select, `cleanup`, publish) | `SyncBase` |
| `TinySync` | that of Base | `cleanup` | `TinySync` |
| `MiniSync` | that of Base and two slope caches | `addLowPoint`, `addHighPoint`, `cleanup` | `MiniSync` |
| `SyncNode` | socket, peer address, start, `seq`, the times of the round | `handshake`, `sync` | `Session`, `Exchange` |
| `ReferenceNode` | socket, start | `wait_for_handshake`, `serve` | `Session`, `Exchange` |
| UDP, sockets, other programs | datagrams under way, socket queues | deliver in any order, lose, duplicate, stray | `Session`, `Exchange` (external) |
| `SyncNode` with its algorithm | the points of a round not yet added | two `addDataPoint` to a round | `System` |
| Calibration (`Node::Node`) | loop counters, clocks and minimum delays of two threads | loopback rounds | `Calibration` |
| `SyncStats`, `main`, signals | samples, the file, the node pointer, the socket's number | `add_sample`, `write_csv`, `shut_down`, `delete` | `Program` |
| Factory, exceptions, Python bindings, scripts | none | forwarding, build, plots | left out |

`main` reads its options, constructs a node, which calibrates itself, runs it and
deletes it, which writes the statistics; SIGINT calls `shut_down` of the node at
any time. A `SyncNode` owns one Algorithm object and calls it from one thread. It
sends a beacon at `To`, the reference reports when it received it (`Tbr`) and
answered (`Tbt`), the answer is received at `Tr`, and the node adds the two data
points `(To, Tbr, Tr)` and `(To, Tbt, Tr)`. The nodes share nothing but datagrams;
each measures time from its own `start`, which the handshake sets.

What is hard here:

* The algorithm is sequential, but the future decides whether what it throws
  away was needed; its caches, sets and current pair must agree over long
  sequences of calls, and the estimate must hold the truth at every one of them.
* Degenerate inputs: repeated or unordered reference times, a zero error, a zero
  drift, the wrap of the 32-bit counter.
* The session: loss, delay, duplication and reordering meet timeouts that repeat
  a message under the same number, an 8-bit number that wraps, socket queues that
  outlive a round, an address buffer with two uses, a peer that is gone, and other
  programs, whose datagrams no node tells from its peer's until it is connected.
* Progress: a handshake reply that is sent once, messages that are ignored while
  the wait for another starts anew, two threads of a constructor that wait for
  each other without a timeout.
* Signals: a handler that closes a socket under the thread that reads it, under
  a file that got its number, or after the node is gone.

The properties that make each part correct are the ones the modules below
state; `PROJECT.json` lists the hazards line by line, each with the properties
that would catch it going wrong.

## Modules

**`Constraints`**: points, lines and estimates. Timestamps are integers in any
unit, and every quotient is kept as an exact numerator and denominator. Rounding
of `long double` is not modelled. A point carries the number of the call that
allocated it, because the code compares `shared_ptr`s, not coordinates.

**`SyncBase`**: `Algorithms::Base`. One call of `addDataPoint` is one step:
`Store` for a call that does not recalculate (the counter is 0 or 1 after it),
`Recalculate` for one that does. `Select` is the loop over both constraint maps;
which of several equally tight pairs wins depends on the order of an
`unordered_map` and is nondeterministic. `cleanup` is virtual, and `SyncBase`
lets it keep any points as long as it keeps those the current constraints rest
on, or end with an exception: that is the specification both algorithms are
shown to implement. `outcome` records how a call ended. In a build with Loguru a
failed check aborts the process (`Aborted`), in one without it throws and the
object stays in use. Constants: the `Samples` a caller may add, the true `Slope`
and `Offset` (every sample brackets the truth, which is what a time stamp is),
`Ordered` (samples come in time order, as line 118 assumes), `Loguru`,
`CounterLimit` (2^32 in the code) and the bound `MaxCalls`.

**`TinySync`**, **`MiniSync`**: the two `cleanup`s. In `MiniSync` the loop that
erases while it walks is the recursive function in `Stays`: a point stays if it
is pinned or bends between an earlier point *that stays* and a later one (the
comment at 320-323 reads as if erased points counted; `MiniOptimal` shows that
nothing is lost by it). A missing slope makes `at()` throw: `MiniLowThrows` and
`MiniHighThrows` are the two places, with exactly what has been erased by then.

**`OptimalSync`**: what MiniSync promises, on two variables: all samples, and the
estimate of a tightest pair of lines through any of them. **`SideBySide`** feeds
both algorithms with the same samples, as the second test case of
`tests.cpp` does, and maps MiniSync to `OptimalSync`.

**`Session`**: the two nodes and the network. `sync_pc` and `ref_pc` are where
each program is; an action is what a program does from one blocking call to the
next. `sendto` puts a datagram under way (`packets`), `Arrive` moves it to the
socket's `queue` if the socket is unconnected or connected to the sender and the
queue has room, `Receive` is `recvfrom`. A datagram may take
`MinLatency..MaxLatency` ticks, be overtaken, never arrive, or arrive and stay
under way (a duplicate). `Stray` is a datagram of another program, of any content
in the constant `Foreign`: nonsense, a goodbye, the handshake or beacon of another
SyncNode, the replies of another ReferenceNode. It stands for an answer to what a
node has sent elsewhere, too. The code never compares a sender with the peer it
was given: a SyncNode connects to whoever reports a success, and a reference to
whoever greets it first. `connect` does not empty the queue.
`Unreachable` is the error that a socket connected to a program that has ended
reports. A read times out only on an empty queue. `to`, `tbr`, `tbt`, `tr` are
measured from each node's own start and adjusted by the minimum delays as the
code does; `sample` holds what the last round handed to `addDataPoint`.
`compatible` says how the version and mode checks of the reference turn out. A
node is started once: nothing is persisted, so a program started again is a new
node, whose handshakes, beacons and replies a running one meets as those of
another program.

**`Exchange`**: the same session without its times. A datagram may be late beyond
any bound, copies of it may arrive for ever, and a timeout may come whenever
nothing waits to be read. A program elsewhere answers what it is sent, with
anything in `Foreign` and as often as it is sent something (`Answer`); what it sends
unasked (`Stray`) is bounded. Its state is finite without a bound on time, so it is
where liveness is checked; `Session` is shown to implement it, so that what the
exchange cannot do no timing of the session does.

**`System`**: a `Session` whose SyncNode feeds `MiniSync`, as `main.cpp` sets it
up. `CompleteRound` hands the two points of a round to `AddDataPoint`, which calls
the algorithm; a failed check or an exception ends the program. Nothing is assumed
of the samples here: they are what the session produces.

**`Calibration`**: the constructor of `Node`. The main thread sends beacons over
the loopback interface (`SendBeacon`, `RecvReply`), the second thread answers
them (`Echo`), both wait without a timeout. The sockets of several nodes share
port 5555 by SO_REUSEADDR, and a beacon reaches any that is bound. A delay of
`Transit` passes while a datagram is under way and one of `Pauses` while the
second thread works; `Rounds` and `Considered` are 5000 and 1000 in the code.

**`Program`**: `main` from the construction of its node (`Calibration`) to its
end. A port that cannot be bound aborts it there (`ConstructFails`). Of `run()` it
has what ends its loops: a message or timeout after which the next pass asks
`running`, a refusal, a goodbye, a failing `recvfrom`, `sendto` or `connect`, and
a completed round whose `addDataPoint` fails a check, which aborts the program, or
throws (`CompleteRound`). `sendto` fails on a closed socket, and on an open one
for an address of zeros or a peer that is gone (`SendFails`). An abort deletes no
node and so writes no file. `Signal` is SIGINT, which may come between any two
steps. `sock` is what the number in `sock_fd` denotes: the socket, nothing, or the
file that `write_csv` opened and that got the number of the closed socket. What
the language leaves undefined is nondeterministic: calling a node after `delete`
does nothing or crashes, `exit()` from the handler ends the program or waits for
ever for a lock the interrupted code holds.

`MCSamples`, `MCTinySync`, `MCMiniSync`, `MCSideBySide`, `MCSession`, `MCExchange`,
`MCSystem`, `MCCalibration` and `MCProgram` are the modules TLC is run on.
Definitions commented as mutants are what the properties are tested with; nothing
else uses them.

## Runs

Deadlock is not checked: every model stops at its bounds (`MaxCalls`, `MaxNow`,
`MaxSamples`), and the programs really stop, after a failed check, a refused
handshake, an exception, or at their end. That nothing waits for ever where it
should not is what the liveness properties say.

| Run | Instance | Shows |
|---|---|---|
| `tiny` | times 0..5, delays 0, 1, 3 on either side, 6 calls, counter limit 4, Loguru | `BaseSpec` (refinement), `TypeOK`, `CurrentStored`, `DriftNotNegativeInDoubt`, `TinyBounded`, `ErrorsNeverGrow` |
| `mini` | times 0..4, delays 0..2, 5 calls, counter limit 5, Loguru | `BaseSpec`, `MiniTypeOK`, `EstimateSound`, `SlopesCached`, `LookupsSucceed`, `DriftNotNegativeInDoubt`, `ErrorsNeverGrow` |
| `mini_any_order` | samples in any order, repeated times, times 0..3, delays 0..1, 5 calls, counter limit 4, no Loguru | `EstimateSound`, `CacheComplete`, `CachePruned`, `FailedForGood` when lookups throw and the object stays in use |
| `side_by_side` | times 0..4, delays 0..1, 5 calls | `MiniOptimal` (refinement of `OptimalSync`), `MiniNoWorseInDoubt` |
| `session` | latency 2, turnaround 0..1, minimum delays 0 or 1, timeout 6, period 2, `seq` modulo 3, queues of 2, one duplicate or stray (of seven contents, a success and a beacon reply among them), a reference that may refuse, 18 ticks | `TypeOK`, `SamplesSound`, `Connected`, `PeersStay`, `SamplesInOrder`, `ExchangeSpec` (refinement) |
| `exchange` | `seq` modulo 2, queues of 2 (reference) and 1 (SyncNode), one stray, any number of answers from elsewhere (of five contents), no bound on anything else | `HandshakeEnds`, `KeepsSynchronizing` |
| `system` | the session without refusals, latency 1..2, strays that are no part of a round, 10 ticks, up to 12 calls, counter limit 5 | `EstimateHolds`, `NeverFails`, `CallsInOrder` |
| `calibration` | two nodes on a host, two rounds of which the last counts, delays of 2 or 4, pauses of 2 | `DelaysMeasured`, `ConstructorEnds` |
| `program` | a node, another one that calibrates at the same time, two samples, two SIGINTs | `OneSignalSaves`, `Stops` |

The bounds are enough for what could go wrong. Five calls pass through both
storing calls and three recalculations, which is what a point needs to enter, to
become current, and to be thrown away while another one replaces it; with a
counter limit of 4 six calls pass through the wrap, the two storing calls after it
and a recalculation that finds what they left; a bend needs three points. Delays
of zero make the degenerate cases happen. In the session `seq` wraps within 18
ticks, a sample, a timeout and the sample of the repeated beacon fit into them, and a
fault meets every step; a minimum delay of the reference makes it subtract from its
first times. Two
ratios keep the code's order: a round trip (2 * `MaxLatency` + `RefDelay` = 5) is
shorter than the timeout (6), and than all the other rounds together (two periods
and a fastest round trip, at least 6; 255 * 100 ms in the code). The exchange has the
least instance in which an old reply differs from the one asked for, and a full
queue happens in both nodes. Two nodes are enough for the calibration: each
answers somebody else's beacon, or has its own taken. Two signals are one more
than the program is made for.

Three runs show where the code does not do what a comment or a message says;
each is a finding in `PROJECT.json`:

* `claim_drift`: "Drift must be >=0" (175). If the first high point is exact and at
  reference time 0, every high line through it has the exact offset. When two low
  points are exact, too, so has the line through them: its product with each of
  those high lines is 0, the one kept may be one that falls, and the check ends the
  program although the samples came in time order. `DriftNotNegativeInDoubt` says
  when that cannot happen.
* `claim_handshake_repeats`: after a timeout the handshake is sent to a cleared
  address and the program ends ("if timed out, repeat!", 321).
* `claim_late_reply`: with a round trip longer than the timeout, the reply to an
  earlier beacon passes for the reply to its repetition, and the sample is
  unsound (379).

More facts show in the properties that had to be stated with care:

* Once an error is zero, the product both algorithms minimise is too, and MiniSync
  may do worse than TinySync (the test at `tests.cpp:91` compares them):
  `MiniNoWorseInDoubt`.
* An object whose first recalculation found no constraint, because its samples share
  one reference time, fails in every later call: `FailedForGood`.
* The peer given on the command line ("Address of peer to synchronize with.",
  `README.md:125`) is only where the first handshake goes. The SyncNode synchronizes
  with whoever reports a success (285-305): `Connected` leaves it the choice.
* Any datagram that is no handshake reply redirects the next handshake to its sender
  (287-291, 325-329), and nothing counts them: a program that goes on answering keeps
  the handshake going (`HandshakeEnds`).
* A beacon reply that waits in the queue from before `connect` is accepted for its
  number (369-379), with whatever times it reports: `SamplesInOrder` and `CallsInOrder`
  hold among other programs only if these send no beacons or beacon replies
  (`NoForeignRounds`).
* A failed check of the algorithm loses all samples of the session, because they
  are written when the node is deleted: `OneSignalSaves` excludes it.

## Fairness

Safety properties assume none. Liveness is stated in three modules.

`Exchange`: both programs run (`WF` of each: neither has a blocking call without
either a datagram to read, in the reference, or a timeout, in the SyncNode). No
copy of a datagram is under way for ever (`WF` of its loss): networks drop what
is too old, and without it an old reply could be delivered for ever. Of beacons
that are sent again and again one arrives, and so with replies (`SF`): a network
that may lose any datagram but not all. Nothing is assumed of handshakes
nor of what other programs send or answer. A timeout is not a step of its
own that could be put off: while nothing waits to be read it is the only step of
the SyncNode.

`Calibration`: both threads of every node go on while they can. The sockets are
loopback sockets, on which nothing is lost (a failed `CHECK` there aborts).

`Program`: the main thread goes on, except that nothing makes a `recvfrom` on an
open socket return; the second thread and the other nodes go on. Nobody has to
send a signal, and no peer has to talk.

## Proofs

`SyncBaseProofs` proves, for all samples in any order, both builds and every
bound (its invariant is stated for any line that the samples bracket, `BaseInv(m, k)`,
so that it serves a caller whose clocks are not constants, too):

* `BaseTyped`, and `BaseSound`: the truth lies within the published errors. The
  invariant (`BaseInv`) adds to `EstimateSound` that stored points lie on their
  side of the truth, that every constraint is a pair of such points in the right
  order of time, and that the current pair, though its points may be erased, is
  either none or such a pair. The step that matters is `EstimateBrackets`: a line
  from a low to a later high point is steeper than the truth and starts below it
  (`LowLine`), a line of the other kind the reverse (`HighLine`), so the midpoint
  errs by at most half the difference.
* `BaseCached`, and from it `BaseCacheComplete` and `BaseCachePruned`: the caches
  hold the constraint of every usable pair of stored points, and after a complete
  cleanup nothing else.
* `CompletesTurn`, the step of an algorithm that keeps its current points and is
  fed in time order. `Select` compares products of the two errors, and a lesser
  product says nothing of either error. But the chosen pair has the least product
  of *all* cached pairs (`BestOfAll`), and then it is the best in drift and in
  offset, too: if another low line were less steep but lower, the two would
  cross, and the line through the better end of each is cached as well, because
  the points are in order, and is better than both. So neither error grows
  (`CompletesNoWorse`) and the chosen lines are the extreme ones, from which the sign of
  the drift follows. The invariant (`TurnInv`) adds to `BaseInv` that the current
  points are stored, that the caches are complete, what the first sample leaves
  (`FirstInv`), that the estimate is that of the current pair (`CurrentEstimate`),
  and what this says of its slopes (`SteepInv`, `DriftInv`). After every call the
  current pair is one that no cached pair beats (`CurrentTight`).

`CleanupProofs` proves that each step of the algorithms is
one of Base (`TinyImplementsBase`, `MiniImplementsBase`) and so inherits these
results; under `Ordered`, that the points of the current constraints are never
lost (`TinyCurrentStored`, `MiniCurrentStored`), that the errors never grow and
the drift is not negative while an error is left in both values
(`TinyErrorsNeverGrow`, `MiniErrorsNeverGrow`, `TinyDriftNotNegative`,
`MiniDriftNotNegative`), and that the slope caches hold
exactly the ordered pairs of stored points (`MiniSlopesCached`), so that no lookup
throws (`MiniLookupsSucceed`); and that TinySync stores at most two points of a
kind, up to four around a wrap of the counter (`TinyPointsBounded`). `MiniTyped`
needs no order: what a cleanup adds to the caches is typed even if it throws.
Nor does `MiniFailedForGood`: while no pair is chosen nothing is pinned, and then
no point stays, because the earliest that did would need an earlier one that
stays (`NothingStays`); so a call that fails leaves no point for the next one,
whose two points alone make no constraint.

`SideBySideProofs` proves that MiniSync keeps its promises, under `Ordered` and until
the counter wraps (`NoWrap`): what it throws away for good is of no use to it. It
implements the algorithm that keeps all samples (`MiniIsOptimal`), and neither of its
errors exceeds that of TinySync while an error is left in both values
(`MiniNeverWorse`; tests.cpp:91). The invariant (`MiniSide`) adds to `TurnInv` that the
current lines are as good, in slope and in offset, as any through two samples
(`Best`), and that for every sample and every point that may still come the current
line or one from a stored point is as good as the line between those two
(`LowCover`, `HighCover`). These two are what makes `Best` inductive. They survive a
cleanup because a point it erases is no bend between the points of the current
lines (`ErasedNoBend`, from `StaysFixed`: the points that stay are a fixed point of
the code's loop). So it lies, if between these, below their connecting line, and
otherwise below the current lines, which were compared with it: one of the two
pinned points serves every later sample as well, or the current line does
(`UselessLow`; `UselessHigh` is the same upside down). Once an error is zero, every
gap is at least the current one, and the estimate is still optimal. `NoWrap` is
needed: in the two calls after a wrap the sample is stored and the estimate is not
that of all samples.

`SessionProofs` proves type correctness (`SessionTyped`), `Connected`
(`SessionConnected`) and `PeersStay` (`SessionPeersStay`) for all timings, numbers of
faults and contents of `Foreign`. Neither is inductive: `ConnectedInv` adds that a
success was sent by a reference that serves this SyncNode since, or by another
program; that nothing comes from elsewhere and nobody says goodbye unless a datagram
strayed in (`Genuine`); and that a reference that loses its SyncNode lost one whose
handshake failed (`PeersInv`).

`SessionTiming` proves `SamplesSound` (`SessionSamplesSound`) under `Prompt`: a
round trip is shorter than the timeout, and than all the other rounds together,
which is what keeps a number unambiguous. `claim_late_reply` shows that the first
half is needed. The invariant (`TimingInv`) says of every beacon and reply, under
way, in a queue, or being answered, that it is `Timely`: if its number is the
current one, the beacon left since the current round's last sending, otherwise it
left as many periods before as its number is behind; and that the times a reply
reports lie, in order, between the beacon's sending and now (`Honest`). A timeout
comes only when whatever was sent before has been answered or lost, so that a
beacon is repeated only when no reply to it is left. The invariant holds as long
as nothing strayed in, or nothing that takes part in a round while the SyncNode is
the reference's (`Followed`); one that synchronizes with another program then gets
no reply at all (`QuietInv`). Such a stray may spoil no round but the first
(`Tidy`), because what it left behind is read before the first reply. With that
the same invariant gives `SamplesInOrder` (`SessionSamplesInOrder`): the points of
the round before are older than the beacon now answered (`SampleOld`). It needs
`Measured`, too, without which a round may take no time at all and two samples be
equal.

`SystemProofs` joins the two into the promise of the whole (`EndToEnd`): under
`Prompt`, an estimate that a session has published holds the truth about its
clocks (`EstimateHolds`). Its invariant (`SystemInv`) is that of the session, that
the points of a round not yet added bracket the line of slope 1 through the offset
of the two starts (`PendingInv`), and that the algorithm has either been given
nothing or satisfies `BaseInv` for that line (`AlgorithmInv`). The offset is not a
constant: it is settled when the handshake ends, which `Started` says is before
the first sample. With `Measured` the calls come in time order, unless other
programs send beacons or beacon replies (`SystemCallsInOrder`; `CallsInv` relates
the points handed over to those already added). In a session that nothing strayed
into no call fails (`SystemNeverFails`): every point lies after the start of the
reference (`LaterInv`), so that the high constraint rests on a positive time and
`TurnInv` gives a drift that is not negative, a pair exists from the second call
on, and the slope caches hold what is looked up (`ChecksInv`). A stray may spoil
the first sample, whose bounds then exclude each other, and the drift of a later
pair may be negative.

`SessionRefinement` proves that each step of the session is one of the exchange
(`SessionImplementsExchange`): the mapping forgets times,
a tick is the loss of what is late, and the rest is step for step. It rests on
`ConnectedInv`, because a connected socket takes datagrams of its peer only, and
on facts about sequences and sets of datagrams whose times are dropped.

`ProgramProofs` proves `DelaysMeasured` for any number of nodes, rounds and
delays (`DelaysMeasuredAll`). The invariant says that while no port is shared a
datagram on the loopback was sent by the other thread of the same node, that
there is one at most, and which round both threads are in then; it relates the
times in the reply to those of the main thread.

It also proves `OneSignalSaves` (`OneSignalSavesAll`). The invariant says
who may have closed the socket at which point of `main`: before its time only a
signal or a failure, so that its number becomes the file's only after one, and
with a single signal there is nobody left to close the file; and that as long as
nobody did, what has been written is what the loop has passed. It says nothing of a
program that aborts, which leaves no file: that a session nothing strayed into does
not is `SystemNeverFails`.

Assumptions: the named `ASSUME`s of the modules, and `Ordered`, `NoWrap`, `Prompt`
and `Measured` where a theorem says so. `NoWrap` says that fewer samples are added
than the counter can count (2^32). `Measured` says that sending a beacon takes a
SyncNode some time, and that sending one or a reply takes the reference some: the
values the calibration subtracts. TLC evaluates the `ASSUME`s on every run, and
the instances of `session` and `system` satisfy `Prompt` and `Measured`.

Only model-checked: the liveness properties `HandshakeEnds`, `KeepsSynchronizing`,
`ConstructorEnds` and `Stops`, because liveness under fairness is out of the prover's
reach.

## Not modelled

* Rounding of `long double`: all arithmetic is exact. With rounding the bounds
  hold up to it, which is no matter of states and steps.
* The values of clocks: `getCurrentAdjustedTime` reads `system_clock` and changes
  nothing; both steady clocks run at one rate in `Session`, and at any two in
  `SyncBase`.
* Serialisation, except that a datagram may be none of the protocol's messages;
  logging; option parsing, which CLI11 does.
* A loopback socket of the calibration that fails to send or receive, which aborts
  the program, as a port that cannot be bound does (`ConstructFails`).
* Which exception of the algorithm or abort of it a sample causes in `Program`, where a
  completed round may end in either: the algorithm itself is in `System`.
* The Python bindings, the factory and the exception classes: they forward or
  carry a message and have no state. The abstract class `Algorithm` can be
  constructed from Python and then has nothing to forward to.
* Build files and the scripts that plot recorded statistics.

## Plan

All components with state are modelled, and every safety and action property and
every refinement that a run checks is proved. What may be added:

1. `MiniNeverWorse` across a wrap of the counter. Both algorithms only store then,
   and keep their estimates, so that `Best` would have to be stated for the samples
   that came before the last call that recalculated.
2. What is left of the errors once one of them is zero: which of the pairs whose
   product is zero is taken is open in the code, too.
