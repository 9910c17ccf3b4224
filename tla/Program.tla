------------------------------- MODULE Program -------------------------------
(***************************************************************************)
(* The demo program from its start to its end (demo/main.cpp): it          *)
(* constructs its node (Calibration), runs it, and deletes it, which       *)
(* writes the statistics of a SyncNode to a file (demo/stats.cpp); SIGINT  *)
(* may come at any time.  Of run() there is here what ends its loops.      *)
(***************************************************************************)
EXTENDS Calibration

CONSTANTS
  Self,        \* the node of this program; the other Nodes only construct theirs
  MaxSamples,  \* bound on the rounds of a session
  MaxSignals   \* bound on the number of SIGINTs

ASSUME ProgramAssumption == Self \in Nodes /\ MaxSamples \in Nat /\ MaxSignals \in Nat

VARIABLES
  mode,     \* of the command line: unread, sync or ref
  output,   \* -o was given
  disk,     \* unused, good, or full
  pc,       \* where main() is
  node,     \* the global pointer: null, live, or freed and not null
  running,
  sock,     \* what the number sock_fd denotes: socket, nothing or file
  connected,
  samples,  \* the number of samples of SyncStats
  index,    \* the loop counter of write_csv
  written,  \* the number of samples in the file
  bad,      \* a write to it has failed, and all after it do
  signals,  \* SIGINTs so far
  failed    \* an exception no signal caused ended run()

given == <<mode, output>>
nodeVars == <<node, running, sock, connected>>
fileVars == <<disk, index, written, bad>>
mainVars == <<given, pc, nodeVars, samples, fileVars, signals, failed>>
programVars == <<calibrationVars, mainVars>>

ProgramInit ==
  /\ CalibrationInit
  /\ mode = "unread" /\ output = FALSE /\ disk = "unused"
  /\ pc = "construct" /\ node = "null" /\ running = TRUE
  /\ sock = "socket" /\ connected = FALSE
  /\ samples = 0 /\ index = 0 /\ written = 0 /\ bad = FALSE
  /\ signals = 0 /\ failed = FALSE

\* A failed check of Loguru (CHECK_F) ends it by abort(): nothing is deleted.
Ended == pc \in {"exited", "crashed", "aborted"}

---------------------------------------------------------------------------
(* shut_down() and the signal handler                                      *)

\* Mutant: shut_down leaves the socket open.
ShutDownOpen == running' = FALSE /\ UNCHANGED <<sock, bad>>

\* Whatever has the number of the socket by now is closed.
ShutDown ==
  /\ running' = FALSE
  /\ sock' = "nothing"
  /\ bad' = (bad \/ sock = "file")

\* The handler runs under the main thread and knows its node by the pointer.
\* While there is none it calls exit(), which may also wait for a lock that the
\* interrupted code holds, with SIGINT masked; calling a freed node may do
\* nothing, or crash.
Signal ==
  /\ ~Ended /\ pc # "stuck"
  /\ signals < MaxSignals
  /\ signals' = signals + 1
  /\ \/ node = "null" /\ pc' \in {"exited", "stuck"} /\ UNCHANGED <<running, sock, bad>>
     \/ node = "live" /\ ShutDown /\ UNCHANGED pc
     \/ node = "freed" /\ pc' \in {pc, "crashed"} /\ UNCHANGED <<running, sock, bad>>
  /\ IF pc' = "exited" THEN Abandon(Self) ELSE UNCHANGED calibrationVars
  /\ UNCHANGED <<given, node, connected, samples, disk, index, written, failed>>

---------------------------------------------------------------------------
(* main(): construction and run()                                          *)

ConstructSelf == pc = "construct" /\ Construct(Self) /\ UNCHANGED mainVars

\* The port of the node, or that of the loopback, cannot be bound.
ConstructFails ==
  /\ pc = "construct"
  /\ main[Self] = "bind"
  /\ pc' = "aborted"
  /\ Abandon(Self)
  /\ UNCHANGED <<given, nodeVars, samples, fileVars, signals, failed>>

\* new returns.  The command line has been read before; nothing has depended on
\* it until now.
Constructed ==
  /\ pc = "construct"
  /\ main[Self] = "done"
  /\ pc' = "check"
  /\ node' = "live"
  /\ mode' \in {"sync", "ref"}
  /\ output' \in (IF mode' = "sync" THEN BOOLEAN ELSE {FALSE})
  /\ UNCHANGED <<calibrationVars, running, sock, connected, samples, fileVars, signals, failed>>

\* The loops of handshake() and sync(), wait_for_handshake() and serve() ask
\* in every pass whether they still run.
Check ==
  /\ pc = "check"
  /\ pc' = CASE ~running -> "delete" [] mode = "sync" -> "send" [] OTHER -> "receive"
  /\ UNCHANGED <<calibrationVars, given, nodeVars, samples, fileVars, signals, failed>>

Send ==
  /\ pc = "send"
  /\ sock = "socket"
  /\ pc' = IF mode = "sync" THEN "receive" ELSE "check"
  /\ UNCHANGED <<calibrationVars, given, nodeVars, samples, fileVars, signals, failed>>

\* sendto fails if the number is none of a socket any more, and on a socket for
\* an address of zeros or a peer that is unreachable.
SendFails ==
  /\ pc \in {"send", "farewell"}
  /\ pc' = "catch"
  /\ failed' = (failed \/ sock = "socket")
  /\ UNCHANGED <<calibrationVars, given, nodeVars, samples, fileVars, signals>>

\* What may follow a message, or in a SyncNode a timeout: the next pass; in
\* sync() another recvfrom; in a ReferenceNode an answer, the one to a goodbye
\* too; for a handshake that succeeds, connect().
Following ==
  {"check"}
    \cup (IF connected THEN {} ELSE {"connect"})
    \cup (IF mode = "sync" /\ connected THEN {"receive"} ELSE {})
    \cup (IF mode = "ref" THEN {"send"} ELSE {})
    \cup (IF mode = "ref" /\ connected THEN {"farewell"} ELSE {})

AddSample == samples < MaxSamples /\ samples' = samples + 1

\* A round of sync() that is complete hands its points to the algorithm and then
\* its estimate to add_sample, unless a check of the algorithm fails, which aborts
\* the program, or it throws: out_of_range is no exception run() catches.
CompleteRound ==
  /\ mode = "sync" /\ connected
  /\ \/ /\ pc' = "check"
        /\ AddSample
        /\ UNCHANGED failed
     \/ pc' = "aborted" /\ UNCHANGED <<samples, failed>>
     \/ pc' = "catch" /\ failed' = TRUE /\ UNCHANGED samples

Receive ==
  /\ pc = "receive"
  /\ sock = "socket"
  /\ \/ pc' \in Following /\ UNCHANGED <<samples, failed>>
     \/ CompleteRound
  /\ UNCHANGED <<calibrationVars, given, nodeVars, fileVars, signals>>

\* The handshake succeeded: CHECK_GE_F aborts the program if connect() fails.
Connect ==
  /\ pc = "connect"
  /\ IF sock = "socket"
     THEN connected' = TRUE /\ pc' = IF mode = "ref" THEN "send" ELSE "check"
     ELSE pc' = "aborted" /\ UNCHANGED connected
  /\ UNCHANGED <<calibrationVars, given, node, running, sock, samples, fileVars, signals, failed>>

\* A refusal ends the loop of handshake() and leaves the socket open.
Refused ==
  /\ pc = "receive"
  /\ mode = "sync" /\ ~connected /\ sock = "socket"
  /\ running' = FALSE
  /\ pc' = "check"
  /\ UNCHANGED <<calibrationVars, given, node, sock, connected, samples, fileVars, signals, failed>>

\* So does a goodbye that of serve(), once it is answered.
Farewell ==
  /\ pc = "farewell"
  /\ sock = "socket"
  /\ running' = FALSE
  /\ pc' = "check"
  /\ UNCHANGED <<calibrationVars, given, node, sock, connected, samples, fileVars, signals, failed>>

\* recvfrom fails: the socket was closed under it, or the peer is unreachable.
ReceiveFails ==
  /\ pc = "receive"
  /\ sock = "socket" => connected
  /\ pc' = "catch"
  /\ failed' = (failed \/ sock = "socket")
  /\ UNCHANGED <<calibrationVars, given, nodeVars, samples, fileVars, signals>>

Catch ==
  /\ pc = "catch"
  /\ ShutDown
  /\ pc' = "delete"
  /\ UNCHANGED <<calibrationVars, given, node, connected, samples, disk, index, written, signals, failed>>

---------------------------------------------------------------------------
(* delete: ~SyncNode with write_csv, and ~Node                             *)

\* The ofstream gets the lowest number that is free, the socket's if that is.
Open ==
  /\ pc = "delete"
  /\ IF output
     THEN /\ disk' \in {"good", "full"}
          /\ bad' = (disk' = "full")
          /\ sock' = IF sock = "nothing" THEN "file" ELSE sock
          /\ pc' = "write"
     ELSE UNCHANGED <<disk, bad, sock>> /\ pc' = "destroy"
  /\ UNCHANGED <<calibrationVars, given, node, running, connected, samples, index, written,
                 signals, failed>>

\* Mutant: the loop ends before the last sample.
RemainingShort == {k \in 0 .. samples - 2 : k >= index}

\* The samples the loop has not come to.
Remaining == {k \in 0 .. samples - 1 : k >= index}

\* A write that fails throws nothing and the loop goes on.
WriteRecord ==
  /\ pc = "write"
  /\ Remaining # {}
  /\ index' = index + 1
  /\ written' = IF bad THEN written ELSE written + 1
  /\ UNCHANGED <<calibrationVars, given, pc, nodeVars, samples, disk, bad, signals, failed>>

Close ==
  /\ pc = "write"
  /\ Remaining = {}
  /\ sock' = IF sock = "file" THEN "nothing" ELSE sock
  /\ pc' = "destroy"
  /\ UNCHANGED <<calibrationVars, given, node, running, connected, samples, fileVars, signals, failed>>

Destroy ==
  /\ pc = "destroy"
  /\ IF running THEN ShutDown ELSE UNCHANGED <<running, sock, bad>>
  /\ node' = "freed"
  /\ pc' = "return"
  /\ UNCHANGED <<calibrationVars, given, connected, samples, disk, index, written, signals, failed>>

Return ==
  /\ pc = "return"
  /\ pc' = "exited"
  /\ UNCHANGED <<calibrationVars, given, nodeVars, samples, fileVars, signals, failed>>

---------------------------------------------------------------------------

MainThread ==
  \/ ConstructSelf \/ ConstructFails \/ Constructed
  \/ Check \/ Send \/ SendFails \/ Receive \/ Connect \/ Refused \/ Farewell \/ ReceiveFails \/ Catch
  \/ Open \/ WriteRecord \/ Close \/ Destroy \/ Return

Others == Nodes \ {Self}

SecondThread(n) == Echo(n) /\ UNCHANGED mainVars

OtherNode(n) == Construct(n) /\ UNCHANGED mainVars

ProgramNext ==
  \/ MainThread
  \/ Signal
  \/ \E n \in Nodes : SecondThread(n)
  \/ \E n \in Others : OtherNode(n)

\* recvfrom waits for the peer as long as its socket is open.
Waiting == pc = "receive" /\ sock = "socket"

\* Every thread that can take a step goes on, but nothing makes recvfrom return
\* with a message, and nobody has to send a signal.
Spec ==
  /\ ProgramInit
  /\ [][ProgramNext]_programVars
  /\ WF_programVars(~Waiting /\ MainThread)
  /\ \A n \in Nodes : WF_programVars(SecondThread(n))
  /\ \A n \in Others : WF_programVars(OtherNode(n))

---------------------------------------------------------------------------
(* Properties                                                              *)

\* main.cpp:90-100, node.cpp:496-502, stats.cpp:31-60: one SIGINT, at whatever
\* point of a session or of its end, costs no sample: if there was no more than
\* one and no failure closed the socket, the file has every sample, provided the
\* disk has room.  An abort() deletes no node and so leaves no file at all: a
\* check of the algorithm (minisync.cpp:157-180) loses the samples of a session.
OneSignalSaves ==
  Ended /\ pc # "aborted" /\ node # "null" /\ output /\ disk # "full"
        /\ signals <= 1 /\ ~failed =>
    written = samples

\* main.cpp:18-23, node.cpp:243-249: a signal to a node that runs ends the
\* program, whatever it waits for: recvfrom in a ReferenceNode has no timeout.
Stops == signals > 0 /\ node # "null" ~> Ended
=============================================================================
