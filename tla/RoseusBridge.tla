---------------------------- MODULE RoseusBridge ----------------------------
(***************************************************************************)
(* The node roseus_bridge, which feeds commands from a topic to a roseus   *)
(* process and publishes what it prints, and respawns it when it ends.     *)
(* The main thread runs main_loop, rospy calls raw_command_cb in another   *)
(* thread, and each process has a thread that reads its output; the one    *)
(* for stderr does the same as the one for stdout and is left out.         *)
(*                                                                         *)
(* Processes, commands and outputs are numbered; an output belongs to its  *)
(* process.  Each launch makes new queues, so a reader keeps its own.      *)
(***************************************************************************)
EXTENDS Naturals, Sequences, FiniteSets

CONSTANTS
  MaxSpawns,    (* bound on the processes that are launched                *)
  MaxCmds,      (* bound on the commands received                          *)
  MaxOut,       (* bound on the outputs of a process                       *)
  NoCmd

VARIABLES
  bridgePc,     (* where the main thread is                                *)
  gen,          (* which process roseus_process is, 0 before the first     *)
  running,      (* the processes that run                                  *)
  down,         (* rospy is shut down                                      *)
  received,     (* how many commands have arrived                          *)
  cmdQueue,     (* received_cmd                                            *)
  cmd,          (* the command main_loop has taken                         *)
  inputs,       (* the commands written to a process, in order, as pairs   *)
  printed,      (* how much each process has printed                       *)
  reader,       (* where the reader of each process is                     *)
  consumed,     (* how much of its output each reader has read             *)
  outQueue,     (* stdout_queue of each launch                             *)
  output        (* what has been published                                 *)

cmdVars == <<received, cmdQueue, cmd, inputs>>
outVars == <<printed, reader, consumed, outQueue, output>>
bridgeVars == <<bridgePc, gen, running, down, cmdVars, outVars>>

Gens == 1..MaxSpawns

Init ==
  /\ bridgePc = "off" /\ gen = 0 /\ running = {} /\ down = FALSE
  /\ received = 0 /\ cmdQueue = <<>> /\ cmd = NoCmd /\ inputs = <<>>
  /\ printed = [g \in Gens |-> 0] /\ reader = [g \in Gens |-> "none"]
  /\ consumed = [g \in Gens |-> 0]
  /\ outQueue = [g \in Gens |-> <<>>] /\ output = <<>>

Alive == gen \in running     (* roseus_process.poll() is None *)

Launch ==
  /\ bridgePc = "off" /\ bridgePc' = "test"
  /\ UNCHANGED <<gen, running, down, cmdVars, outVars>>

(* The roseus process. *)
Dies(g) ==
  /\ g \in running /\ running' = running \ {g}
  /\ UNCHANGED <<bridgePc, gen, down, cmdVars, outVars>>
Prints(g) ==
  /\ g \in running /\ printed[g] < MaxOut
  /\ printed' = [printed EXCEPT ![g] = @ + 1]
  /\ UNCHANGED <<bridgePc, gen, running, down, cmdVars, reader, consumed, outQueue, output>>

(* rospy.on_shutdown: the process that runs now is killed; the main thread *)
(* goes on to its next sleep or test, past a launch that is under way.     *)
Shutdown ==
  /\ bridgePc \notin {"off", "exited"} /\ ~down /\ down' = TRUE
  /\ running' = running \ {gen}
  /\ UNCHANGED <<bridgePc, gen, cmdVars, outVars>>

(* __init__ *)
Test ==
  /\ bridgePc = "test" /\ bridgePc' = IF down THEN "exited" ELSE "launch"
  /\ UNCHANGED <<gen, running, down, cmdVars, outVars>>
LaunchRoseus ==
  /\ bridgePc = "launch" /\ gen < MaxSpawns
  /\ gen' = gen + 1 /\ running' = running \cup {gen'}
  /\ cmdQueue' = <<>> /\ reader' = [reader EXCEPT ![gen'] = "poll"]
  /\ bridgePc' = "poll"
  /\ UNCHANGED <<down, received, cmd, inputs, printed, consumed, outQueue, output>>

(* raw_command_cb; before the first launch there is no queue. *)
RawCommandCb ==
  /\ bridgePc \notin {"off", "exited"} /\ received < MaxCmds
  /\ received' = received + 1
  /\ cmdQueue' = IF gen = 0 THEN cmdQueue ELSE Append(cmdQueue, received')
  /\ UNCHANGED <<bridgePc, gen, running, down, cmd, inputs, outVars>>

(* get_output: the loop tests the process of today, not the one it reads.  *)
ReaderPolls(g) ==
  /\ reader[g] = "poll"
  /\ reader' = [reader EXCEPT ![g] = IF Alive THEN "read" ELSE "ended"]
  /\ UNCHANGED <<bridgePc, gen, running, down, cmdVars, printed, consumed, outQueue, output>>
ReaderReads(g) ==
  /\ reader[g] = "read"
  /\ \/ /\ consumed[g] < printed[g] /\ consumed' = [consumed EXCEPT ![g] = @ + 1]
        /\ reader' = [reader EXCEPT ![g] = "put"]
     \/ /\ consumed[g] = printed[g] /\ g \notin running    (* end of file *)
        /\ reader' = [reader EXCEPT ![g] = "poll"] /\ UNCHANGED consumed
  /\ UNCHANGED <<bridgePc, gen, running, down, cmdVars, printed, outQueue, output>>
QueueOf(g) == g
ReaderPuts(g) ==
  /\ reader[g] = "put"
  /\ outQueue' = [outQueue EXCEPT ![QueueOf(g)] = Append(@, <<g, consumed[g]>>)]
  /\ reader' = [reader EXCEPT ![g] = "poll"]
  /\ UNCHANGED <<bridgePc, gen, running, down, cmdVars, printed, consumed, output>>

(* main_loop *)
Poll ==
  /\ bridgePc = "poll" /\ bridgePc' = IF Alive THEN "take" ELSE "kill"
  /\ UNCHANGED <<gen, running, down, cmdVars, outVars>>
Take ==
  /\ bridgePc = "take"
  /\ IF cmdQueue = <<>> THEN bridgePc' = "publish" /\ UNCHANGED <<cmdQueue, cmd>>
     ELSE bridgePc' = "write" /\ cmd' = Head(cmdQueue) /\ cmdQueue' = Tail(cmdQueue)
  /\ UNCHANGED <<gen, running, down, received, inputs, outVars>>
(* An interrupted or failed write loses the command. *)
Requeued == Append(cmdQueue, cmd)
AfterInterrupt == cmdQueue
Write ==
  /\ bridgePc = "write" /\ cmd' = NoCmd
  /\ \/ /\ Alive /\ inputs' = Append(inputs, <<gen, cmd>>)
        /\ bridgePc' = "publish" /\ UNCHANGED cmdQueue
     \/ ~Alive /\ bridgePc' = "publish" /\ UNCHANGED <<inputs, cmdQueue>>
     \/ /\ bridgePc' = "poll" /\ cmdQueue' = AfterInterrupt   (* EINTR *)
        /\ UNCHANGED inputs
  /\ UNCHANGED <<gen, running, down, received, outVars>>
Publish ==
  /\ bridgePc = "publish" /\ bridgePc' = IF down THEN "exited" ELSE "poll"
  /\ output' = output \o outQueue[gen]
  /\ outQueue' = [outQueue EXCEPT ![gen] = <<>>]
  /\ UNCHANGED <<gen, running, down, cmdVars, printed, reader, consumed>>
KillRoseus ==
  /\ bridgePc = "kill" /\ bridgePc' = "test" /\ running' = running \ {gen}
  /\ UNCHANGED <<gen, down, cmdVars, outVars>>

Loop == Test \/ LaunchRoseus \/ Poll \/ Take \/ Write \/ Publish \/ KillRoseus
Reader(g) == ReaderPolls(g) \/ ReaderReads(g) \/ ReaderPuts(g)
Next ==
  \/ Launch \/ Shutdown \/ RawCommandCb \/ Loop
  \/ \E g \in Gens : Dies(g) \/ Prints(g) \/ Reader(g)

Spec == Init /\ [][Next]_bridgeVars

-----------------------------------------------------------------------------
(* A pair comes later than another one: it is of a later process, or a     *)
(* later command or output.                                                *)
Increasing(seq, item) ==
  \A i, j \in 1..Len(seq) : i < j => seq[i][item] < seq[j][item]
Monotone(seq) == \A i, j \in 1..Len(seq) : i < j => seq[i][1] <= seq[j][1]

(* Both directions keep their order over interrupted writes and respawns.  *)
(* A command is written once at most, to one process; what is published is *)
(* for each process the beginning of what it printed, and nothing of an    *)
(* earlier process follows what a later one printed, although the reader   *)
(* of the earlier one may still be at work.                                *)
OrderIsKept ==
  /\ Increasing(inputs, 2) /\ Monotone(inputs) /\ Monotone(output)
  /\ \A k \in 1..Len(output) :
       output[k][2] = Cardinality({j \in 1..k : output[j][1] = output[k][1]})
=============================================================================
