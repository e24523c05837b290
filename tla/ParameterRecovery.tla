------------------------- MODULE ParameterRecovery -------------------------
(***************************************************************************)
(* The recovery behaviours UpdateCostmapParameterRecovery and              *)
(* UpdateInflationLayerParameterRecovery (the same program on different    *)
(* parameters).  Each of them overwrites parameters of one dynamic         *)
(* reconfigure server for a while:                                         *)
(*   - move_base calls runBehavior, one behaviour at a time;               *)
(*   - a thread of each behaviour, spinRestore, puts the original          *)
(*     configuration back once the deadline is over.                       *)
(* The mutex of a behaviour is held through the calls to the server, which *)
(* may fail, and an operator may change the parameters at any time.  Of a  *)
(* configuration only the parameters the behaviours are given values for   *)
(* are kept; the value a behaviour writes is named after it.               *)
(***************************************************************************)
EXTENDS Naturals

CONSTANTS
  Behaviour,   (* the behaviours that are configured for this server       *)
  MaxRuns,     (* bound: how often runBehavior is called                   *)
  Failures     (* the calls that may fail: "get", "update", "restore", and *)
               (* "reply" if an update may be applied and its reply lost   *)

ASSUME ConstantsAssumption ==
  /\ MaxRuns \in Nat
  /\ Failures \subseteq {"get", "update", "restore", "reply"}
  /\ {"initial", "tuned"} \cap Behaviour = {}

Nobody == "nobody"

Config == Behaviour \cup {"initial", "tuned"}

VARIABLES
  server,    (* the configuration of the server                            *)
  mutex,     (* mtx_ of each behaviour: who holds it                       *)
  current,   (* costmap_config_                                            *)
  stored,    (* store_original_                                            *)
  original,  (* original_costmap_config_                                   *)
  waiting,   (* wait_for_deadline_                                         *)
  expired,   (* now > deadline_                                            *)
  rpc,       (* where runBehavior is, by behaviour                         *)
  spc,       (* where spinRestore is, by behaviour                         *)
  runs       (* how often runBehavior was called                           *)

vars == <<server, mutex, current, stored, original, waiting, expired, rpc, spc,
          runs>>

Init ==
  /\ server = "initial"
  /\ mutex = [b \in Behaviour |-> Nobody]
  /\ current = [b \in Behaviour |-> "initial"]
  /\ stored = [b \in Behaviour |-> FALSE]
  /\ original = [b \in Behaviour |-> "initial"]
  /\ waiting = [b \in Behaviour |-> FALSE]
  /\ expired = [b \in Behaviour |-> TRUE]
  /\ rpc = [b \in Behaviour |-> "idle"]
  /\ spc = [b \in Behaviour |-> "sleep"]
  /\ runs = 0
-----------------------------------------------------------------------------
(***************************************************************************)
(* runBehavior.                                                            *)
(***************************************************************************)
Run(b) ==
  /\ runs < MaxRuns
  /\ \A c \in Behaviour : rpc[c] = "idle"
  /\ mutex[b] = Nobody
  /\ mutex' = [mutex EXCEPT ![b] = "run"]
  /\ rpc' = [rpc EXCEPT ![b] = "get"]
  /\ runs' = runs + 1
  /\ UNCHANGED <<server, current, stored, original, waiting, expired, spc>>

RunReturns(b) ==
  /\ mutex' = [mutex EXCEPT ![b] = Nobody]
  /\ rpc' = [rpc EXCEPT ![b] = "idle"]

StoreAlways(b) ==
  /\ original' = [original EXCEPT ![b] = server]
  /\ stored' = [stored EXCEPT ![b] = TRUE]

(* The original configuration is remembered once. *)
StoreOriginal(b) ==
  /\ original' = [original EXCEPT ![b] = IF stored[b] THEN @ ELSE server]
  /\ stored' = [stored EXCEPT ![b] = TRUE]

RunGet(b) ==
  /\ rpc[b] = "get"
  /\ StoreOriginal(b)
  /\ current' = [current EXCEPT ![b] = b]
  /\ rpc' = [rpc EXCEPT ![b] = "set"]
  /\ UNCHANGED <<server, mutex, waiting, expired, spc, runs>>

RunGetFails(b) ==
  /\ rpc[b] = "get" /\ "get" \in Failures
  /\ RunReturns(b)
  /\ UNCHANGED <<server, current, stored, original, waiting, expired, spc, runs>>

DeadlineSet(b) == expired' = [expired EXCEPT ![b] = FALSE]

RunSet(b) ==
  /\ rpc[b] = "set"
  /\ server' = current[b]
  /\ DeadlineSet(b)
  /\ waiting' = [waiting EXCEPT ![b] = TRUE]
  /\ RunReturns(b)
  /\ UNCHANGED <<current, stored, original, spc, runs>>

RunSetFails(b) ==
  /\ rpc[b] = "set"
  /\ \/ "update" \in Failures /\ UNCHANGED server
     \/ "reply" \in Failures /\ server' = current[b]
  /\ RunReturns(b)
  /\ UNCHANGED <<current, stored, original, waiting, expired, spc, runs>>
-----------------------------------------------------------------------------
(***************************************************************************)
(* spinRestore, and time.                                                  *)
(***************************************************************************)
DeadlinePasses(b) ==
  /\ ~expired[b]
  /\ expired' = [expired EXCEPT ![b] = TRUE]
  /\ UNCHANGED <<server, mutex, current, stored, original, waiting, rpc, spc, runs>>

TestsWithoutLock(b) == stored[b] /\ expired[b] /\ waiting[b]

MayRestore(b) ==
  /\ mutex[b] = Nobody
  /\ stored[b] /\ expired[b] /\ waiting[b]

SpinTest(b) ==
  /\ spc[b] = "sleep"
  /\ MayRestore(b)
  /\ mutex' = [mutex EXCEPT ![b] = "spin"]
  /\ spc' = [spc EXCEPT ![b] = "set"]
  /\ UNCHANGED <<server, current, stored, original, waiting, expired, rpc, runs>>

SpinSetKeepsWaiting(b) ==
  /\ spc[b] = "set"
  /\ server' = original[b]
  /\ mutex' = [mutex EXCEPT ![b] = Nobody]
  /\ spc' = [spc EXCEPT ![b] = "sleep"]
  /\ UNCHANGED <<current, stored, original, waiting, expired, rpc, runs>>

(* The result of setConfiguration is not looked at. *)
SpinSet(b) ==
  /\ spc[b] = "set"
  /\ \/ server' = original[b]
     \/ "restore" \in Failures /\ UNCHANGED server
  /\ waiting' = [waiting EXCEPT ![b] = FALSE]
  /\ mutex' = [mutex EXCEPT ![b] = Nobody]
  /\ spc' = [spc EXCEPT ![b] = "sleep"]
  /\ UNCHANGED <<current, stored, original, expired, rpc, runs>>

(* An operator sets the parameters, with rqt_reconfigure for instance. *)
OperatorTunes ==
  /\ server' = "tuned"
  /\ UNCHANGED <<mutex, current, stored, original, waiting, expired, rpc, spc, runs>>
-----------------------------------------------------------------------------
Next ==
  \/ OperatorTunes
  \/ \E b \in Behaviour :
       \/ Run(b) \/ RunGet(b) \/ RunGetFails(b) \/ RunSet(b) \/ RunSetFails(b)
       \/ DeadlinePasses(b) \/ SpinTest(b) \/ SpinSet(b)

Spec == Init /\ [][Next]_vars

(* runBehavior goes on, time passes and the threads are scheduled.  The    *)
(* mutex is not fair, but runBehavior takes it only MaxRuns times.         *)
Fairness ==
  /\ WF_vars(\E b \in Behaviour : RunGet(b) \/ RunGetFails(b) \/ RunSet(b) \/ RunSetFails(b))
  /\ WF_vars(\E b \in Behaviour : DeadlinePasses(b))
  /\ \A b \in Behaviour : WF_vars(SpinTest(b) \/ SpinSet(b))
-----------------------------------------------------------------------------
(* The types, and the mutex: at most one of the two is in its section.     *)
TypeOK ==
  /\ server \in Config
  /\ mutex \in [Behaviour -> {Nobody, "run", "spin"}]
  /\ current \in [Behaviour -> Config]
  /\ stored \in [Behaviour -> BOOLEAN]
  /\ original \in [Behaviour -> Config]
  /\ waiting \in [Behaviour -> BOOLEAN]
  /\ expired \in [Behaviour -> BOOLEAN]
  /\ rpc \in [Behaviour -> {"idle", "get", "set"}]
  /\ spc \in [Behaviour -> {"sleep", "set"}]
  /\ runs \in 0 .. MaxRuns
  /\ \A b \in Behaviour : /\ mutex[b] = "run" <=> rpc[b] # "idle"
                          /\ mutex[b] = "spin" <=> spc[b] = "set"

(* No behaviour takes its own update for the original configuration, also  *)
(* when it runs again before the deadline of its last update is over.      *)
OwnUpdateNeverOriginal ==
  \A b \in Behaviour : stored[b] => original[b] # b

(* spinRestore never cuts a period short: when it writes, the deadline of  *)
(* the latest update is over, although runBehavior may just be renewing    *)
(* it.                                                                     *)
NeverRestoredEarly ==
  \A b \in Behaviour : spc[b] = "set" => expired[b]

(* Every period ends: spinRestore gets the mutex in spite of runBehavior,  *)
(* which holds it through two calls and renews the deadline, and then      *)
(* tries to restore the original configuration.                            *)
PeriodsEnd ==
  \A b \in Behaviour : waiting[b] ~> ~waiting[b]
=============================================================================
