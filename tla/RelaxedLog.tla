---------------------------- MODULE RelaxedLog -----------------------------
(***************************************************************************)
(* What the lightweight logger promises to whoever reads the database: a   *)
(* log that is almost a first-in first-out queue.  A message is stored in  *)
(* its turn, except that the newest one may be stored while exactly one    *)
(* older message is still on its way; a message is dropped only when its   *)
(* insertion fails or when more than Capacity messages are pending, and    *)
(* then one of the two oldest goes.                                        *)
(***************************************************************************)
EXTENDS Naturals, SequencesExt

CONSTANTS MaxMsgs, Capacity

VARIABLES arrived,   (* messages accepted so far, numbered from 1          *)
          pending,   (* accepted and neither stored nor dropped, in order  *)
          stored     (* the database                                       *)

logVars == <<arrived, pending, stored>>

LogInit == arrived = 0 /\ pending = <<>> /\ stored = <<>>

Arrive ==
  /\ arrived < MaxMsgs
  /\ arrived' = arrived + 1
  /\ pending' = Append(pending, arrived + 1)
  /\ UNCHANGED stored

(* The next message in turn, or the newest while one older is pending. *)
InTurn(i) == i = 1 \/ (i = 2 /\ Len(pending) = 2)

Store ==
  /\ \E i \in DOMAIN pending :
       /\ InTurn(i)
       /\ stored' = Append(stored, pending[i])
       /\ pending' = RemoveAt(pending, i)
  /\ UNCHANGED arrived

InsertionFails ==
  /\ \E i \in DOMAIN pending : InTurn(i) /\ pending' = RemoveAt(pending, i)
  /\ UNCHANGED <<arrived, stored>>

Overflow ==
  /\ Len(pending) > Capacity
  /\ \E i \in {1, 2} : i < Len(pending) /\ pending' = RemoveAt(pending, i)
  /\ UNCHANGED <<arrived, stored>>

LogNext == Arrive \/ Store \/ InsertionFails \/ Overflow

LogSpec == LogInit /\ [][LogNext]_logVars
=============================================================================
