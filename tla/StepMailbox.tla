---------------------------- MODULE StepMailbox ----------------------------
(***************************************************************************)
(* What the binary variables of an FMU promise, without buffers, streams   *)
(* or reset flags: an inbox that collects frames for the next step and is  *)
(* emptied when that step ends, and an outbox that a step fills and that   *)
(* is emptied no later than the start of the next one.                     *)
(*                                                                         *)
(* This abstracts the intent of fmu_signals_reset() ("reset any binary     *)
(* variables which where used by an FMU in the previous step").            *)
(***************************************************************************)
EXTENDS Naturals, Sequences

CONSTANTS
  RxBox, TxBox,   \* the binary inputs and outputs
  Item            \* the frames

VARIABLES
  inbox,          \* frames for the coming (or running) step
  outbox,         \* frames of the last (or running) step
  busy            \* a step is running

mvars == <<inbox, outbox, busy>>

EmptyIn == [s \in RxBox |-> << >>]
EmptyOut == [s \in TxBox |-> << >>]

MInit == inbox = EmptyIn /\ outbox = EmptyOut /\ busy = FALSE

(* The importer adds a frame for the next step; the old output is gone.    *)
Put(s, f) ==
  /\ ~busy
  /\ inbox' = [inbox EXCEPT ![s] = Append(@, f)]
  /\ outbox' = EmptyOut
  /\ UNCHANGED busy

(* The importer starts a new cycle without adding a frame.                 *)
Discard == ~busy /\ outbox' = EmptyOut /\ UNCHANGED <<inbox, busy>>

(* A step starts, with the whole inbox and an empty outbox.                *)
Begin == ~busy /\ busy' = TRUE /\ outbox' = EmptyOut /\ UNCHANGED inbox

(* The running step produces a frame.                                      *)
Emit(s, f) ==
  /\ busy
  /\ outbox' = [outbox EXCEPT ![s] = Append(@, f)]
  /\ UNCHANGED <<inbox, busy>>

(* The step ends: its input is consumed, its output stays.                 *)
End == busy /\ busy' = FALSE /\ inbox' = EmptyIn /\ UNCHANGED outbox

(* The instance is created or freed.                                       *)
Restart == ~busy /\ inbox' = EmptyIn /\ outbox' = EmptyOut /\ UNCHANGED busy

MNext ==
  \/ \E s \in RxBox, f \in Item : Put(s, f)
  \/ Discard
  \/ Begin
  \/ \E s \in TxBox, f \in Item : Emit(s, f)
  \/ End
  \/ Restart

MSpec == MInit /\ [][MNext]_mvars
=============================================================================
