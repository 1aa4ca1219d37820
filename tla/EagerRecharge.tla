--------------------------- MODULE EagerRecharge ---------------------------
(***************************************************************************)
(* The recharge a player is promised: a die arrives at the very moment it  *)
(* is due, the next one an interval later, up to capacity; a completed     *)
(* board stops the clock and a reopened one goes on where it stopped.  The *)
(* settings are fixed.  DiceRecharge implements it without a timer.        *)
(***************************************************************************)
EXTENDS Integers

CONSTANTS CapacityOptions, IntervalOptions, None

VARIABLES
  capacity, interval, rolls, left, paused, completed,
  beat   \* flips whenever time passes

vars == <<capacity, interval, rolls, left, paused, completed, beat>>

Init ==
  /\ capacity \in CapacityOptions
  /\ interval \in IntervalOptions
  /\ rolls = capacity
  /\ left = None
  /\ paused = None
  /\ completed = FALSE
  /\ beat = 0

Fixed == UNCHANGED <<capacity, interval, beat>>

\* Time passes.
Beat == beat' = 1 - beat /\ UNCHANGED <<capacity, interval>>

\* The time to the next die, on an open board below capacity.
Remaining == IF left = None THEN interval ELSE left

Idle ==
  /\ left = None
  /\ Beat /\ UNCHANGED <<rolls, left, paused, completed>>

Wait ==
  /\ left # None
  /\ left > 1
  /\ left' = left - 1
  /\ Beat /\ UNCHANGED <<rolls, paused, completed>>

DieArrives ==
  /\ left = 1
  /\ rolls' = rolls + 1
  /\ left' = IF rolls' < capacity THEN interval ELSE None
  /\ Beat /\ UNCHANGED <<paused, completed>>

Throw(completes) ==
  /\ ~completed
  /\ rolls > 0
  /\ rolls' = rolls - 1
  /\ completed' = completes
  /\ IF completes
     THEN paused' = Remaining /\ left' = None
     ELSE left' = Remaining /\ UNCHANGED paused
  /\ Fixed

\* Dice beside the clock; a full hand stops it.
Gain(n) ==
  /\ rolls' = IF rolls + n < capacity THEN rolls + n ELSE capacity
  /\ IF rolls' = capacity
     THEN left' = None /\ paused' = None
     ELSE UNCHANGED <<left, paused>>
  /\ Fixed /\ UNCHANGED completed

Lose(n) ==
  /\ n <= rolls
  /\ rolls' = rolls - n
  /\ left' = IF completed THEN None ELSE Remaining
  /\ Fixed /\ UNCHANGED <<paused, completed>>

Complete ==
  /\ ~completed
  /\ completed' = TRUE
  /\ paused' = left
  /\ left' = None
  /\ Fixed /\ UNCHANGED rolls

Reopen ==
  /\ completed
  /\ completed' = FALSE
  /\ left' = IF rolls = capacity THEN None
             ELSE IF paused = None THEN interval ELSE paused
  /\ paused' = None
  /\ Fixed /\ UNCHANGED rolls

Next ==
  \/ Idle \/ Wait \/ DieArrives
  \/ \E completes \in BOOLEAN : Throw(completes)
  \/ \E n \in 1..capacity : Gain(n) \/ Lose(n)
  \/ Complete \/ Reopen

Spec == Init /\ [][Next]_vars
=============================================================================
