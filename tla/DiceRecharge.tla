---------------------------- MODULE DiceRecharge ----------------------------
(***************************************************************************)
(* The recharge clock of one team's dice (_update_dice_recharge and its    *)
(* callers).  Nothing runs when a recharge falls due: the row keeps a      *)
(* deadline, and whoever next reads or writes the board pays out what has  *)
(* elapsed.  A completed board keeps the time that was left instead.       *)
(*                                                                         *)
(* Time is discrete and relative: `left' is the deadline minus now, which  *)
(* is zero or negative when the recharge is overdue.  Every write of the   *)
(* board first updates the clock under the row lock, changes the dice, and *)
(* updates the clock again, all at one instant, so it is one action.       *)
(***************************************************************************)
EXTENDS Integers

CONSTANTS
  CapacityOptions,   \* values of board.dice_rolls_per_reset
  IntervalOptions,   \* values of board.dice_reset_interval_minutes
  Adjustments,       \* amounts board_dice is called with
  MaxOverdue,        \* bound: how long nobody looks at an overdue clock
  MaxChanges,        \* bound: how often the settings change
  None               \* SQL NULL

ASSUME RechargeAssumption ==
  /\ CapacityOptions \subseteq Nat \ {0}
  /\ IntervalOptions \subseteq Nat \ {0}
  /\ Adjustments \subseteq Int \ {0}
  /\ MaxOverdue \in Nat
  /\ MaxChanges \in Nat
  /\ None \notin Int

VARIABLES
  capacity,    \* AdminSetting board.dice_rolls_per_reset
  interval,    \* AdminSetting board.dice_reset_interval_minutes
  clock,       \* the three dice columns of TeamBoardState
  completed,   \* is_board_completed
  changes,     \* how often the settings changed
  beat         \* parity of the wall clock: no tick is a stuttering step

vars == <<capacity, interval, clock, completed, changes, beat>>

\* dice_rolls_left; next_dice_reset_at - now; recharge_paused_seconds.
Clocks == [rolls : Nat, left : Int \cup {None}, paused : Nat \cup {None}]

TypeOK ==
  /\ capacity \in CapacityOptions
  /\ interval \in IntervalOptions
  /\ clock \in Clocks
  /\ completed \in BOOLEAN
  /\ changes \in 0..MaxChanges
  /\ beat \in {0, 1}

Init ==
  /\ capacity \in CapacityOptions
  /\ interval \in IntervalOptions
  /\ clock = [rolls |-> capacity, left |-> None, paused |-> None]
  /\ completed = FALSE
  /\ changes = 0
  /\ beat = 0

-----------------------------------------------------------------------------
Smaller(m, n) == IF m < n THEN m ELSE n
Larger(m, n)  == IF m > n THEN m ELSE n

\* _pause_recharge: keep what was left for the day the board is reopened.
Pause(k) ==
  [k EXCEPT !.left   = None,
            !.paused = IF k.left = None THEN @ ELSE Larger(0, k.left)]

\* A clock below capacity on an open board that does not run yet: it goes on
\* where it was paused, or starts a full interval.
Resume(k) ==
  [k EXCEPT !.left   = IF k.paused = None THEN interval ELSE k.paused,
            !.paused = None]

\* Mutant: the next interval starts now.
PayOutFromNow(k) ==
  LET elapsed == ((-k.left) \div interval) + 1
      rolls   == Smaller(capacity, k.rolls + elapsed)
  IN  [k EXCEPT !.rolls = rolls,
                !.left  = IF rolls < capacity THEN interval ELSE None]

\* The recharges that are overdue, paid at once; the deadline moves on by
\* whole intervals.
PayOut(k) ==
  LET elapsed == ((-k.left) \div interval) + 1
      rolls   == Smaller(capacity, k.rolls + elapsed)
  IN  [k EXCEPT !.rolls = rolls,
                !.left  = IF rolls < capacity THEN k.left + elapsed * interval ELSE None]

\* Mutant: every update restarts the interval.
UpdateRestarts(k, done) ==
  IF k.rolls >= capacity THEN [k EXCEPT !.left = None, !.paused = None]
  ELSE IF done THEN Pause(k)
  ELSE IF k.left = None THEN Resume(k)
  ELSE IF k.left > 0 THEN [k EXCEPT !.left = interval]
  ELSE PayOut(k)

\* _update_dice_recharge.
Update(k, done) ==
  IF k.rolls >= capacity THEN [k EXCEPT !.left = None, !.paused = None]
  ELSE IF done THEN Pause(k)
  ELSE IF k.left = None THEN Resume(k)
  ELSE IF k.left > 0 THEN k
  ELSE PayOut(k)

\* The clock every transaction under the row lock works on
\* (apply_pending_dice_recharge in board_state_for_update).
Fresh == Update(clock, completed)

\* grant_dice_roll of n dice on a clock.
Granted(k, n, done) ==
  IF done
  THEN Pause(k)
  ELSE LET up == Update(k, done)
       IN  Update([up EXCEPT !.rolls = @ + Larger(0, Smaller(n, capacity - @))], done)

-----------------------------------------------------------------------------
Tick ==
  /\ clock.left # None => clock.left > -MaxOverdue
  /\ clock' = IF clock.left = None THEN clock ELSE [clock EXCEPT !.left = @ - 1]
  /\ beat' = 1 - beat
  /\ UNCHANGED <<capacity, interval, completed, changes>>

\* get_board_state_for_read: the write transaction is skipped when the read
\* cannot change the clock.
UpdateRequired ==
  IF clock.left = None
  THEN clock.rolls < capacity
  ELSE clock.rolls >= capacity \/ clock.left <= 0 \/ completed

Read ==
  /\ UpdateRequired
  /\ clock' = Fresh
  /\ UNCHANGED <<capacity, interval, completed, changes, beat>>

\* Mutant: the clock is not updated after the throw.
ConsumeOnly(completes) ==
  /\ ~completed
  /\ Fresh.rolls > 0
  /\ clock' = [Fresh EXCEPT !.rolls = @ - 1]
  /\ completed' = completes
  /\ UNCHANGED <<capacity, interval, changes, beat>>

\* A throw (_consume_dice_roll), which may complete the board when it lands
\* (finalize_landing pauses the clock at once).
Consume(completes) ==
  /\ ~completed
  /\ Fresh.rolls > 0
  /\ LET thrown == Update([Fresh EXCEPT !.rolls = @ - 1], FALSE)
     IN  clock' = IF completes THEN Pause(thrown) ELSE thrown
  /\ completed' = completes
  /\ UNCHANGED <<capacity, interval, changes, beat>>

\* A landing that costs no die (airport, free travel, a confirmed roll) and
\* completes the board.
CompleteForFree ==
  /\ ~completed
  /\ completed' = TRUE
  /\ clock' = Pause(Fresh)
  /\ UNCHANGED <<capacity, interval, changes, beat>>

\* A reward of one die: START, a chance draw, a solve, an extra-roll card.
Reward ==
  /\ clock' = Granted(Fresh, 1, completed)
  /\ UNCHANGED <<capacity, interval, completed, changes, beat>>

\* board_dice: the balance is changed first and the clock follows.
Adjust(amount) ==
  /\ Fresh.rolls + amount >= 0
  /\ LET applied == IF amount > 0
                    THEN Larger(0, Smaller(amount, capacity - Fresh.rolls))
                    ELSE amount
     IN  clock' = Update([Fresh EXCEPT !.rolls = @ + applied], completed)
  /\ UNCHANGED <<capacity, interval, completed, changes, beat>>

\* board_cell_status takes back the last consumed cell, or consumes the last
\* free one, and updates the clock under the new state of the board.
SetCompleted(done) ==
  /\ completed' = done
  /\ clock' = Update(Fresh, done)
  /\ UNCHANGED <<capacity, interval, changes, beat>>

\* settings_view: the rows are written, no team's clock is touched.
ChangeSettings(newCapacity, newInterval) ==
  /\ changes < MaxChanges
  /\ changes' = changes + 1
  /\ capacity' = newCapacity
  /\ interval' = newInterval
  /\ UNCHANGED <<clock, completed, beat>>

Next ==
  \/ Tick
  \/ Read
  \/ \E completes \in BOOLEAN : Consume(completes)
  \/ CompleteForFree
  \/ Reward
  \/ \E amount \in Adjustments : Adjust(amount)
  \/ \E done \in BOOLEAN : SetCompleted(done)
  \/ \E c \in CapacityOptions, i \in IntervalOptions : ChangeSettings(c, i)

Spec == Init /\ [][Next]_vars

\* Time passes.  Nobody has to look at the board.
FairSpec == Spec /\ WF_vars(Tick)

-----------------------------------------------------------------------------
(* Properties *)

\* Between transactions the clock runs exactly while a recharge is owed: on
\* an open board below capacity.  It keeps paused time on a completed board
\* only.  (For fixed settings; a changed capacity takes effect at the next
\* update.)
ClockRunsWhenOwed ==
  changes = 0 =>
    /\ clock.rolls <= capacity
    /\ clock.left # None <=> (clock.rolls < capacity /\ ~completed)
    /\ clock.left # None => clock.left <= interval
    /\ clock.paused # None =>
         completed /\ clock.rolls < capacity /\ clock.paused \in 0..interval

\* A team on an open board can throw again after some time, whatever else is
\* done to its clock: every write pays out what has elapsed, so no sequence
\* of rewards, corrections, completions and polls postpones the die for ever.
RechargeArrives == ~completed ~> (completed \/ Fresh.rolls > 0)

\* Until the settings are changed, the lazy clock cannot be told from one that
\* pays each die the moment it is due: whoever looks sees what such a clock
\* would show.
EagerClock ==
  INSTANCE EagerRecharge WITH rolls <- Fresh.rolls, left <- Fresh.left,
                              paused <- Fresh.paused
PaysOnTime ==
  EagerClock!Init /\ [][changes' = 0 => [EagerClock!Next]_(EagerClock!vars)]_vars
=============================================================================
