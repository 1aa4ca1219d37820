--------------------------- MODULE MCDiceRecharge ---------------------------
(***************************************************************************)
(* Values for TLC.                                                         *)
(***************************************************************************)
EXTENDS DiceRecharge

MCAdjustments == {-2, -1, 2}
=============================================================================
