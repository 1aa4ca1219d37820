------------------------------ MODULE Movement ------------------------------
(***************************************************************************)
(* compute_movement of the board service: where a roll of n ends on a      *)
(* circular board whose consumed cells are skipped, and how often the walk *)
(* crosses START.  The code walks cell by cell; the definitions below say  *)
(* where that walk ends by ranking the free cells by their distance, so    *)
(* that proofs need no recursion.  MovementLoop holds the walk itself and  *)
(* compares the two.                                                       *)
(***************************************************************************)
EXTENDS Integers, FiniteSets

CONSTANT Last      \* BOARD_SIZE: the cells are numbered 1..Last

ASSUME LastAssumption == Last \in Nat /\ Last >= 2

Start == 1
Cells == 1..Last

\* The cells whose consumption completes the board: every cell but START.
CompletionCells == Cells \ {Start}

Forward  == 1
Backward == -1

\* The cell k steps away from c in direction d (_step, k times).
Walk(c, k, d) == ((c - 1 + d * k) % Last) + 1

\* How many steps from one cell to another: 1..Last, a full turn to itself.
Gap(from, to, d) ==
  LET turn == (d * (to - from)) % Last
  IN  IF turn = 0 THEN Last ELSE turn

\* The only completion cell left, as a set; the walk stops when it meets it.
FinalCell(consumed) ==
  LET remaining == CompletionCells \ consumed
  IN  {c \in remaining : remaining = {c}}

\* The place of a free cell among the free cells met when leaving `from'.
Rank(consumed, from, to, d) ==
  Cardinality({c \in Cells \ consumed : Gap(from, c, d) <= Gap(from, to, d)})

\* The cells where a move of n ends: exactly one, or none when every cell is
\* consumed (BoardNotReady).
Destinations(consumed, from, n, d) ==
  LET free    == Cells \ consumed
      stopsAt == {c \in FinalCell(consumed) : Rank(consumed, from, c, d) <= n}
  IN  IF stopsAt # {}
      THEN stopsAt
      ELSE {c \in free :
              Rank(consumed, from, c, d) = ((n - 1) % Cardinality(free)) + 1}

\* How often a move of n that ends at `to' meets START (start_pass_count).
StartPasses(consumed, from, to, n, d) ==
  LET laps == IF FinalCell(consumed) # {}
              THEN 0
              ELSE (n - 1) \div Cardinality(Cells \ consumed)
  IN  laps + IF Gap(from, Start, d) <= Gap(from, to, d) THEN 1 ELSE 0
=============================================================================
