---------------------------- MODULE MovementLoop ----------------------------
(***************************************************************************)
(* The walk of compute_movement as the code performs it, cell by cell.  A  *)
(* loop is a function of the number of its rounds, so that it can be       *)
(* proved about.                                                           *)
(***************************************************************************)
EXTENDS Movement

\* What k rounds of a loop make of x.
Rounds(Body, x, k) ==
  LET value[i \in 0..k] == IF i = 0 THEN x ELSE Body[value[i - 1]]
  IN  value[k]

\* Where the cursor is, how often it met START, and whether the walk is over.
Cursors == [at : Cells, passes : Nat, over : BOOLEAN]

Onward(c, d) ==
  LET at == Walk(c.at, 1, d)
  IN  [at |-> at, passes |-> c.passes + (IF at = Start THEN 1 ELSE 0), over |-> FALSE]

\* Mutant: the next cell counts whether it is consumed or not.
NextCell(c, consumed, d) == Onward(c, d)

\* A round of the inner `while True': on from a consumed cell.
Skip(consumed, d) ==
  [c \in Cursors |-> IF c.at \in consumed THEN Onward(c, d) ELSE c]

\* The next free cell, or a consumed one if Last cells were tried in vain.
NextFree(c, consumed, d) == Rounds(Skip(consumed, d), Onward(c, d), Last - 1)

\* A round of the outer `for': it ends early at the final cell, or where no cell
\* is free (BoardNotReady).
Hop(consumed, d) ==
  [c \in Cursors |->
     LET next == NextFree(c, consumed, d)
     IN  IF c.over
         THEN c
         ELSE [next EXCEPT !.over = next.at \in consumed \cup FinalCell(consumed)]]

LoopMove(consumed, from, n, d) ==
  Rounds(Hop(consumed, d), [at |-> from, passes |-> 0, over |-> FALSE], n)

-----------------------------------------------------------------------------
\* The ranking of Movement says exactly where the loop ends and what it
\* counts: compute_movement finds a unique destination unless every cell is
\* consumed.
LoopAgrees(consumed, from, n, d) ==
  LET end == LoopMove(consumed, from, n, d) IN
    IF end.at \in consumed
    THEN Destinations(consumed, from, n, d) = {}
    ELSE /\ Destinations(consumed, from, n, d) = {end.at}
         /\ StartPasses(consumed, from, end.at, n, d) = end.passes
=============================================================================
