------------------------ MODULE MCScoreTransactions ------------------------
(***************************************************************************)
(* Scores for TLC.  MCScorings: with the first parameters a second solve   *)
(* lowers the score and a first one does not; the others are flat.         *)
(* NinthOfTen: the ninth of ten, a step of the first score, has no finite  *)
(* decimal.                                                                *)
(***************************************************************************)
EXTENDS ScoreTransactions, TLC

MCScorings == {[initial |-> 3, minimum |-> 1, decay |-> 2],
               [initial |-> 2, minimum |-> 1, decay |-> 1]}

NinthOfTen == {[initial |-> 11, minimum |-> 1, decay |-> 3],
               [initial |-> 11, minimum |-> 1, decay |-> 2]}

Interchangeable == Permutations(Processes)

\* Rounding never lowers a score, and raises it by one at most.
ASSUME RoundsUp ==
  \A i \in 1..10, m \in 1..10, d \in 1..5, n \in 0..8 :
    LET g == [initial |-> i, minimum |-> m, decay |-> d] IN
      m <= i => calculate_dynamic_score(g, n) - ExactScore(g, n) \in {0, 1}
=============================================================================
