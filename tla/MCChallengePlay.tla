-------------------------- MODULE MCChallengePlay --------------------------
(***************************************************************************)
(* One line of two cells; nothing distinguishes two challenges or members. *)
(***************************************************************************)
EXTENDS ChallengePlay, TLC

OneLine == [c \in Cells |-> 1]

Interchangeable == Permutations(Challenges) \cup Permutations(Users) \cup Permutations(Cells)
=============================================================================
