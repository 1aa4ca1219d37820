------------------------------ MODULE MCBoard ------------------------------
(***************************************************************************)
(* Small boards for TLC.                                                   *)
(***************************************************************************)
EXTENDS Board

\* One cell on, one cell back.
MCOffsets == {-1, 1}

\* One cell of every kind.
FiveCells  == <<"START", "CHANCE", "CHALLENGE", "AIRPORT", "ROULETTE">>

\* Two chance cells, so that two cards can be held, and two challenge cells.
SevenCells == <<"START", "ROULETTE", "CHALLENGE", "AIRPORT", "CHALLENGE",
                "CHANCE", "CHANCE">>

\* One difficulty, so that both challenge cells offer the same challenges.
OneLevel      == [c \in Cells |-> 1]
AllOfOneLevel == [h \in Challenges |-> 1]

\* For every set of consumed cells, every start and every roll of up to a lap
\* and one, whether or not a game gets there.
ASSUME LoopAgreesEverywhere ==
  \A gone \in SUBSET Cells, from \in Cells, n \in 1..(Last + 1), d \in {Forward, Backward} :
    LoopAgrees(gone, from, n, d)
=============================================================================
