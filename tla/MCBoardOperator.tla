-------------------------- MODULE MCBoardOperator --------------------------
(***************************************************************************)
(* Small boards for TLC.                                                   *)
(***************************************************************************)
EXTENDS BoardOperator, TLC

\* Two challenge cells, so that a candidate can outlive an opening elsewhere.
FiveCells == <<"START", "CHANCE", "CHALLENGE", "AIRPORT", "CHALLENGE">>
OneLevel      == [c \in Cells |-> 1]
AllOfOneLevel == [h \in Challenges |-> 1]
Interchangeable == Permutations(Challenges)

MCOffsets == {-1, 1}
MCAdjustments == {-1, 1}
=============================================================================
