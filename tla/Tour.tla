-------------------------------- MODULE Tour --------------------------------
(***************************************************************************)
(* What the board promises about movement, without dice, cards or pending  *)
(* rolls: the team's piece tours the cells, every move takes it to a cell  *)
(* it has not visited, and once in a game it may step on a visited cell    *)
(* again.                                                                  *)
(***************************************************************************)
CONSTANTS Places, Home

VARIABLES at, visited, strayed

vars == <<at, visited, strayed>>

Init ==
  /\ at = Home
  /\ visited = {}
  /\ strayed = FALSE

\* A move to a cell that was not visited before.
Visit(c) ==
  /\ c \notin visited
  /\ at' = c
  /\ visited' = visited \cup {c}
  /\ UNCHANGED strayed

\* The one move that may end on a visited cell.
Stray(c) ==
  /\ ~strayed
  /\ c \in visited
  /\ at' = c
  /\ strayed' = TRUE
  /\ UNCHANGED visited

Next == \E c \in Places : Visit(c) \/ Stray(c)

Spec == Init /\ [][Next]_vars
=============================================================================
