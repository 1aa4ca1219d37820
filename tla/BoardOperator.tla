---------------------------- MODULE BoardOperator ----------------------------
(***************************************************************************)
(* The board of one team with the operators' corrections                   *)
(* (apps/adminpanel/views.py: board_position, board_cell_status,           *)
(* board_dice, challenge_visibility).  The first three take the same row   *)
(* lock as the board service, the last one the lock of the challenge, as   *)
(* an opening does: each is one action that interleaves with the team's.   *)
(***************************************************************************)
EXTENDS Board

CONSTANTS
  MaxCorrections,   \* bound on the corrections of one behaviour
  DiceAdjustments   \* the amounts board_dice is called with

ASSUME OperatorAssumption ==
  /\ MaxCorrections \in Nat
  /\ DiceAdjustments \subseteq Int \ {0}

VARIABLES
  corrections,   \* how many corrections were made
  forfeited      \* history: pending throws a forced move deleted

operatorVars == <<corrections, forfeited>>
allVars == <<vars, operatorVars>>

OperatorInit == Init /\ corrections = 0 /\ forfeited = 0

Correct == corrections < MaxCorrections /\ corrections' = corrections + 1

\* Mutant: the card that waits for a choice is left as it is.
MovePieceOnly(c, consume) ==
  /\ Correct
  /\ position' = c
  /\ active' = IF c = position THEN active ELSE NoChallenge
  /\ pending' = NoRoll
  /\ consumed' = IF consume THEN consumed \cup {c} ELSE consumed
  /\ forfeited' = forfeited + IF pending = NoRoll THEN 0 ELSE 1
  /\ UNCHANGED <<rolls, airportUsed, cards, challengeVars, spun, historyVars>>

\* board_position: the piece is put on c, the timer of the challenge it
\* leaves ends, a pending throw is dropped and with it the card that was
\* waiting for a choice.  The effect of the cell is not triggered.
MovePiece(c, consume) ==
  /\ Correct
  /\ position' = c
  /\ active' = IF c = position THEN active ELSE NoChallenge
  /\ cards' = [e \in CellsOf("CHANCE") |->
                 IF e \in Choosing
                 THEN [cards[e] EXCEPT !.status = "used", !.choice = NoChoice]
                 ELSE cards[e]]
  /\ pending' = NoRoll
  /\ consumed' = IF consume THEN consumed \cup {c} ELSE consumed
  /\ forfeited' = forfeited + IF pending = NoRoll THEN 0 ELSE 1
  /\ UNCHANGED <<rolls, airportUsed, challengeVars, spun, historyVars>>

\* _drop_cell_challenge: the candidates of the cell and its access are deleted.
DropChallenge(c) ==
  /\ candidate' = [e \in CellsOf("CHALLENGE") |-> IF e = c THEN NoCandidate ELSE candidate[e]]
  /\ access' = [h \in Challenges |-> IF h \in OpenedAt(c) THEN NoAccess ELSE access[h]]

\* Mutant: the timer goes on for a challenge that was dropped.
ResetCellOnly(c, consume) ==
  /\ Correct
  /\ DropChallenge(c)
  /\ consumed' = IF consume THEN consumed \cup {c} ELSE consumed \ {c}
  /\ UNCHANGED <<teamVars, pending, cards, published, spun, historyVars, forfeited>>

\* board_cell_status, UNVISITED and CONSUMED: the challenge of the cell is
\* dropped, with it the timer, and the consumption is removed or added.
ResetCell(c, consume) ==
  /\ Correct
  /\ DropChallenge(c)
  /\ active' = IF active \in OpenedAt(c) THEN NoChallenge ELSE active
  /\ consumed' = IF consume THEN consumed \cup {c} ELSE consumed \ {c}
  /\ UNCHANGED <<position, rolls, airportUsed, pending, cards, published, spun,
                 historyVars, forfeited>>

\* board_cell_status, OPENED and CLEARED: only where a challenge was opened.
MarkCell(c, status) ==
  /\ Correct
  /\ \E h \in OpenedAt(c) :
       /\ access' = [access EXCEPT ![h].status = status]
       /\ active' = IF status = "CLEARED"
                    THEN IF active = h THEN NoChallenge ELSE active
                    ELSE IF position = c /\ active = NoChallenge THEN h ELSE active
  /\ consumed' = consumed \cup {c}
  /\ UNCHANGED <<position, rolls, airportUsed, pending, cards, candidate, published,
                 spun, historyVars, forfeited>>

\* challenge_visibility: a challenge is hidden, or shown again.
ChangeVisibility(h) ==
  /\ Correct
  /\ published' = IF h \in published THEN published \ {h} ELSE published \cup {h}
  /\ UNCHANGED <<teamVars, consumed, pending, cards, candidate, access, spun,
                 historyVars, forfeited>>

\* board_dice: a grant is cut at capacity, a deduction is refused when the
\* team has too few dice.  It works on a completed board too.
AdjustDice(amount) ==
  /\ Correct
  /\ rolls + amount >= 0
  /\ rolls' = IF amount > 0 /\ rolls + amount > MaxRolls THEN MaxRolls ELSE rolls + amount
  /\ UNCHANGED <<position, airportUsed, active, consumed, pending, cards,
                 challengeVars, spun, historyVars, forfeited>>

Operator ==
  \/ \E c \in Cells, consume \in BOOLEAN : MovePiece(c, consume) \/ ResetCell(c, consume)
  \/ \E c \in CellsOf("CHALLENGE"), status \in {"OPENED", "CLEARED"} : MarkCell(c, status)
  \/ \E h \in Challenges : ChangeVisibility(h)
  \/ \E amount \in DiceAdjustments : AdjustDice(amount)

Play == Next /\ UNCHANGED operatorVars

OperatorNext == Play \/ Operator

OperatorSpec == OperatorInit /\ [][OperatorNext]_allVars

-----------------------------------------------------------------------------
(* Properties *)

\* Corrections neither duplicate nor lose a throw: only the pending throw a
\* forced move deletes ends without a landing.
DieLandsOrIsForfeited ==
  landings + forfeited + (IF pending = NoRoll THEN 0 ELSE 1)
    = spent + (IF airportUsed THEN 1 ELSE 0) + Cardinality(FreeMovesUsed)

\* However the operators move the piece, hide challenges or rewrite cells, the
\* active challenge is opened and unsolved.  The one exception is the stale
\* candidate of a challenge that was solved at another cell: opening it makes
\* that access active, while this cell stays without one and holds the piece.
ActiveIsOpened ==
  active # NoChallenge =>
    \/ access[active].status = "OPENED"
    \/ /\ access[active].status = "CLEARED"
       /\ access[active].cell # position
       /\ ChallengeNotSelected

\* A forced move never leaves a waiting choice behind (the code closes it
\* because "every later confirmation would be blocked"): open numbers still
\* belong to the pending roll, and with a free cell on the board the team can
\* resolve whatever is pending, by either number where two are open.
PendingCanBeResolved ==
  /\ ChoiceOwnsPending
  /\ pending # NoRoll /\ consumed # Cells =>
       \/ MayConfirmRoll
       \/ \E c \in Choosing : \A which \in 1..2 : ChoiceEnds(c, which) # {}
=============================================================================
