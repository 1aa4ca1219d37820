------------------------------- MODULE Board -------------------------------
(***************************************************************************)
(* One team's game on the board (apps/board/services.py).                  *)
(*                                                                         *)
(* Every write of the board service runs in one transaction that holds the *)
(* team's TeamBoardState row (board_state_for_update), so every handler is *)
(* one action.  Each of them first applies a due recharge; reads apply it  *)
(* too, so it is the action Recharge here, and DiceRecharge has its clock. *)
(* The dice, the drawn card and whether an answer is still in time are     *)
(* choices of the environment.  START and roulette mileage is a counter    *)
(* that no board handler reads and is left out; the roulette receipts,     *)
(* which spin_roulette reads, are the variable spun.                       *)
(***************************************************************************)
EXTENDS MovementLoop

CONSTANTS
  KindOf,       \* the type of each cell (Cell.CellType)
  CellLevel,    \* the difficulty of each cell; only challenge cells are asked
  Challenges,   \* the challenges enrolled for the board (board_meta)
  LevelOf,      \* the difficulty of each challenge
  Published,    \* the challenges that are published when the game starts
  Offers,       \* CHALLENGE_CANDIDATE_COUNT
  NoChallenge,  \* "no active challenge"
  MaxRolls,     \* the setting board.dice_rolls_per_reset
  DiceTotals,   \* the numbers a throw can show
  Offsets,      \* the offsets of a move-offset card (MOVE_OFFSET_MIN..MAX, not 0)
  CardKinds,    \* the effects of the cards in the catalogue
  NoRoll        \* "no PendingDiceRoll row"

CellKinds == {"START", "CHALLENGE", "CHANCE", "AIRPORT", "ROULETTE"}
AllCardKinds == {"RE_ROLL", "ROLL_TWICE_CHOOSE", "MOVE_OFFSET", "FREE_MOVE",
                 "GRANT_EXTRA_ROLL"}

ASSUME BoardAssumption ==
  /\ KindOf \in [Cells -> CellKinds]
  /\ \A c \in Cells : KindOf[c] = "START" <=> c = Start
  /\ CellLevel \in [Cells -> Nat]
  /\ IsFiniteSet(Challenges) /\ NoChallenge \notin Challenges
  /\ Published \subseteq Challenges
  /\ LevelOf \in [Challenges -> Nat]
  /\ Offers \in Nat \ {0}
  /\ MaxRolls \in Nat \ {0}
  /\ DiceTotals \subseteq Nat \ {0} /\ DiceTotals # {}
  /\ Offsets \subseteq Int \ {0}
  /\ CardKinds \subseteq AllCardKinds

CellsOf(kind) == {c \in Cells : KindOf[c] = kind}

NoCell   == 0
NoChoice == <<>>
Choices  == {NoChoice} \cup (DiceTotals \X DiceTotals)

\* A TeamChanceCard row, kept under the chance cell it was drawn at.
CardRows == [kind : AllCardKinds, status : {"held", "used", "discarded"},
             choice : Choices]
NotDrawn == [kind |-> "RE_ROLL", status |-> "none", choice |-> NoChoice]

\* A PendingDiceRoll row: where the throw was made, what it showed, where it
\* will end.
Rolls == [from : Cells, number : DiceTotals, to : Cells]

ASSUME NoRollAssumption == NoRoll \notin Rolls

\* A TeamChallengeAccess row: the cell it was opened at, and its status.
NoAccess    == [cell |-> NoCell, status |-> "NONE"]
Accesses    == [cell : CellsOf("CHALLENGE"), status : {"OPENED", "CLEARED"}]
NoCandidate == [h \in Challenges |-> "NONE"]

VARIABLES
  position,     \* TeamBoardState.position
  rolls,        \* TeamBoardState.dice_rolls_left
  airportUsed,  \* TeamBoardState.airport_move_used
  active,       \* the challenge of active_challenge_access, or NoChallenge
  consumed,     \* the TeamCellConsumption rows
  pending,      \* the PendingDiceRoll row, or NoRoll
  cards,        \* chance cell -> its TeamChanceCard row, or NotDrawn
  candidate,    \* challenge cell, challenge -> TeamCellCandidate.status, or NONE
  access,       \* challenge -> its TeamChallengeAccess row, or NoAccess
  published,    \* the challenges with is_published
  spun,         \* roulette cells with a MileageHistory receipt
  \* History, for the properties only.
  spent,        \* dice spent on throws
  landings,     \* landings finalised
  relanded      \* cells landed on after they were consumed

teamVars      == <<position, rolls, airportUsed, active>>
challengeVars == <<candidate, access, published>>
historyVars   == <<spent, landings, relanded>>
vars == <<teamVars, consumed, pending, cards, challengeVars, spun, historyVars>>

TypeOK ==
  /\ position \in Cells
  /\ rolls \in 0..MaxRolls
  /\ airportUsed \in BOOLEAN
  /\ active \in Challenges \cup {NoChallenge}
  /\ consumed \subseteq Cells
  /\ pending \in Rolls \cup {NoRoll}
  /\ cards \in [CellsOf("CHANCE") -> CardRows \cup {NotDrawn}]
  /\ candidate \in [CellsOf("CHALLENGE") -> [Challenges -> {"NONE", "OFFERED", "SELECTED"}]]
  /\ access \in [Challenges -> Accesses \cup {NoAccess}]
  /\ published \subseteq Challenges
  /\ spun \subseteq CellsOf("ROULETTE")
  /\ spent \in Nat
  /\ landings \in Nat
  /\ relanded \subseteq Cells

\* get_or_create of the state row: the team spawns on START, which the spawn
\* does not consume, with a full set of dice.
Init ==
  /\ position = Start
  /\ rolls = MaxRolls
  /\ airportUsed = FALSE
  /\ active = NoChallenge
  /\ consumed = {}
  /\ pending = NoRoll
  /\ cards = [c \in CellsOf("CHANCE") |-> NotDrawn]
  /\ candidate = [c \in CellsOf("CHALLENGE") |-> NoCandidate]
  /\ access = [h \in Challenges |-> NoAccess]
  /\ published = Published
  /\ spun = {}
  /\ spent = 0
  /\ landings = 0
  /\ relanded = {}

-----------------------------------------------------------------------------
\* is_board_completed.
CompletedBy(cells) == CompletionCells \subseteq cells
Completed == CompletedBy(consumed)

\* _held_cards_queryset, by the cell each card was drawn at.
Held == {c \in CellsOf("CHANCE") : cards[c].status = "held"}
AwaitingDiscard == \E c, e \in Held : c # e

PostRollKinds == {"RE_ROLL", "MOVE_OFFSET"}

\* The held cards whose two numbers wait for confirm_chance_choice.
Choosing == {c \in Held : cards[c].choice # NoChoice}

\* The challenge that was opened at cell c, if any.
OpenedAt(c) == {h \in Challenges : access[h].cell = c}

\* compute_blocked_reason's CHALLENGE_NOT_SELECTED.
ChallengeNotSelected ==
  KindOf[position] = "CHALLENGE" /\ OpenedAt(position) = {}

\* What the operators' view board_readiness reports: every difficulty has at
\* least as many published challenges as the board has cells of it.
LevelCells(level) == {c \in CellsOf("CHALLENGE") : CellLevel[c] = level}
Playable(level)   == {h \in published : LevelOf[h] = level}
Ready == \A c \in CellsOf("CHALLENGE") :
           Cardinality(LevelCells(CellLevel[c])) <= Cardinality(Playable(CellLevel[c]))

\* Mutant: a reward on a completed board.
GrantAfterCompletion(r, cells) == IF r >= MaxRolls THEN r ELSE r + 1

\* grant_dice_roll of one die to a team with r dice whose consumed cells are
\* `cells': nothing on a completed board or at capacity.
Grant(r, cells) == IF CompletedBy(cells) \/ r >= MaxRolls THEN r ELSE r + 1

\* finalize_landing on c by a team with r dice: position, consumption and the
\* START die.  The transaction keeps the dice of the throw apart from it.
FinalizeLanding(c, r) ==
  /\ position' = c
  /\ consumed' = consumed \cup {c}
  /\ rolls' = IF c = Start THEN Grant(r, consumed') ELSE r
  /\ landings' = landings + 1
  /\ relanded' = IF c \in consumed THEN relanded \cup {c} ELSE relanded

\* _assert_can_roll.
CanRoll ==
  /\ ~Completed
  /\ ~ChallengeNotSelected
  /\ pending = NoRoll
  /\ rolls > 0

-----------------------------------------------------------------------------
(* Dice *)

\* apply_pending_dice_recharge: any number of elapsed intervals, up to
\* capacity, never on a completed board.
Recharge ==
  /\ ~Completed
  /\ rolls < MaxRolls
  /\ rolls' \in (rolls + 1)..MaxRolls
  /\ UNCHANGED <<position, airportUsed, active, consumed, pending, cards,
                 challengeVars, spun, historyVars>>

\* roll_dice without a card that may change the roll: the landing is final.
RollAndLand ==
  /\ CanRoll
  /\ \A c \in Held : cards[c].kind \notin PostRollKinds
  /\ \E n \in DiceTotals : \E to \in Destinations(consumed, position, n, Forward) :
       FinalizeLanding(to, rolls - 1)
  /\ spent' = spent + 1
  /\ UNCHANGED <<airportUsed, active, pending, cards, challengeVars, spun>>

\* roll_dice with a post-roll card in hand: the die is spent, the landing
\* waits in PendingDiceRoll.
RollAndHold ==
  /\ CanRoll
  /\ \E c \in Held : cards[c].kind \in PostRollKinds
  /\ \E n \in DiceTotals : \E to \in Destinations(consumed, position, n, Forward) :
       pending' = [from |-> position, number |-> n, to |-> to]
  /\ rolls' = rolls - 1
  /\ spent' = spent + 1
  /\ UNCHANGED <<position, airportUsed, active, consumed, cards, challengeVars, spun,
                 landings, relanded>>

\* Mutants: the confirmed roll is not deleted; a choice does not block it.
ConfirmRollAgain ==
  /\ pending # NoRoll
  /\ Choosing = {}
  /\ FinalizeLanding(pending.to, rolls)
  /\ UNCHANGED <<airportUsed, active, pending, cards, challengeVars, spun, spent>>

ConfirmRollUnchosen ==
  /\ pending # NoRoll
  /\ FinalizeLanding(pending.to, rolls)
  /\ pending' = NoRoll
  /\ UNCHANGED <<airportUsed, active, cards, challengeVars, spun, spent>>

\* confirm_dice_roll, with the key of the current pending roll: refused while
\* a choose card waits for its choice.
MayConfirmRoll == pending # NoRoll /\ Choosing = {}

ConfirmRoll ==
  /\ MayConfirmRoll
  /\ FinalizeLanding(pending.to, rolls)
  /\ pending' = NoRoll
  /\ UNCHANGED <<airportUsed, active, cards, challengeVars, spun, spent>>

\* move_team_via_airport: once per game, to a free cell.  It does not look at
\* PendingDiceRoll.
AirportMove(c) ==
  /\ KindOf[position] = "AIRPORT"
  /\ ~airportUsed
  /\ c \notin consumed
  /\ airportUsed' = TRUE
  /\ FinalizeLanding(c, rolls)
  /\ UNCHANGED <<active, pending, cards, challengeVars, spun, spent>>

\* spin_roulette: once per cell, told by the mileage receipt.
SpinRoulette ==
  /\ KindOf[position] = "ROULETTE"
  /\ position \notin spun
  /\ spun' = spun \cup {position}
  /\ consumed' = consumed \cup {position}
  /\ UNCHANGED <<teamVars, pending, cards, challengeVars, historyVars>>

-----------------------------------------------------------------------------
(* Challenge cells *)

\* What stays of the candidates of the cell: neither those that were opened
\* anywhere, nor offers that are no longer published.
Kept ==
  {h \in Challenges :
     /\ access[h] = NoAccess
     /\ \/ candidate[position][h] = "SELECTED"
        \/ candidate[position][h] = "OFFERED" /\ h \in published}

\* Mutant: what another cell has offered is not offered here.
FreeAnywhere ==
  {h \in Playable(CellLevel[position]) \ Kept :
     access[h] = NoAccess /\ \A c \in CellsOf("CHALLENGE") : candidate[c][h] = "NONE"}

\* What may fill the places that are left.
Free == {h \in Playable(CellLevel[position]) \ Kept : access[h] = NoAccess}

\* The random.sample of them.
Samples ==
  {new \in SUBSET Free :
     Cardinality(new) = IF Cardinality(Kept) + Cardinality(Free) <= Offers
                        THEN Cardinality(Free)
                        ELSE Offers - Cardinality(Kept)}

\* get_current_cell_candidates: what is out of date goes and the free places
\* are filled; where a challenge was opened all candidates go.
ListCandidates ==
  /\ pending = NoRoll
  /\ KindOf[position] = "CHALLENGE"
  /\ \/ /\ OpenedAt(position) # {}
        /\ candidate' = [candidate EXCEPT ![position] = NoCandidate]
     \/ /\ OpenedAt(position) = {}
        /\ \E new \in Samples :
             candidate' = [candidate EXCEPT ![position] =
                             [h \in Challenges |-> CASE h \in new  -> "OFFERED"
                                                     [] h \in Kept -> candidate[position][h]
                                                     [] OTHER      -> "NONE"]]
  /\ UNCHANGED <<teamVars, consumed, pending, cards, access, published, spun,
                 historyVars>>

\* open_current_cell_challenge, of an offered and published candidate.  The
\* candidate may be older than an opening of the same challenge at another
\* cell: get_or_create then returns that access, whatever its status.
OpenChallenge(h) ==
  /\ pending = NoRoll
  /\ ChallengeNotSelected
  /\ candidate[position][h] = "OFFERED"
  /\ h \in published
  /\ candidate' = [candidate EXCEPT ![position][h] = "SELECTED"]
  /\ access' = IF access[h] = NoAccess
               THEN [access EXCEPT ![h] = [cell |-> position, status |-> "OPENED"]]
               ELSE access
  /\ active' = h
  /\ UNCHANGED <<position, rolls, airportUsed, consumed, pending, cards, published,
                 spun, historyVars>>

\* complete_challenge_from_submission, for a correct flag: the extra die is
\* paid while the team still stands there and is in time.  A challenge that an
\* operator has marked as cleared only gives up the timer.
SolveChallenge(h, inTime) ==
  /\ access[h] # NoAccess
  /\ access' = [access EXCEPT ![h].status = "CLEARED"]
  /\ active' = IF active = h THEN NoChallenge ELSE active
  /\ rolls' = IF /\ access[h].status = "OPENED"
                 /\ position = access[h].cell /\ active = h /\ inTime
              THEN Grant(rolls, consumed)
              ELSE rolls
  /\ UNCHANGED <<position, airportUsed, consumed, pending, cards, candidate,
                 published, spun, historyVars>>

-----------------------------------------------------------------------------
(* Chance cards *)

\* draw_chance_card.
DrawCard(kind) ==
  /\ pending = NoRoll
  /\ KindOf[position] = "CHANCE"
  /\ cards[position] = NotDrawn
  /\ cards' = [cards EXCEPT ![position] =
                 [kind |-> kind, status |-> "held", choice |-> NoChoice]]
  /\ consumed' = consumed \cup {position}
  /\ rolls' = Grant(rolls, consumed')
  /\ UNCHANGED <<position, airportUsed, active, pending, challengeVars, spun,
                 historyVars>>

\* discard_chance_card: only out of two, and never the card that owns the
\* pending movement.
DiscardCard(c) ==
  /\ AwaitingDiscard
  /\ c \in Held
  /\ cards[c].choice = NoChoice
  /\ cards' = [cards EXCEPT ![c].status = "discarded"]
  /\ UNCHANGED <<teamVars, consumed, pending, challengeVars, spun, historyVars>>

\* use_chance_card up to the effect: the row is held, no discard is owed, and
\* _card_usable_now accepts the moment.
MayUse(c, kind) ==
  /\ c \in Held
  /\ cards[c].kind = kind
  /\ ~AwaitingDiscard
  /\ IF kind \in PostRollKinds
     THEN pending # NoRoll
     ELSE pending = NoRoll /\ ~Completed /\ ~ChallengeNotSelected

Spend(c) == cards' = [cards EXCEPT ![c].status = "used"]

\* Mutant: the new throw counts consumed cells too.
UseReRollOverAll(c) ==
  /\ MayUse(c, "RE_ROLL")
  /\ \E n \in DiceTotals : \E to \in Destinations({}, pending.from, n, Forward) :
       FinalizeLanding(to, rolls)
  /\ Spend(c)
  /\ pending' = NoRoll
  /\ UNCHANGED <<airportUsed, active, challengeVars, spun, spent>>

\* _effect_reroll: a new throw from where the pending one was made.
UseReRoll(c) ==
  /\ MayUse(c, "RE_ROLL")
  /\ \E n \in DiceTotals :
       \E to \in Destinations(consumed, pending.from, n, Forward) :
         FinalizeLanding(to, rolls)
  /\ Spend(c)
  /\ pending' = NoRoll
  /\ UNCHANGED <<airportUsed, active, challengeVars, spun, spent>>

\* Mutant: the offset card leaves the pending throw behind.
UseMoveOffsetOnly(c, offset) ==
  /\ MayUse(c, "MOVE_OFFSET")
  /\ \E to \in IF offset > 0
               THEN Destinations(consumed, pending.to, offset, Forward)
               ELSE Destinations(consumed, pending.to, -offset, Backward) :
       FinalizeLanding(to, rolls)
  /\ Spend(c)
  /\ UNCHANGED <<airportUsed, active, pending, challengeVars, spun, spent>>

\* _effect_move_offset: a few free cells on, or back, from the candidate.
UseMoveOffset(c, offset) ==
  /\ MayUse(c, "MOVE_OFFSET")
  /\ \E to \in IF offset > 0
               THEN Destinations(consumed, pending.to, offset, Forward)
               ELSE Destinations(consumed, pending.to, -offset, Backward) :
       FinalizeLanding(to, rolls)
  /\ Spend(c)
  /\ pending' = NoRoll
  /\ UNCHANGED <<airportUsed, active, challengeVars, spun, spent>>

\* _effect_free_move.
UseFreeMove(c, to) ==
  /\ MayUse(c, "FREE_MOVE")
  /\ rolls > 0                    \* compute_blocked_reason: NO_ROLL_LEFT
  /\ to \notin consumed
  /\ FinalizeLanding(to, rolls)
  /\ Spend(c)
  /\ UNCHANGED <<airportUsed, active, pending, challengeVars, spun, spent>>

\* _effect_grant_extra_roll: usable without dice, refused at capacity.
UseExtraRoll(c) ==
  /\ MayUse(c, "GRANT_EXTRA_ROLL")
  /\ rolls < MaxRolls
  /\ rolls' = Grant(rolls, consumed)
  /\ Spend(c)
  /\ UNCHANGED <<position, airportUsed, active, consumed, pending, challengeVars, spun,
                 historyVars>>

\* _effect_roll_twice_choose: one die, two numbers, and a pending roll that
\* carries the first until the choice is made.
UseRollTwice(c) ==
  /\ MayUse(c, "ROLL_TWICE_CHOOSE")
  /\ CanRoll
  /\ \E first, second \in DiceTotals :
       /\ Destinations(consumed, position, second, Forward) # {}
       /\ \E to \in Destinations(consumed, position, first, Forward) :
            pending' = [from |-> position, number |-> first, to |-> to]
       /\ cards' = [cards EXCEPT ![c].choice = <<first, second>>]
  /\ rolls' = rolls - 1
  /\ spent' = spent + 1
  /\ UNCHANGED <<position, airportUsed, active, consumed, challengeVars, spun,
                 landings, relanded>>

\* confirm_chance_choice: the chosen number is walked from where the throw
\* was made, over the cells consumed by now.
ChoiceEnds(c, which) ==
  Destinations(consumed, pending.from, cards[c].choice[which], Forward)

ConfirmChoice(c, which) ==
  /\ c \in Choosing
  /\ pending # NoRoll
  /\ \E to \in ChoiceEnds(c, which) : FinalizeLanding(to, rolls)
  /\ cards' = [cards EXCEPT ![c].status = "used", ![c].choice = NoChoice]
  /\ pending' = NoRoll
  /\ UNCHANGED <<airportUsed, active, challengeVars, spun, spent>>

-----------------------------------------------------------------------------
Dice == Recharge \/ RollAndLand \/ RollAndHold \/ ConfirmRoll

Cell ==
  \/ \E c \in Cells : AirportMove(c)
  \/ SpinRoulette
  \/ ListCandidates
  \/ \E h \in Challenges : OpenChallenge(h)
  \/ \E h \in Challenges, inTime \in BOOLEAN : SolveChallenge(h, inTime)

Chance ==
  \/ \E kind \in CardKinds : DrawCard(kind)
  \/ \E c \in CellsOf("CHANCE") :
       \/ DiscardCard(c)
       \/ UseReRoll(c)
       \/ \E offset \in Offsets : UseMoveOffset(c, offset)
       \/ \E to \in Cells : UseFreeMove(c, to)
       \/ UseExtraRoll(c)
       \/ UseRollTwice(c)
       \/ \E which \in 1..2 : ConfirmChoice(c, which)

Next == Dice \/ Cell \/ Chance

Spec == Init /\ [][Next]_vars

\* How a game goes on: time recharges the dice, and the leader resolves what is
\* pending, looks at the candidates, picks a challenge, throws.
GoOn ==
  \/ Recharge
  \/ ListCandidates
  \/ \E h \in Challenges : OpenChallenge(h)
  \/ RollAndLand \/ RollAndHold
  \/ ConfirmRoll \/ \E c \in CellsOf("CHANCE"), which \in 1..2 : ConfirmChoice(c, which)

\* Nobody stops while one of these is open.  Which one is taken, and what the
\* team does besides, is left to the players.  The code promises none of it but
\* the recharge; it is an assumption under which the rules must let them finish.
KeepPlaying == WF_vars(GoOn)

FairSpec == Spec /\ KeepPlaying

-----------------------------------------------------------------------------
(* Properties *)

\* The walk of compute_movement, cell by cell, ends where the ranking says and
\* passes START as often, whatever the team may walk from where it stands: a
\* throw, an offset forward or backward.
ClosedFormAgrees ==
  \A n \in DiceTotals, d \in {Forward, Backward} : LoopAgrees(consumed, position, n, d)

FreeMovesUsed ==
  {c \in CellsOf("CHANCE") : cards[c].kind = "FREE_MOVE" /\ cards[c].status = "used"}

\* Every die buys exactly one landing, and only an airport move and a used
\* free-travel card land without one: no path through hold, confirm, reroll,
\* offset, choice or airport loses a throw that was paid for or lands twice
\* on one throw.
DieLandsOnce ==
  landings + (IF pending = NoRoll THEN 0 ELSE 1)
    = spent + (IF airportUsed THEN 1 ELSE 0) + Cardinality(FreeMovesUsed)

\* The piece still stands where the pending throw was made, unless the team
\* left an airport while the throw was pending (move_team_via_airport does
\* not look at PendingDiceRoll).
PendingThrownHere ==
  pending # NoRoll =>
    \/ pending.from = position
    \/ airportUsed /\ KindOf[pending.from] = "AIRPORT"

\* A card with two open numbers is the only card in hand and owns the pending
\* roll, which carries its first number: otherwise confirm_dice_roll would be
\* refused for ever, or the choice would move somebody else's roll.
ChoiceOwnsPending ==
  \A c \in Choosing :
    /\ Held = {c}
    /\ pending # NoRoll
    /\ pending.number = cards[c].choice[1]

\* Each landing takes a free cell; only a throw held over an airport move can
\* end on a consumed cell, so at most once in a game.
RelandsOnceAtMost ==
  /\ landings = Cardinality(consumed) + Cardinality(relanded)
  /\ Cardinality(relanded) <= 1
  /\ relanded # {} => airportUsed

\* Completion is final: it is never undone by play, and from then on no dice
\* are spent, recharged or granted.
CompletionIsFinal ==
  [][Completed => Completed' /\ rolls' = rolls /\ spent' = spent]_vars

\* The documented rule of board completion: START is landed on exactly once.
StartLandedOnce == Start \notin relanded

\* Movement refines the tour: every landing is a visit, a held throw at most
\* one stray.
TheTour ==
  INSTANCE Tour WITH Places <- Cells, Home <- Start, at <- position,
                     visited <- consumed, strayed <- (relanded # {})
IsATour == TheTour!Spec

\* Players who keep playing finish a board that is ready: no state of pending
\* rolls, cards, candidates, unopened challenges and empty dice keeps them out
\* of the rest.  The code does not enforce readiness, it reports it; a board
\* that is not ready may leave the team at a cell with nothing to open.
EventuallyCompleted == []Ready => <>Completed
=============================================================================
