---------------------------- MODULE ChallengePlay ----------------------------
(***************************************************************************)
(* The challenges of one team: what its cells offer, what it opens and     *)
(* solves, what a solve earns (an extra die, the bonus of a line), and     *)
(* what an operator takes back.  board/services.py, challenge/views.py,    *)
(* ranking/services.py, adminpanel/views.py.                               *)
(*                                                                         *)
(* Every transaction holds the lock of the team's board state from its     *)
(* first statement and is one action.  A submission reads the challenge    *)
(* and the clock, and tests the flag, before its transaction: two actions. *)
(* The scores of all teams are the subject of ScoreTransactions.           *)
(***************************************************************************)
EXTENDS Naturals, FiniteSets

CONSTANTS Cells,           \* the challenge cells of the board, of one difficulty
          Elsewhere,       \* stands for all other cells
          LineOf,          \* LineOf[c]: the line of cell c
          Challenges,      \* the challenges of that difficulty
          Offers,          \* CHALLENGE_CANDIDATE_COUNT
          Users,           \* the members of the team
          MaxWrong,        \* flag.max_attempts
          MaxCorrections,  \* bound on the actions of operators
          None

ASSUME CellsAssumption  == Elsewhere \notin Cells /\ None \notin Challenges /\ LineOf \in [Cells -> Nat]
ASSUME BoundsAssumption == Offers \in Nat \ {0} /\ MaxWrong \in Nat \ {0} /\ MaxCorrections \in Nat

VARIABLES
  position,    \* TeamBoardState.position
  consumed,    \* cells with a TeamCellConsumption
  active,      \* the challenge of active_challenge_access
  candidate,   \* candidate[c][h]: TeamCellCandidate.status
  access,      \* access[h]: source_cell and status of the TeamChallengeAccess
  solves,      \* challenges with a Solve
  monopoly,    \* lines with a LineMonopoly
  lock,        \* lock[h]: FlagSubmissionLock
  hash,        \* hash[h]: flag_hash
  published,   \* challenges with is_published
  request,     \* request[u]: what the submission of u read before its transaction
  corrections, \* actions of operators so far
  paid,        \* history: paid[h]: extra dice for h
  touched      \* history: challenges whose access an operator changed or removed

boardVars == <<position, consumed, active, candidate, access, monopoly>>
flagVars  == <<solves, lock, hash, published, request>>
vars      == <<boardVars, flagVars, corrections, paid, touched>>

-----------------------------------------------------------------------------
NoAccess     == [cell |-> Elsewhere, status |-> "NONE"]
Opened(c)    == [cell |-> c, status |-> "OPENED"]
NoCandidates == [h \in Challenges |-> "NONE"]
Flags        == {0, 1}
Unlocked     == [failed |-> 0, until |-> "NONE"]

\* until: NONE, in the future, or past.  early: the clock was read before it passed.
TypeOK ==
  /\ position \in Cells \cup {Elsewhere}
  /\ consumed \subseteq Cells
  /\ active \in Challenges \cup {None}
  /\ candidate \in [Cells -> [Challenges -> {"NONE", "OFFERED", "SELECTED"}]]
  /\ access \in [Challenges -> {NoAccess} \cup [cell : Cells, status : {"OPENED", "CLEARED"}]]
  /\ solves \subseteq Challenges
  /\ monopoly \subseteq {LineOf[c] : c \in Cells}
  /\ lock \in [Challenges -> [failed : 0..MaxWrong, until : {"NONE", "FUTURE", "PAST"}]]
  /\ hash \in [Challenges -> Flags]
  /\ published \subseteq Challenges
  /\ request \in [Users -> {None} \cup [challenge : Challenges, flag : Flags, hash : Flags, early : BOOLEAN]]
  /\ corrections \in 0..MaxCorrections
  /\ paid \in [Challenges -> Nat]
  /\ touched \subseteq Challenges

Init ==
  /\ position = Elsewhere /\ consumed = {} /\ active = None
  /\ candidate = [c \in Cells |-> NoCandidates]
  /\ access = [h \in Challenges |-> NoAccess]
  /\ solves = {} /\ monopoly = {}
  /\ lock = [h \in Challenges |-> Unlocked]
  /\ hash = [h \in Challenges |-> 0]
  /\ published = Challenges
  /\ request = [u \in Users |-> None]
  /\ corrections = 0
  /\ paid = [h \in Challenges |-> 0]
  /\ touched = {}

HasAccess(h) == access[h] # NoAccess
OpenedAt(c)  == {h \in Challenges : access[h].cell = c}   \* at most one, for a cell of Cells

ClearedCells(acc) == {acc[h].cell : h \in {g \in Challenges : acc[g].status = "CLEARED"}}
Line(n)           == {c \in Cells : LineOf[c] = n}

\* is_line_monopoly_completed
Complete(acc, n) == Line(n) # {} /\ Line(n) \subseteq ClearedCells(acc)

-----------------------------------------------------------------------------
(* The piece, seen from here *)

\* A roll, a card or a flight (module Board): it lands on a cell that is not
\* consumed, or on another kind of cell, and leaves a challenge cell only if a
\* challenge was opened there.  The active challenge stays what it is.
Travel(c) ==
  /\ position \in Cells => OpenedAt(position) # {}
  /\ c \notin consumed /\ c # position
  /\ position' = c
  /\ consumed' = consumed \cup ({c} \cap Cells)
  /\ UNCHANGED <<active, candidate, access, monopoly, flagVars, corrections, paid, touched>>

-----------------------------------------------------------------------------
(* Candidates *)

\* What remains of the candidates of a cell.
Kept(h, st) == ~HasAccess(h) /\ (st # "OFFERED" \/ h \in published)

\* get_current_cell_candidates: drop what is out of date, fill up at random.
\* With a challenge opened at the cell all candidates go.
ListCandidates ==
  /\ position \in Cells
  /\ IF OpenedAt(position) # {}
     THEN candidate' = [candidate EXCEPT ![position] = NoCandidates]
     ELSE LET old  == {h \in Challenges : candidate[position][h] # "NONE"
                                           /\ Kept(h, candidate[position][h])}
              free == {h \in published \ old : ~HasAccess(h)}
          IN  \E new \in SUBSET free :
                /\ Cardinality(new) = IF Cardinality(old) + Cardinality(free) <= Offers
                                      THEN Cardinality(free)
                                      ELSE Offers - Cardinality(old)
                /\ candidate' = [candidate EXCEPT ![position] =
                     [h \in Challenges |-> CASE h \in old -> candidate[position][h]
                                             [] h \in new -> "OFFERED"
                                             [] OTHER     -> "NONE"]]
  /\ UNCHANGED <<position, consumed, active, access, monopoly, flagVars, corrections, paid, touched>>

\* Mutant: the access moves to the cell.
AccessMoved(h) == [access EXCEPT ![h] = Opened(position)]

\* get_or_create
AccessFor(h) == IF HasAccess(h) THEN access ELSE [access EXCEPT ![h] = Opened(position)]

\* open_current_cell_challenge.  The candidate may be older than an opening of
\* the same challenge in another cell: then that access is made the active one.
Open(h) ==
  /\ position \in Cells
  /\ OpenedAt(position) = {}
  /\ candidate[position][h] = "OFFERED"
  /\ h \in published
  /\ candidate' = [candidate EXCEPT ![position][h] = "SELECTED"]
  /\ access' = AccessFor(h)
  /\ active' = h
  /\ UNCHANGED <<position, consumed, monopoly, flagVars, corrections, paid, touched>>

-----------------------------------------------------------------------------
(* Submission of a flag *)

\* ChallengeSubmitView.post before its transaction.  Flag n is right while the
\* hash is made of it.
Submit(u, h, n) ==
  /\ request[u] = None
  /\ HasAccess(h)
  /\ request' = [request EXCEPT ![u] = [challenge |-> h, flag |-> n, hash |-> hash[h],
                                        early |-> lock[h].until = "FUTURE"]]
  /\ UNCHANGED <<boardVars, solves, lock, hash, published, corrections, paid, touched>>

\* A lock-out passes.  Submissions on their way have read the clock before.
LockPasses(h) ==
  /\ lock[h].until = "FUTURE"
  /\ lock' = [lock EXCEPT ![h].until = "PAST"]
  /\ request' = [u \in Users |-> IF request[u] # None /\ request[u].challenge = h
                                 THEN [request[u] EXCEPT !.early = TRUE] ELSE request[u]]
  /\ UNCHANGED <<boardVars, solves, hash, published, corrections, paid, touched>>

\* Mutant: the verdict of before the transaction counts.
RightWhenRead(r) == r.flag = r.hash

\* The verdict is reached before the transaction, and again if the hash changed.
Right(r) == IF hash[r.challenge] = r.hash THEN r.flag = r.hash ELSE r.flag = hash[r.challenge]

LockedOut(r) ==
  LET l == lock[r.challenge] IN l.until = "FUTURE" \/ (l.until = "PAST" /\ r.early)

\* A lock-out that passed is forgotten.
Before(l) == IF l.until = "PAST" THEN Unlocked ELSE l

Ends(u) == request' = [request EXCEPT ![u] = None]

\* Refused, TOO_MANY_ATTEMPTS or ALREADY_SOLVED: the lock is not saved.
SubmitRefused(u) ==
  /\ request[u] # None
  /\ LockedOut(request[u]) \/ request[u].challenge \in solves
  /\ Ends(u)
  /\ UNCHANGED <<boardVars, solves, lock, hash, published, corrections, paid, touched>>

SubmitWrong(u) ==
  /\ request[u] # None
  /\ LET r == request[u]
         n == Before(lock[r.challenge]).failed + 1 IN
       /\ ~LockedOut(r) /\ r.challenge \notin solves /\ ~Right(r)
       /\ lock' = [lock EXCEPT ![r.challenge] =
                     [failed |-> n, until |-> IF n >= MaxWrong THEN "FUTURE" ELSE "NONE"]]
  /\ Ends(u)
  /\ UNCHANGED <<boardVars, solves, hash, published, corrections, paid, touched>>

\* Mutant: it need not be the active challenge any more.
EarnsDieWhenBack(h, inTime) ==
  access[h].status = "OPENED" /\ position = access[h].cell /\ inTime

\* The extra die: the piece is still there, the challenge is active, in time.
EarnsDie(h, inTime) ==
  access[h].status = "OPENED" /\ position = access[h].cell /\ active = h /\ inTime

\* check_and_record_line_monopoly; a line is recorded once.
Awarded(acc, h) ==
  IF acc[h] # NoAccess /\ Complete(acc, LineOf[acc[h].cell]) THEN {LineOf[acc[h].cell]} ELSE {}

\* The right flag: complete_challenge_from_submission, Solve, line bonus.  The
\* access may have been removed since the request was read.
SubmitRight(u, inTime) ==
  /\ request[u] # None
  /\ LET r == request[u]
         h == r.challenge IN
       /\ ~LockedOut(r) /\ h \notin solves /\ Right(r)
       /\ solves' = solves \cup {h}
       /\ lock' = [lock EXCEPT ![h] = Unlocked]
       /\ access' = IF HasAccess(h) THEN [access EXCEPT ![h].status = "CLEARED"] ELSE access
       /\ active' = IF active = h /\ HasAccess(h) THEN None ELSE active
       /\ paid' = IF EarnsDie(h, inTime) THEN [paid EXCEPT ![h] = @ + 1] ELSE paid
       /\ monopoly' = monopoly \cup Awarded(access', h)
  /\ Ends(u)
  /\ UNCHANGED <<position, consumed, candidate, hash, published, corrections, touched>>

-----------------------------------------------------------------------------
(* Operators *)

Corrects == corrections < MaxCorrections /\ corrections' = corrections + 1

\* Mutant: the line bonus is not looked at.
BonusKept(acc, n) == monopoly

\* _drop_incomplete_line_monopoly
Remaining(acc, n) == IF Complete(acc, n) THEN monopoly ELSE monopoly \ {n}

\* challenge_submission_delete of a correct submission, _revoke_solve: the
\* cell is given back, the challenge is not made active again.
Revoke(h) ==
  /\ h \in solves
  /\ Corrects
  /\ solves' = solves \ {h}
  /\ IF HasAccess(h)
     THEN /\ access' = [access EXCEPT ![h].status = "OPENED"]
          /\ monopoly' = Remaining(access', LineOf[access[h].cell])
     ELSE UNCHANGED <<access, monopoly>>
  /\ UNCHANGED <<position, consumed, active, candidate, lock, hash, published, request, paid, touched>>

\* board_position
MovePiece(c, consume) ==
  /\ Corrects
  /\ position' = c
  /\ active' = IF c = position THEN active ELSE None
  /\ consumed' = IF consume THEN consumed \cup ({c} \cap Cells) ELSE consumed
  /\ UNCHANGED <<candidate, access, monopoly, flagVars, paid, touched>>

\* board_cell_status to UNVISITED or CONSUMED
ResetCell(c, status) ==
  /\ Corrects
  /\ candidate' = [candidate EXCEPT ![c] = NoCandidates]
  /\ access' = [h \in Challenges |-> IF h \in OpenedAt(c) THEN NoAccess ELSE access[h]]
  /\ active' = IF active \in OpenedAt(c) THEN None ELSE active
  /\ consumed' = IF status = "UNVISITED" THEN consumed \ {c} ELSE consumed \cup {c}
  /\ monopoly' = Remaining(access', LineOf[c])
  /\ touched' = touched \cup OpenedAt(c)
  /\ UNCHANGED <<position, flagVars, paid>>

\* board_cell_status to OPENED or CLEARED
MarkCell(c, status) ==
  /\ Corrects
  /\ \E h \in OpenedAt(c) :
       /\ access' = [access EXCEPT ![h].status = status]
       /\ active' = CASE status = "CLEARED" /\ active = h                      -> None
                      [] status = "OPENED" /\ position = c /\ active = None    -> h
                      [] OTHER                                                 -> active
       /\ touched' = touched \cup {h}
  /\ consumed' = consumed \cup {c}
  /\ monopoly' = Remaining(access', LineOf[c])
  /\ UNCHANGED <<position, candidate, flagVars, paid>>

\* challenge_detail, PATCH of the flag
ChangeFlag(h) ==
  /\ Corrects
  /\ hash' = [hash EXCEPT ![h] = 1 - @]
  /\ UNCHANGED <<boardVars, solves, lock, published, request, paid, touched>>

\* A challenge is hidden, or shown again.
ChangeVisibility(h) ==
  /\ Corrects
  /\ published' = IF h \in published THEN published \ {h} ELSE published \cup {h}
  /\ UNCHANGED <<boardVars, solves, lock, hash, request, paid, touched>>

Correction ==
  \/ \E h \in Challenges : Revoke(h) \/ ChangeFlag(h) \/ ChangeVisibility(h)
  \/ \E c \in Cells \cup {Elsewhere}, consume \in BOOLEAN : MovePiece(c, consume)
  \/ \E c \in Cells, s \in {"UNVISITED", "CONSUMED"} : ResetCell(c, s)
  \/ \E c \in Cells, s \in {"OPENED", "CLEARED"} : MarkCell(c, s)

-----------------------------------------------------------------------------
Play ==
  \/ \E c \in Cells \cup {Elsewhere} : Travel(c)
  \/ ListCandidates
  \/ \E h \in Challenges : Open(h) \/ LockPasses(h)
  \/ \E u \in Users :
       \/ \E h \in Challenges, n \in Flags : Submit(u, h, n)
       \/ SubmitRefused(u) \/ SubmitWrong(u)
       \/ \E inTime \in BOOLEAN : SubmitRight(u, inTime)

Next == Play \/ Correction

Spec == Init /\ [][Next]_vars

-----------------------------------------------------------------------------
(* Properties *)

\* A team has the bonus of a line while, and only while, all challenge cells of
\* the line are cleared, whatever is solved, withdrawn and reset in whatever
\* order.  The bonus may be missing only where an operator marked a cell.
BonusFollowsLine ==
  \A n \in {LineOf[c] : c \in Cells} :
    /\ n \in monopoly => Complete(access, n)
    /\ Complete(access, n) =>
         n \in monopoly \/ \E h \in touched : access[h].cell \in Line(n)

\* What was solved is cleared on the board, unless an operator changed it there.
SolvedIsCleared ==
  \A h \in solves \ touched : access[h].status = "CLEARED"

\* A challenge earns its extra die once, even if its solve is withdrawn and it
\* is solved again; only an operator who marks its cell can grant another.
OneDiePerChallenge ==
  \A h \in Challenges \ touched : paid[h] <= 1

\* A solve is recorded for the flag of this moment and while no lock-out holds,
\* though the request was tested against what it had read before.
SolvedByTodaysFlag ==
  [][\A h \in solves' \ solves :
       /\ lock[h].until # "FUTURE"
       /\ \E u \in Users : /\ request[u] # None /\ request'[u] = None
                           /\ request[u].challenge = h /\ request[u].flag = hash[h]]_vars
=============================================================================
