------------------------- MODULE ChallengePlayProofs -------------------------
(***************************************************************************)
(* Proofs about ChallengePlay for every board, catalogue of challenges,    *)
(* number of members and number of corrections.                            *)
(***************************************************************************)
EXTENDS ChallengePlay, TLAPS

-----------------------------------------------------------------------------
(***************************************************************************)
(* SolvedIsCleared and OneDiePerChallenge are not inductive.  That a solve *)
(* has a cell to clear rests on the access the request saw; and a solved   *)
(* challenge can become the active one again, from a candidate that is out *)
(* of date, but only at a cell where the piece is stuck until another one  *)
(* is opened.                                                              *)
(***************************************************************************)

\* The attempt that uses up the last one locks the challenge.
LockOutInTime == \A h \in Challenges : lock[h].until = "NONE" => lock[h].failed < MaxWrong

\* The access a submission saw is there, unless an operator removed it.
RequestsHadAccess ==
  \A u \in Users :
    request[u] # None => HasAccess(request[u].challenge) \/ request[u].challenge \in touched

\* So is the access of a challenge that earned a die.
PaidHadAccess == \A h \in Challenges \ touched : paid[h] > 0 => HasAccess(h)

\* A challenge that earned its die is active again only while the piece is on a
\* cell where nothing was opened.
ActiveIsAway ==
  active # None /\ active \notin touched /\ paid[active] > 0 =>
    position \in Cells /\ OpenedAt(position) = {}

IInv ==
  /\ TypeOK /\ LockOutInTime /\ RequestsHadAccess /\ PaidHadAccess /\ ActiveIsAway
  /\ SolvedIsCleared /\ OneDiePerChallenge /\ BonusFollowsLine

-----------------------------------------------------------------------------
(* Types *)

AccessRecords == [cell : Cells, status : {"OPENED", "CLEARED"}]
LockRecords   == [failed : 0..MaxWrong, until : {"NONE", "FUTURE", "PAST"}]
Requests      == [challenge : Challenges, flag : Flags, hash : Flags, early : BOOLEAN]

\* An access has a cell of the board, and a challenge without one has none.
LEMMA AccessFacts ==
  ASSUME TypeOK, NEW h \in Challenges
  PROVE  /\ HasAccess(h) => access[h] \in AccessRecords
         /\ HasAccess(h) <=> access[h].cell \in Cells
         /\ HasAccess(h) <=> access[h].status \in {"OPENED", "CLEARED"}
<1>1. access[h] = NoAccess \/ access[h] \in AccessRecords
  BY DEF TypeOK, AccessRecords
<1>2. NoAccess.cell \notin Cells /\ NoAccess.status = "NONE"
  BY CellsAssumption DEF NoAccess
<1>3. access[h] \in AccessRecords => access[h].cell \in Cells /\ access[h].status \in {"OPENED", "CLEARED"}
  BY DEF AccessRecords
<1>4. QED  BY <1>1, <1>2, <1>3 DEF HasAccess

\* What the handlers make of an access, of a lock and of a request.
LEMMA RecordTypes ==
  /\ \A c \in Cells : Opened(c) \in AccessRecords
  /\ \A a \in AccessRecords, s \in {"OPENED", "CLEARED"} : [a EXCEPT !.status = s] \in AccessRecords
  /\ Unlocked \in LockRecords
  /\ \A l \in LockRecords : [l EXCEPT !.until = "PAST"] \in LockRecords
  /\ \A r \in Requests : [r EXCEPT !.early = TRUE] \in Requests
<1>1. \A c \in Cells : Opened(c) \in AccessRecords
  BY DEF Opened, AccessRecords
<1>2. ASSUME NEW a \in AccessRecords, NEW s \in {"OPENED", "CLEARED"}
      PROVE  [a EXCEPT !.status = s] \in AccessRecords
  BY DEF AccessRecords
<1>3. Unlocked \in LockRecords
  BY BoundsAssumption DEF Unlocked, LockRecords
<1>4. ASSUME NEW l \in LockRecords
      PROVE  [l EXCEPT !.until = "PAST"] \in LockRecords
  BY DEF LockRecords
<1>5. ASSUME NEW r \in Requests
      PROVE  [r EXCEPT !.early = TRUE] \in Requests
  BY DEF Requests
<1>6. QED  BY <1>1, <1>2, <1>3, <1>4, <1>5

LEMMA StatusType ==
  ASSUME TypeOK, NEW h \in Challenges, HasAccess(h), NEW s \in {"OPENED", "CLEARED"}
  PROVE  [access EXCEPT ![h].status = s] \in [Challenges -> {NoAccess} \cup AccessRecords]
<1>1. [access[h] EXCEPT !.status = s] \in AccessRecords
  BY AccessFacts, RecordTypes
<1>2. access \in [Challenges -> {NoAccess} \cup AccessRecords]
  BY DEF TypeOK, AccessRecords
<1>3. QED  BY <1>1, <1>2

LEMMA InitType == Init => TypeOK
BY BoundsAssumption, CellsAssumption, RecordTypes
   DEF Init, TypeOK, NoAccess, NoCandidates, Flags, LockRecords

LEMMA TypeStep ==
  ASSUME TypeOK, LockOutInTime, [Next]_vars
  PROVE  TypeOK'
<1> USE DEF TypeOK
<1>1. ASSUME NEW c \in Cells \cup {Elsewhere}, Travel(c)
      PROVE  TypeOK'
  BY <1>1 DEF Travel, flagVars
<1>2. CASE ListCandidates
  <2>1. candidate' \in [Cells -> [Challenges -> {"NONE", "OFFERED", "SELECTED"}]]
    <3>1. CASE OpenedAt(position) # {}
      BY <1>2, <3>1 DEF ListCandidates, NoCandidates
    <3>2. CASE OpenedAt(position) = {}
      <4> DEFINE old == {h \in Challenges : candidate[position][h] # "NONE"
                                              /\ Kept(h, candidate[position][h])}
      <4>1. PICK new : candidate' = [candidate EXCEPT ![position] =
                     [h \in Challenges |-> CASE h \in old -> candidate[position][h]
                                             [] h \in new -> "OFFERED"
                                             [] OTHER     -> "NONE"]]
        BY <1>2, <3>2 DEF ListCandidates
      <4>2. [h \in Challenges |-> CASE h \in old -> candidate[position][h]
                                   [] h \in new -> "OFFERED"
                                   [] OTHER     -> "NONE"]
              \in [Challenges -> {"NONE", "OFFERED", "SELECTED"}]
        BY <1>2 DEF ListCandidates
      <4> HIDE DEF old
      <4>3. QED  BY <4>1, <4>2
    <3>3. QED  BY <3>1, <3>2
  <2>2. QED  BY <1>2, <2>1 DEF ListCandidates, flagVars
<1>3. ASSUME NEW h \in Challenges, Open(h)
      PROVE  TypeOK'
  <2>1. AccessFor(h) \in [Challenges -> {NoAccess} \cup AccessRecords]
    BY <1>3, RecordTypes DEF Open, AccessFor, AccessRecords
  <2>2. candidate' \in [Cells -> [Challenges -> {"NONE", "OFFERED", "SELECTED"}]]
    BY <1>3 DEF Open
  <2>3. QED  BY <1>3, <2>1, <2>2 DEF Open, flagVars, AccessRecords
<1>4. ASSUME NEW u \in Users, NEW h \in Challenges, NEW n \in Flags, Submit(u, h, n)
      PROVE  TypeOK'
  BY <1>4 DEF Submit, boardVars
<1>5. ASSUME NEW h \in Challenges, LockPasses(h)
      PROVE  TypeOK'
  <2>1. lock' \in [Challenges -> LockRecords]
    BY <1>5, RecordTypes DEF LockPasses, LockRecords
  <2>2. request' \in [Users -> {None} \cup Requests]
    BY <1>5, RecordTypes DEF LockPasses, Requests
  <2>3. QED  BY <1>5, <2>1, <2>2 DEF LockPasses, boardVars, LockRecords, Requests
<1>6. ASSUME NEW u \in Users, SubmitRefused(u)
      PROVE  TypeOK'
  BY <1>6 DEF SubmitRefused, Ends, boardVars
<1>7. ASSUME NEW u \in Users, SubmitWrong(u)
      PROVE  TypeOK'
  <2> DEFINE r == request[u]
             n == Before(lock[r.challenge]).failed + 1
  <2>1. r \in Requests
    BY <1>7 DEF SubmitWrong, Requests
  <2>2. lock[r.challenge] \in LockRecords /\ lock[r.challenge].until # "FUTURE"
    BY <1>7, <2>1 DEF SubmitWrong, LockedOut, Requests, LockRecords
  <2>3. n \in 0..MaxWrong
    BY <2>1, <2>2, BoundsAssumption DEF LockOutInTime, Before, Unlocked, LockRecords, Requests
  <2>4. lock' \in [Challenges -> LockRecords]
    <3>1. lock' = [lock EXCEPT ![r.challenge] =
                     [failed |-> n, until |-> IF n >= MaxWrong THEN "FUTURE" ELSE "NONE"]]
      BY <1>7 DEF SubmitWrong
    <3>2. [failed |-> n, until |-> IF n >= MaxWrong THEN "FUTURE" ELSE "NONE"] \in LockRecords
      BY <2>3 DEF LockRecords
    <3>3. QED  BY <3>1, <3>2 DEF LockRecords
  <2>5. QED  BY <1>7, <2>4 DEF SubmitWrong, Ends, boardVars, LockRecords
<1>8. ASSUME NEW u \in Users, NEW inTime \in BOOLEAN, SubmitRight(u, inTime)
      PROVE  TypeOK'
  <2> DEFINE h == request[u].challenge
  <2>1. h \in Challenges
    BY <1>8 DEF SubmitRight
  <2>2. access' \in [Challenges -> {NoAccess} \cup AccessRecords]
    BY <1>8, <2>1, StatusType DEF SubmitRight, AccessRecords
  <2>3. monopoly' \subseteq {LineOf[c] : c \in Cells}
    BY <1>8, <2>1, <2>2 DEF SubmitRight, Awarded, AccessRecords
  <2>4. lock' \in [Challenges -> LockRecords]
    BY <1>8, <2>1, RecordTypes DEF SubmitRight, LockRecords
  <2>5. paid' \in [Challenges -> Nat]
    BY <1>8, <2>1 DEF SubmitRight
  <2>6. QED
    BY <1>8, <2>1, <2>2, <2>3, <2>4, <2>5 DEF SubmitRight, Ends, AccessRecords, LockRecords
<1>9. ASSUME NEW h \in Challenges, Revoke(h)
      PROVE  TypeOK'
  <2>1. access' \in [Challenges -> {NoAccess} \cup AccessRecords]
    <3>1. CASE HasAccess(h)
      <4>1. access' = [access EXCEPT ![h].status = "OPENED"]
        BY <1>9, <3>1 DEF Revoke
      <4>2. QED  BY <3>1, <4>1, StatusType
    <3>2. CASE ~HasAccess(h)
      BY <1>9, <3>2 DEF Revoke, AccessRecords
    <3>3. QED  BY <3>1, <3>2
  <2>2. monopoly' \subseteq monopoly
    BY <1>9 DEF Revoke, Remaining
  <2>3. QED  BY <1>9, <2>1, <2>2, BoundsAssumption DEF Revoke, Corrects, AccessRecords
<1>10. ASSUME NEW h \in Challenges, ChangeFlag(h) \/ ChangeVisibility(h)
       PROVE  TypeOK'
  BY <1>10, BoundsAssumption DEF ChangeFlag, ChangeVisibility, Corrects, Flags, boardVars
<1>11. ASSUME NEW c \in Cells \cup {Elsewhere}, NEW consume \in BOOLEAN, MovePiece(c, consume)
       PROVE  TypeOK'
  BY <1>11, BoundsAssumption DEF MovePiece, Corrects, flagVars
<1>12. ASSUME NEW c \in Cells, NEW s \in {"UNVISITED", "CONSUMED"}, ResetCell(c, s)
       PROVE  TypeOK'
  <2>1. candidate' \in [Cells -> [Challenges -> {"NONE", "OFFERED", "SELECTED"}]]
    BY <1>12 DEF ResetCell, NoCandidates
  <2>2. access' \in [Challenges -> {NoAccess} \cup AccessRecords]
    BY <1>12 DEF ResetCell, AccessRecords
  <2>3. monopoly' \subseteq monopoly
    BY <1>12 DEF ResetCell, Remaining
  <2>4. touched' \subseteq Challenges
    BY <1>12 DEF ResetCell, OpenedAt
  <2>5. QED  BY <1>12, <2>1, <2>2, <2>3, <2>4, BoundsAssumption
                DEF ResetCell, Corrects, flagVars, AccessRecords
<1>13. ASSUME NEW c \in Cells, NEW s \in {"OPENED", "CLEARED"}, MarkCell(c, s)
       PROVE  TypeOK'
  <2>1. PICK h \in OpenedAt(c) : /\ access' = [access EXCEPT ![h].status = s]
                                 /\ active' \in {None, h, active}
                                 /\ touched' = touched \cup {h}
    BY <1>13 DEF MarkCell
  <2>2. h \in Challenges /\ HasAccess(h)
    BY AccessFacts DEF OpenedAt
  <2>3. access' \in [Challenges -> {NoAccess} \cup AccessRecords]
    BY <2>1, <2>2, StatusType
  <2>4. monopoly' \subseteq monopoly
    BY <1>13 DEF MarkCell, Remaining
  <2>5. active' \in Challenges \cup {None} /\ touched' \subseteq Challenges
    BY <2>1, <2>2
  <2>6. /\ consumed' = consumed \cup {c} /\ corrections' = corrections + 1 /\ corrections < MaxCorrections
        /\ UNCHANGED <<position, candidate, flagVars, paid>>
    BY <1>13 DEF MarkCell, Corrects
  <2>7. QED  BY <2>3, <2>4, <2>5, <2>6, BoundsAssumption DEF flagVars, AccessRecords
<1>14. CASE UNCHANGED vars
  BY <1>14 DEF vars, boardVars, flagVars
<1>15. QED
  BY <1>1, <1>2, <1>3, <1>4, <1>5, <1>6, <1>7, <1>8, <1>9, <1>10, <1>11, <1>12, <1>13, <1>14
     DEF Next, Play, Correction

-----------------------------------------------------------------------------
(* Kinds of steps *)

\* The step concerns neither the accesses nor what hangs on them.
Aside == UNCHANGED <<position, active, access, monopoly, solves, paid, touched>>

TravelStep == \E c \in Cells \cup {Elsewhere} : Travel(c)
OpenStep   == \E h \in Challenges : Open(h)
RightStep  == \E u \in Users, inTime \in BOOLEAN : SubmitRight(u, inTime)
RevokeStep == \E h \in Challenges : Revoke(h)
MoveStep   == \E c \in Cells \cup {Elsewhere}, consume \in BOOLEAN : MovePiece(c, consume)
ResetStep  == \E c \in Cells, s \in {"UNVISITED", "CONSUMED"} : ResetCell(c, s)
MarkStep   == \E c \in Cells, s \in {"OPENED", "CLEARED"} : MarkCell(c, s)

LEMMA StepKinds ==
  ASSUME [Next]_vars
  PROVE  \/ Aside \/ TravelStep \/ OpenStep \/ RightStep
         \/ RevokeStep \/ MoveStep \/ ResetStep \/ MarkStep
<1> USE DEF Aside, boardVars, flagVars
<1>1. CASE ListCandidates
  BY <1>1 DEF ListCandidates
<1>2. ASSUME NEW h \in Challenges, LockPasses(h)
      PROVE  Aside
  BY <1>2 DEF LockPasses
<1>3. ASSUME NEW u \in Users, NEW h \in Challenges, NEW n \in Flags, Submit(u, h, n)
      PROVE  Aside
  BY <1>3 DEF Submit
<1>4. ASSUME NEW u \in Users, SubmitRefused(u) \/ SubmitWrong(u)
      PROVE  Aside
  BY <1>4 DEF SubmitRefused, SubmitWrong
<1>5. ASSUME NEW h \in Challenges, ChangeFlag(h) \/ ChangeVisibility(h)
      PROVE  Aside
  BY <1>5 DEF ChangeFlag, ChangeVisibility
<1>6. CASE UNCHANGED vars
  BY <1>6 DEF vars
<1>7. QED
  BY <1>1, <1>2, <1>3, <1>4, <1>5, <1>6
     DEF Next, Play, Correction, TravelStep, OpenStep, RightStep, RevokeStep, MoveStep, ResetStep, MarkStep

\* What the right flag does, for the challenge of a request.
LEMMA RightFacts ==
  ASSUME TypeOK, NEW u \in Users, NEW inTime \in BOOLEAN, SubmitRight(u, inTime)
  PROVE  \E h \in Challenges :
           /\ h = request[u].challenge /\ request[u] # None
           /\ solves' = solves \cup {h} /\ h \notin solves
           /\ access' = IF HasAccess(h) THEN [access EXCEPT ![h].status = "CLEARED"] ELSE access
           /\ active' = IF active = h /\ HasAccess(h) THEN None ELSE active
           /\ paid' = IF EarnsDie(h, inTime) THEN [paid EXCEPT ![h] = @ + 1] ELSE paid
           /\ monopoly' = monopoly \cup Awarded(access', h)
           /\ UNCHANGED <<position, touched>>
BY DEF SubmitRight, TypeOK

\* What marking a cell does, for the challenge opened there.
LEMMA MarkFacts ==
  ASSUME NEW c \in Cells, NEW s \in {"OPENED", "CLEARED"}, MarkCell(c, s)
  PROVE  \E h \in OpenedAt(c) :
           /\ access' = [access EXCEPT ![h].status = s]
           /\ active' \in {active, None, h}
           /\ touched' = touched \cup {h}
           /\ monopoly' = Remaining(access', LineOf[c])
           /\ UNCHANGED <<position, solves, paid>>
BY DEF MarkCell, flagVars

\* A handler that writes the status of an access leaves the accesses where
\* they are.
LEMMA StatusOnly ==
  ASSUME TypeOK, NEW h \in Challenges, HasAccess(h), NEW s \in {"OPENED", "CLEARED"},
         access' = [access EXCEPT ![h].status = s]
  PROVE  /\ access'[h].status = s
         /\ \A g \in Challenges : access'[g].cell = access[g].cell
         /\ \A g \in Challenges \ {h} : access'[g] = access[g]
         /\ \A g \in Challenges : HasAccess(g)' <=> HasAccess(g)
<1>1. access[h] \in AccessRecords
  BY AccessFacts
<1>2. access'[h].status = s /\ access'[h].cell = access[h].cell
  BY <1>1 DEF TypeOK, AccessRecords
<1>3. \A g \in Challenges \ {h} : access'[g] = access[g]
  BY DEF TypeOK
<1>4. access'[h] # NoAccess
  BY <1>2 DEF NoAccess
<1>5. QED  BY <1>2, <1>3, <1>4 DEF HasAccess

-----------------------------------------------------------------------------
(* Locks and requests *)

LEMMA LockStep ==
  ASSUME TypeOK, LockOutInTime, [Next]_vars
  PROVE  LockOutInTime'
<1> USE DEF LockOutInTime
<1>1. CASE lock' = lock
  BY <1>1
<1>2. ASSUME NEW h \in Challenges, LockPasses(h)
      PROVE  LockOutInTime'
  BY <1>2 DEF LockPasses, TypeOK
<1>3. ASSUME NEW u \in Users, SubmitWrong(u)
      PROVE  LockOutInTime'
  <2> DEFINE h == request[u].challenge
             n == Before(lock[h]).failed + 1
  <2>1. h \in Challenges /\ lock[h] \in LockRecords
    BY <1>3 DEF SubmitWrong, TypeOK, LockRecords
  <2>2. n \in Nat
    BY <2>1, BoundsAssumption DEF Before, Unlocked, LockRecords
  <2>3. lock' = [lock EXCEPT ![h] = [failed |-> n, until |-> IF n >= MaxWrong THEN "FUTURE" ELSE "NONE"]]
    BY <1>3 DEF SubmitWrong
  <2> HIDE DEF n
  <2>4. lock'[h].until = "NONE" => lock'[h].failed < MaxWrong
    BY <2>1, <2>2, <2>3, BoundsAssumption DEF TypeOK
  <2>5. \A g \in Challenges \ {h} : lock'[g] = lock[g]
    BY <2>3 DEF TypeOK
  <2>6. QED  BY <2>4, <2>5
<1>4. ASSUME NEW u \in Users, NEW inTime \in BOOLEAN, SubmitRight(u, inTime)
      PROVE  LockOutInTime'
  BY <1>4, BoundsAssumption DEF SubmitRight, TypeOK, Unlocked
<1>5. ASSUME NEW u \in Users, SubmitRefused(u) \/ \E h \in Challenges, n \in Flags : Submit(u, h, n)
      PROVE  lock' = lock
  BY <1>5 DEF SubmitRefused, Submit
<1>6. CASE ListCandidates \/ Correction \/ UNCHANGED vars
  BY <1>6 DEF ListCandidates, Correction, Revoke, ChangeFlag, ChangeVisibility, MovePiece, ResetCell,
              MarkCell, flagVars, vars
<1>7. ASSUME NEW c, Travel(c) \/ Open(c)
      PROVE  lock' = lock
  BY <1>7 DEF Travel, Open, flagVars
<1>8. QED  BY <1>1, <1>2, <1>3, <1>4, <1>5, <1>6, <1>7 DEF Next, Play

\* A request that is under way saw its challenge's access, now or earlier.
LEMMA RequestSteps ==
  ASSUME TypeOK, [Next]_vars, NEW u \in Users, request'[u] # None
  PROVE  \/ request[u] # None /\ request'[u].challenge = request[u].challenge
         \/ HasAccess(request'[u].challenge) /\ Aside /\ request'[u].challenge \in Challenges
<1>1. CASE request' = request
  BY <1>1
<1>2. ASSUME NEW h \in Challenges, LockPasses(h)
      PROVE  request[u] # None /\ request'[u].challenge = request[u].challenge
  BY <1>2 DEF LockPasses, TypeOK
<1>3. ASSUME NEW v \in Users, NEW h \in Challenges, NEW n \in Flags, Submit(v, h, n)
      PROVE  \/ request[u] # None /\ request'[u].challenge = request[u].challenge
             \/ HasAccess(request'[u].challenge) /\ Aside /\ request'[u].challenge \in Challenges
  <2>1. CASE v = u
    BY <1>3, <2>1 DEF Submit, TypeOK, Aside, boardVars
  <2>2. CASE v # u
    BY <1>3, <2>2 DEF Submit, TypeOK
  <2>3. QED  BY <2>1, <2>2
<1>4. ASSUME NEW v \in Users, request' = [request EXCEPT ![v] = None]
      PROVE  request[u] # None /\ request'[u].challenge = request[u].challenge
  BY <1>4 DEF TypeOK
<1>5. ASSUME NEW v \in Users, \/ SubmitRefused(v) \/ SubmitWrong(v)
                              \/ \E inTime \in BOOLEAN : SubmitRight(v, inTime)
      PROVE  request' = [request EXCEPT ![v] = None]
  BY <1>5 DEF SubmitRefused, SubmitWrong, SubmitRight, Ends
<1>6. CASE ListCandidates \/ Correction \/ UNCHANGED vars
  BY <1>1, <1>6 DEF ListCandidates, Correction, Revoke, ChangeFlag, ChangeVisibility, MovePiece, ResetCell,
                    MarkCell, flagVars, vars
<1>7. ASSUME NEW c, Travel(c) \/ Open(c)
      PROVE  request' = request
  BY <1>7 DEF Travel, Open, flagVars
<1>8. QED  BY <1>1, <1>2, <1>3, <1>4, <1>5, <1>6, <1>7 DEF Next, Play

\* An access is removed only under an operator's hand.
LEMMA AccessStays ==
  ASSUME TypeOK, [Next]_vars, NEW h \in Challenges
  PROVE  /\ h \in touched => h \in touched'
         /\ HasAccess(h) => HasAccess(h)' \/ h \in touched'
<1>1. CASE Aside \/ TravelStep \/ MoveStep
  BY <1>1 DEF Aside, TravelStep, Travel, MoveStep, MovePiece, HasAccess
<1>2. CASE OpenStep
  BY <1>2 DEF OpenStep, Open, AccessFor, HasAccess, TypeOK
<1>3. CASE RightStep
  <2>1. PICK u \in Users, inTime \in BOOLEAN : SubmitRight(u, inTime)
    BY <1>3 DEF RightStep
  <2>2. QED  BY <2>1, RightFacts, StatusOnly DEF HasAccess
<1>4. CASE RevokeStep
  <2>1. PICK g \in Challenges : Revoke(g)
    BY <1>4 DEF RevokeStep
  <2>2. /\ touched' = touched
        /\ \/ access' = access
           \/ HasAccess(g) /\ access' = [access EXCEPT ![g].status = "OPENED"]
    BY <2>1 DEF Revoke
  <2>3. QED  BY <2>2, StatusOnly DEF HasAccess
<1>5. CASE ResetStep
  BY <1>5 DEF ResetStep, ResetCell, HasAccess
<1>6. CASE MarkStep
  <2>1. PICK c \in Cells, s \in {"OPENED", "CLEARED"} : MarkCell(c, s)
    BY <1>6 DEF MarkStep
  <2>2. PICK g \in OpenedAt(c) : access' = [access EXCEPT ![g].status = s] /\ touched' = touched \cup {g}
    BY <2>1, MarkFacts
  <2>3. g \in Challenges /\ HasAccess(g)
    BY AccessFacts DEF OpenedAt
  <2>4. QED  BY <2>2, <2>3, StatusOnly
<1>7. QED  BY <1>1, <1>2, <1>3, <1>4, <1>5, <1>6, StepKinds

LEMMA RequestsStep ==
  ASSUME TypeOK, RequestsHadAccess, [Next]_vars
  PROVE  RequestsHadAccess'
<1> SUFFICES ASSUME NEW u \in Users, request'[u] # None
             PROVE  (HasAccess(request[u].challenge) \/ request[u].challenge \in touched)'
  BY DEF RequestsHadAccess
<1>1. CASE request[u] # None /\ request'[u].challenge = request[u].challenge
  <2>1. request[u].challenge \in Challenges
    BY <1>1 DEF TypeOK
  <2>2. QED  BY <1>1, <2>1, AccessStays DEF RequestsHadAccess
<1>2. CASE HasAccess(request'[u].challenge) /\ Aside
  BY <1>2 DEF Aside, HasAccess
<1>3. QED  BY <1>1, <1>2, RequestSteps

-----------------------------------------------------------------------------
(* Solves and dice *)

\* The access of a right submission is still there, or an operator removed it.
LEMMA RightHasAccess ==
  ASSUME TypeOK, RequestsHadAccess, NEW u \in Users, NEW inTime \in BOOLEAN, SubmitRight(u, inTime)
  PROVE  HasAccess(request[u].challenge) \/ request[u].challenge \in touched
BY DEF SubmitRight, RequestsHadAccess

LEMMA SolvedStep ==
  ASSUME TypeOK, RequestsHadAccess, SolvedIsCleared, [Next]_vars
  PROVE  SolvedIsCleared'
<1> USE DEF SolvedIsCleared
<1>1. CASE Aside \/ TravelStep \/ MoveStep
  BY <1>1 DEF Aside, TravelStep, Travel, MoveStep, MovePiece, flagVars
<1>2. ASSUME NEW h \in Challenges, Open(h)
      PROVE  SolvedIsCleared'
  <2>1. UNCHANGED <<solves, touched>> /\ access' = AccessFor(h)
    BY <1>2 DEF Open, flagVars
  <2>2. h \in solves \ touched => HasAccess(h)
    BY AccessFacts
  <2>3. QED  BY <2>1, <2>2 DEF AccessFor, TypeOK
<1>3. ASSUME NEW u \in Users, NEW inTime \in BOOLEAN, SubmitRight(u, inTime)
      PROVE  SolvedIsCleared'
  <2>1. PICK h \in Challenges :
           /\ h = request[u].challenge
           /\ solves' = solves \cup {h} /\ touched' = touched
           /\ access' = IF HasAccess(h) THEN [access EXCEPT ![h].status = "CLEARED"] ELSE access
    BY <1>3, RightFacts
  <2>2. HasAccess(h) \/ h \in touched
    BY <1>3, <2>1, RightHasAccess
  <2>3. HasAccess(h) => access'[h].status = "CLEARED" /\ \A g \in Challenges \ {h} : access'[g] = access[g]
    BY <2>1, StatusOnly
  <2>4. QED  BY <2>1, <2>2, <2>3 DEF TypeOK
<1>4. ASSUME NEW h \in Challenges, Revoke(h)
      PROVE  SolvedIsCleared'
  <2>1. solves' = solves \ {h} /\ touched' = touched
    BY <1>4 DEF Revoke
  <2>2. \A g \in Challenges \ {h} : access'[g] = access[g]
    BY <1>4, StatusOnly DEF Revoke
  <2>3. QED  BY <2>1, <2>2 DEF TypeOK
<1>5. ASSUME NEW c \in Cells, NEW s \in {"UNVISITED", "CONSUMED"}, ResetCell(c, s)
      PROVE  SolvedIsCleared'
  <2>1. solves' = solves /\ touched' = touched \cup OpenedAt(c)
    BY <1>5 DEF ResetCell, flagVars
  <2>2. \A h \in Challenges \ OpenedAt(c) : access'[h] = access[h]
    BY <1>5 DEF ResetCell
  <2>3. QED  BY <2>1, <2>2 DEF TypeOK
<1>6. ASSUME NEW c \in Cells, NEW s \in {"OPENED", "CLEARED"}, MarkCell(c, s)
      PROVE  SolvedIsCleared'
  BY <1>6, MarkFacts DEF TypeOK
<1>7. QED
  BY <1>1, <1>2, <1>3, <1>4, <1>5, <1>6, StepKinds
     DEF OpenStep, RightStep, RevokeStep, ResetStep, MarkStep

\* A die is earned for the active challenge, at its cell.
LEMMA EarnsFacts ==
  ASSUME TypeOK, NEW h \in Challenges, NEW inTime \in BOOLEAN, EarnsDie(h, inTime)
  PROVE  active = h /\ HasAccess(h) /\ position = access[h].cell /\ position \in Cells
BY AccessFacts DEF EarnsDie

LEMMA PaidStep ==
  ASSUME TypeOK, PaidHadAccess, [Next]_vars
  PROVE  PaidHadAccess'
<1> SUFFICES ASSUME NEW h \in Challenges, h \notin touched', paid'[h] > 0
             PROVE  HasAccess(h)'
  BY DEF PaidHadAccess
<1>1. CASE paid'[h] = paid[h]
  BY <1>1, AccessStays DEF PaidHadAccess
<1>2. CASE RightStep
  <2>1. PICK u \in Users, inTime \in BOOLEAN : SubmitRight(u, inTime)
    BY <1>2 DEF RightStep
  <2>2. paid'[h] = paid[h] \/ HasAccess(h)
    BY <2>1, RightFacts, EarnsFacts DEF TypeOK
  <2>3. QED  BY <1>1, <2>2, AccessStays
<1>3. CASE Aside \/ TravelStep \/ OpenStep \/ RevokeStep \/ MoveStep \/ ResetStep \/ MarkStep
  BY <1>1, <1>3 DEF Aside, TravelStep, Travel, OpenStep, Open, RevokeStep, Revoke, MoveStep, MovePiece,
                    ResetStep, ResetCell, MarkStep, MarkCell
<1>4. QED  BY <1>2, <1>3, StepKinds

\* Where nothing is opened it stays so as long as no access moves.
LEMMA StaysAway ==
  ASSUME ActiveIsAway, active' = active, touched' = touched, paid' = paid, position' = position,
         \A h \in Challenges : access'[h].cell = access[h].cell
  PROVE  ActiveIsAway'
BY DEF ActiveIsAway, OpenedAt

LEMMA ActiveStep ==
  ASSUME TypeOK, PaidHadAccess, ActiveIsAway, [Next]_vars
  PROVE  ActiveIsAway'
<1>1. CASE Aside
  BY <1>1 DEF Aside, ActiveIsAway, OpenedAt
<1>2. CASE TravelStep
  BY <1>2 DEF TravelStep, Travel, ActiveIsAway, OpenedAt
<1>3. ASSUME NEW h \in Challenges, Open(h)
      PROVE  ActiveIsAway'
  <2>1. active' = h /\ touched' = touched /\ paid' = paid /\ position' = position
    BY <1>3 DEF Open
  <2>2. h \notin touched /\ paid[h] > 0 => access' = access
    BY <1>3 DEF Open, AccessFor, PaidHadAccess
  <2>3. QED  BY <1>3, <2>1, <2>2 DEF Open, ActiveIsAway, OpenedAt
<1>4. ASSUME NEW u \in Users, NEW inTime \in BOOLEAN, SubmitRight(u, inTime)
      PROVE  ActiveIsAway'
  <2>1. PICK h \in Challenges :
           /\ access' = IF HasAccess(h) THEN [access EXCEPT ![h].status = "CLEARED"] ELSE access
           /\ active' = IF active = h /\ HasAccess(h) THEN None ELSE active
           /\ paid' = IF EarnsDie(h, inTime) THEN [paid EXCEPT ![h] = @ + 1] ELSE paid
           /\ UNCHANGED <<position, touched>>
    BY <1>4, RightFacts
  <2>2. \A g \in Challenges : access'[g].cell = access[g].cell
    BY <2>1, StatusOnly
  <2>3. active' # None => active' = active /\ paid' = paid
    BY <2>1, EarnsFacts
  <2>4. QED  BY <2>1, <2>2, <2>3, StaysAway DEF ActiveIsAway
<1>5. ASSUME NEW h \in Challenges, Revoke(h)
      PROVE  ActiveIsAway'
  <2>1. \A g \in Challenges : access'[g].cell = access[g].cell
    BY <1>5, StatusOnly DEF Revoke
  <2>2. QED  BY <1>5, <2>1, StaysAway DEF Revoke
<1>6. ASSUME NEW c \in Cells \cup {Elsewhere}, NEW consume \in BOOLEAN, MovePiece(c, consume)
      PROVE  ActiveIsAway'
  BY <1>6 DEF MovePiece, ActiveIsAway, OpenedAt
<1>7. ASSUME NEW c \in Cells, NEW s \in {"UNVISITED", "CONSUMED"}, ResetCell(c, s)
      PROVE  ActiveIsAway'
  <2>1. /\ active' \in {active, None} /\ position' = position /\ paid' = paid
        /\ touched' = touched \cup OpenedAt(c)
    BY <1>7 DEF ResetCell
  <2>2. access' = [h \in Challenges |-> IF h \in OpenedAt(c) THEN NoAccess ELSE access[h]]
    BY <1>7 DEF ResetCell
  <2>3. NoAccess.cell \notin Cells
    BY CellsAssumption DEF NoAccess
  <2>4. position \in Cells /\ OpenedAt(position) = {} => OpenedAt(position)' = {}
    BY <2>1, <2>2, <2>3 DEF OpenedAt
  <2>5. QED  BY <2>1, <2>4 DEF ActiveIsAway
<1>8. ASSUME NEW c \in Cells, NEW s \in {"OPENED", "CLEARED"}, MarkCell(c, s)
      PROVE  ActiveIsAway'
  <2>1. PICK h \in OpenedAt(c) : /\ access' = [access EXCEPT ![h].status = s]
                                 /\ active' \in {active, None, h}
                                 /\ touched' = touched \cup {h}
                                 /\ UNCHANGED <<position, paid>>
    BY <1>8, MarkFacts
  <2>2. h \in Challenges /\ HasAccess(h)
    BY AccessFacts DEF OpenedAt
  <2>3. \A g \in Challenges : access'[g].cell = access[g].cell
    BY <2>1, <2>2, StatusOnly
  <2>4. QED  BY <2>1, <2>3 DEF ActiveIsAway, OpenedAt
<1>9. QED
  BY <1>1, <1>2, <1>3, <1>4, <1>5, <1>6, <1>7, <1>8, StepKinds
     DEF OpenStep, RightStep, RevokeStep, MoveStep, ResetStep, MarkStep

LEMMA DieStep ==
  ASSUME TypeOK, ActiveIsAway, OneDiePerChallenge, [Next]_vars
  PROVE  OneDiePerChallenge'
<1>1. ASSUME NEW u \in Users, NEW inTime \in BOOLEAN, SubmitRight(u, inTime)
      PROVE  OneDiePerChallenge'
  <2>1. PICK h \in Challenges :
           /\ paid' = IF EarnsDie(h, inTime) THEN [paid EXCEPT ![h] = @ + 1] ELSE paid
           /\ touched' = touched
    BY <1>1, RightFacts
  <2>2. EarnsDie(h, inTime) /\ h \notin touched => paid[h] = 0
    <3>1. EarnsDie(h, inTime) => active = h /\ active # None /\ h \in OpenedAt(position)
      BY EarnsFacts, CellsAssumption DEF OpenedAt
    <3>2. QED  BY <3>1 DEF ActiveIsAway, TypeOK
  <2>3. QED  BY <2>1, <2>2 DEF OneDiePerChallenge, TypeOK
<1>2. CASE Aside \/ TravelStep \/ OpenStep \/ RevokeStep \/ MoveStep \/ ResetStep \/ MarkStep
  <2>1. paid' = paid
    BY <1>2 DEF Aside, TravelStep, Travel, OpenStep, Open, RevokeStep, Revoke, MoveStep, MovePiece,
                ResetStep, ResetCell, MarkStep, MarkCell
  <2>2. QED  BY <2>1, AccessStays DEF OneDiePerChallenge
<1>3. QED  BY <1>1, <1>2, StepKinds DEF RightStep

-----------------------------------------------------------------------------
(* The bonus of a line *)

\* Writing the status of an access changes the cleared cells at its cell only.
LEMMA ClearedFacts ==
  ASSUME TypeOK, NEW h \in Challenges, HasAccess(h), NEW s \in {"OPENED", "CLEARED"},
         access' = [access EXCEPT ![h].status = s]
  PROVE  LET c == access[h].cell IN
           /\ ClearedCells(access') \ {c} = ClearedCells(access) \ {c}
           /\ s = "CLEARED" => ClearedCells(access') = ClearedCells(access) \cup {c}
           /\ s = "OPENED" => ClearedCells(access') \subseteq ClearedCells(access)
<1> DEFINE c == access[h].cell
<1>1. access'[h].status = s
  BY StatusOnly
<1>2. \A g \in Challenges : access'[g].cell = access[g].cell
  BY StatusOnly
<1>3. \A g \in Challenges : g = h \/ access'[g].status = access[g].status
  BY StatusOnly
<1>4. \A d : d \in ClearedCells(access) <=>
               \E g \in Challenges : access[g].status = "CLEARED" /\ d = access[g].cell
  BY DEF ClearedCells
<1>5. \A d : d \in ClearedCells(access') <=>
               \E g \in Challenges : access'[g].status = "CLEARED" /\ d = access'[g].cell
  BY DEF ClearedCells
<1>6. \A d : d # c => (d \in ClearedCells(access') <=> d \in ClearedCells(access))
  <2> SUFFICES ASSUME NEW d, d # c
               PROVE  d \in ClearedCells(access') <=> d \in ClearedCells(access)
    OBVIOUS
  <2>1. ASSUME NEW g \in Challenges
        PROVE  access'[g].status = "CLEARED" /\ d = access'[g].cell <=>
                 access[g].status = "CLEARED" /\ d = access[g].cell
    BY <1>2, <1>3
  <2>2. QED  BY <2>1, <1>4, <1>5, ZenonT(60)
<1>7. s = "CLEARED" => c \in ClearedCells(access')
  BY <1>1, <1>2, <1>5
<1>8. s = "OPENED" => (c \in ClearedCells(access') => c \in ClearedCells(access))
  BY <1>1, <1>2, <1>3, <1>4, <1>5
<1> HIDE DEF c
<1>9. /\ ClearedCells(access') \ {c} = ClearedCells(access) \ {c}
      /\ s = "CLEARED" => ClearedCells(access') = ClearedCells(access) \cup {c}
      /\ s = "OPENED" => ClearedCells(access') \subseteq ClearedCells(access)
  BY <1>6, <1>7, <1>8
<1>10. QED  BY <1>9 DEF c

\* Lines other than that of the cell stay as they are.
LEMMA OtherLines ==
  ASSUME NEW a, NEW b, NEW c \in Cells, ClearedCells(a) \ {c} = ClearedCells(b) \ {c},
         NEW n, n # LineOf[c]
  PROVE  Complete(a, n) <=> Complete(b, n)
BY DEF Complete, Line

\* The bonus is right after a handler that looks at the line of the cell it
\* changed: what is no longer complete goes, and what became complete is
\* accounted for.
LEMMA Looked ==
  ASSUME BonusFollowsLine, NEW c \in Cells,
         ClearedCells(access') \ {c} = ClearedCells(access) \ {c},
         monopoly' = Remaining(access', LineOf[c]),
         touched \subseteq touched',
         \A h \in touched : access'[h].cell = access[h].cell \/ access[h].cell = c,
         \/ ClearedCells(access') \subseteq ClearedCells(access) /\ c \notin ClearedCells(access')
         \/ ClearedCells(access') \subseteq ClearedCells(access)
            /\ \A h \in touched : access'[h].cell = access[h].cell
         \/ \E h \in touched' : access'[h].cell = c
  PROVE  BonusFollowsLine'
<1> SUFFICES ASSUME NEW n \in {LineOf[d] : d \in Cells}
             PROVE  /\ n \in monopoly' => Complete(access', n)
                    /\ Complete(access', n) =>
                         n \in monopoly' \/ \E h \in touched' : access'[h].cell \in Line(n)
  BY DEF BonusFollowsLine
<1>1. n \in monopoly' => n \in monopoly /\ (n = LineOf[c] => Complete(access', n))
  BY DEF Remaining
<1>2. n \in monopoly /\ Complete(access', n) => n \in monopoly'
  BY DEF Remaining
<1>3. n # LineOf[c] => (Complete(access', n) <=> Complete(access, n)) /\ c \notin Line(n)
  BY OtherLines DEF Line
<1>4. n = LineOf[c] => c \in Line(n)
  BY DEF Line
<1>5. Complete(access', n) => Line(n) \subseteq ClearedCells(access')
  BY DEF Complete
<1>6. ClearedCells(access') \subseteq ClearedCells(access) /\ Complete(access', n) => Complete(access, n)
  BY DEF Complete
<1>7. n \in monopoly' => Complete(access', n)
  BY <1>1, <1>3 DEF BonusFollowsLine
<1>8. ASSUME Complete(access', n)
      PROVE  n \in monopoly' \/ \E h \in touched' : access'[h].cell \in Line(n)
  <2>1. CASE n # LineOf[c]
    BY <1>2, <1>3, <1>8, <2>1 DEF BonusFollowsLine
  <2>2. CASE n = LineOf[c] /\ \E h \in touched' : access'[h].cell = c
    BY <1>4, <2>2
  <2>3. CASE n = LineOf[c] /\ ClearedCells(access') \subseteq ClearedCells(access)
    BY <1>2, <1>4, <1>5, <1>6, <1>8, <2>3 DEF BonusFollowsLine
  <2>4. QED  BY <2>1, <2>2, <2>3
<1>9. QED  BY <1>7, <1>8

LEMMA BonusStep ==
  ASSUME TypeOK, BonusFollowsLine, [Next]_vars
  PROVE  BonusFollowsLine'
<1>1. CASE Aside \/ TravelStep \/ MoveStep
  BY <1>1 DEF Aside, TravelStep, Travel, MoveStep, MovePiece, BonusFollowsLine
<1>2. ASSUME NEW h \in Challenges, Open(h)
      PROVE  BonusFollowsLine'
  <2>1. UNCHANGED <<monopoly, touched>> /\ access' = AccessFor(h)
    BY <1>2 DEF Open
  <2>2. \A g \in Challenges : HasAccess(g) => access'[g] = access[g]
    BY <2>1 DEF AccessFor, TypeOK
  <2>3. \A g \in Challenges : access'[g].status = "CLEARED" => access'[g] = access[g]
    BY <2>1 DEF AccessFor, TypeOK, Opened
  <2>4. ClearedCells(access') = ClearedCells(access)
    BY <2>2, <2>3, AccessFacts DEF ClearedCells
  <2>5. \A n : Complete(access', n) <=> Complete(access, n)
    BY <2>4 DEF Complete
  <2>6. \A g \in touched : \A n : access[g].cell \in Line(n) => access'[g].cell \in Line(n)
    BY <2>2, AccessFacts DEF Line, TypeOK
  <2>7. QED  BY <2>1, <2>5, <2>6 DEF BonusFollowsLine
<1>3. ASSUME NEW u \in Users, NEW inTime \in BOOLEAN, SubmitRight(u, inTime)
      PROVE  BonusFollowsLine'
  <2>1. PICK h \in Challenges :
           /\ access' = IF HasAccess(h) THEN [access EXCEPT ![h].status = "CLEARED"] ELSE access
           /\ monopoly' = monopoly \cup Awarded(access', h)
           /\ touched' = touched
    BY <1>3, RightFacts
  <2>2. CASE ~HasAccess(h)
    BY <2>1, <2>2 DEF HasAccess, Awarded, BonusFollowsLine
  <2>3. CASE HasAccess(h)
    <3> DEFINE c == access[h].cell
    <3>1. c \in Cells /\ access'[h] # NoAccess /\ access'[h].cell = c
      BY <2>1, <2>3, AccessFacts, StatusOnly DEF HasAccess
    <3>2. ClearedCells(access') = ClearedCells(access) \cup {c}
      BY <2>1, <2>3, ClearedFacts
    <3>3. \A n : Complete(access, n) => Complete(access', n)
      BY <3>2 DEF Complete
    <3>4. \A n : n # LineOf[c] => (Complete(access', n) <=> Complete(access, n))
      <4>1. ClearedCells(access') \ {c} = ClearedCells(access) \ {c}
        BY <3>2
      <4> HIDE DEF c
      <4>2. QED  BY <3>1, <4>1, OtherLines
    <3>5. monopoly' = monopoly \cup (IF Complete(access', LineOf[c]) THEN {LineOf[c]} ELSE {})
      BY <2>1, <3>1 DEF Awarded
    <3>6. \A g \in touched : access'[g].cell = access[g].cell
      BY <2>1, <2>3, StatusOnly DEF TypeOK
    <3> HIDE DEF c
    <3>7. QED  BY <2>1, <3>3, <3>4, <3>5, <3>6 DEF BonusFollowsLine
  <2>4. QED  BY <2>2, <2>3
<1>4. ASSUME NEW h \in Challenges, Revoke(h)
      PROVE  BonusFollowsLine'
  <2>1. CASE ~HasAccess(h)
    BY <1>4, <2>1 DEF Revoke, BonusFollowsLine
  <2>2. CASE HasAccess(h)
    <3>1. /\ access' = [access EXCEPT ![h].status = "OPENED"]
          /\ monopoly' = Remaining(access', LineOf[access[h].cell])
          /\ touched' = touched
      BY <1>4, <2>2 DEF Revoke
    <3>2. access[h].cell \in Cells
      BY <2>2, AccessFacts
    <3>3. \A g \in touched : access'[g].cell = access[g].cell
      BY <2>2, <3>1, StatusOnly DEF TypeOK
    <3>4. /\ ClearedCells(access') \ {access[h].cell} = ClearedCells(access) \ {access[h].cell}
          /\ ClearedCells(access') \subseteq ClearedCells(access)
      BY <2>2, <3>1, ClearedFacts
    <3>5. QED  BY <3>1, <3>2, <3>3, <3>4, Looked
  <2>3. QED  BY <2>1, <2>2
<1>5. ASSUME NEW c \in Cells, NEW s \in {"UNVISITED", "CONSUMED"}, ResetCell(c, s)
      PROVE  BonusFollowsLine'
  <2>1. /\ access' = [h \in Challenges |-> IF h \in OpenedAt(c) THEN NoAccess ELSE access[h]]
        /\ monopoly' = Remaining(access', LineOf[c])
        /\ touched' = touched \cup OpenedAt(c)
    BY <1>5 DEF ResetCell
  <2>2. NoAccess.cell # c /\ NoAccess.status # "CLEARED"
    BY CellsAssumption DEF NoAccess
  <2>3. \A h \in Challenges : access'[h].status = "CLEARED" => access'[h] = access[h] /\ access[h].cell # c
    BY <2>1, <2>2 DEF OpenedAt
  <2>4. \A h \in Challenges : access[h].cell # c => access'[h] = access[h]
    BY <2>1 DEF OpenedAt
  <2>5. ClearedCells(access') = ClearedCells(access) \ {c}
    BY <2>3, <2>4 DEF ClearedCells
  <2>6. \A h \in touched : access'[h].cell = access[h].cell \/ access[h].cell = c
    BY <2>4 DEF TypeOK
  <2>7. QED  BY <2>1, <2>5, <2>6, Looked
<1>6. ASSUME NEW c \in Cells, NEW s \in {"OPENED", "CLEARED"}, MarkCell(c, s)
      PROVE  BonusFollowsLine'
  <2>1. PICK h \in OpenedAt(c) : /\ access' = [access EXCEPT ![h].status = s]
                                 /\ touched' = touched \cup {h}
                                 /\ monopoly' = Remaining(access', LineOf[c])
    BY <1>6, MarkFacts
  <2>2. h \in Challenges /\ HasAccess(h) /\ access[h].cell = c
    BY AccessFacts DEF OpenedAt
  <2>3. \A g \in Challenges : access'[g].cell = access[g].cell
    BY <2>1, <2>2, StatusOnly
  <2>4. ClearedCells(access') \ {c} = ClearedCells(access) \ {c}
    BY <2>1, <2>2, ClearedFacts
  <2>5. \A g \in touched : access'[g].cell = access[g].cell
    BY <2>3 DEF TypeOK
  <2>6. QED  BY <2>1, <2>2, <2>3, <2>4, <2>5, Looked
<1>7. QED
  BY <1>1, <1>2, <1>3, <1>4, <1>5, <1>6, StepKinds
     DEF OpenStep, RightStep, RevokeStep, ResetStep, MarkStep

-----------------------------------------------------------------------------
(* Theorems *)

LEMMA InitInv == Init => IInv
<1> SUFFICES ASSUME Init PROVE IInv
  OBVIOUS
<1>1. ClearedCells(access) = {}
  BY DEF Init, ClearedCells, NoAccess
<1>2. \A n : ~Complete(access, n)
  BY <1>1 DEF Complete
<1>3. BonusFollowsLine
  BY <1>2 DEF Init, BonusFollowsLine
<1>4. LockOutInTime
  BY BoundsAssumption DEF Init, LockOutInTime, Unlocked
<1>5. QED
  BY <1>3, <1>4, InitType
     DEF Init, IInv, RequestsHadAccess, PaidHadAccess, ActiveIsAway, SolvedIsCleared, OneDiePerChallenge

LEMMA InvStep == IInv /\ [Next]_vars => IInv'
BY TypeStep, LockStep, RequestsStep, PaidStep, ActiveStep, SolvedStep, DieStep, BonusStep DEF IInv

LEMMA Invariance == Spec => []IInv
BY InitInv, InvStep, PTL DEF Spec

\* Type correctness, the attempts that are counted included.
THEOREM TypeCorrect == Spec => []TypeOK
<1>1. IInv => TypeOK
  BY DEF IInv
<1>2. QED  BY <1>1, Invariance, PTL

\* Whatever is solved, withdrawn, reset and marked in whatever order, a team has
\* the bonus of exactly the lines that are complete, but for marked cells.
THEOREM BonusesFollowLines == Spec => []BonusFollowsLine
<1>1. IInv => BonusFollowsLine
  BY DEF IInv
<1>2. QED  BY <1>1, Invariance, PTL

\* A solve clears its cell, though its access may have been removed or moved
\* between the read of the submission and its transaction.
THEOREM SolvesAreCleared == Spec => []SolvedIsCleared
<1>1. IInv => SolvedIsCleared
  BY DEF IInv
<1>2. QED  BY <1>1, Invariance, PTL

\* No challenge earns two extra dice, even solved twice.
THEOREM DiceAreEarnedOnce == Spec => []OneDiePerChallenge
<1>1. IInv => OneDiePerChallenge
  BY DEF IInv
<1>2. QED  BY <1>1, Invariance, PTL

\* Every solve is for the flag and the lock of the moment it is recorded.
THEOREM SolvesAreOfToday == Spec => SolvedByTodaysFlag
<1>1. ASSUME TypeOK, [Next]_vars, NEW h \in solves' \ solves
      PROVE  /\ lock[h].until # "FUTURE"
             /\ \E u \in Users : /\ request[u] # None /\ request'[u] = None
                                 /\ request[u].challenge = h /\ request[u].flag = hash[h]
  <2>1. CASE RightStep
    <3>1. PICK u \in Users, inTime \in BOOLEAN : SubmitRight(u, inTime)
      BY <2>1 DEF RightStep
    <3>2. PICK g \in Challenges : g = request[u].challenge /\ request[u] # None /\ solves' = solves \cup {g}
      BY <1>1, <3>1, RightFacts
    <3>3. h = request[u].challenge
      BY <1>1, <3>2
    <3>4. request[u].flag = hash[h]
      BY <3>1, <3>3 DEF SubmitRight, Right
    <3>5. request' = [request EXCEPT ![u] = None]
      BY <3>1 DEF SubmitRight, Ends
    <3>6. request'[u] = None
      BY <1>1, <3>5 DEF TypeOK
    <3>7. lock[h].until # "FUTURE"
      BY <3>1, <3>3 DEF SubmitRight, LockedOut
    <3>8. QED  BY <3>2, <3>3, <3>4, <3>6, <3>7
  <2>2. CASE Aside \/ TravelStep \/ OpenStep \/ RevokeStep \/ MoveStep \/ ResetStep \/ MarkStep
    <3>1. solves' \subseteq solves
      BY <2>2 DEF Aside, TravelStep, Travel, OpenStep, Open, RevokeStep, Revoke, MoveStep, MovePiece,
                  ResetStep, ResetCell, MarkStep, MarkCell, flagVars
    <3>2. QED  BY <1>1, <3>1
  <2>3. QED  BY <1>1, <2>1, <2>2, StepKinds
<1>2. TypeOK /\ [Next]_vars =>
        [\A h \in solves' \ solves :
           /\ lock[h].until # "FUTURE"
           /\ \E u \in Users : /\ request[u] # None /\ request'[u] = None
                               /\ request[u].challenge = h /\ request[u].flag = hash[h]]_vars
  BY <1>1
<1>3. QED  BY <1>2, TypeCorrect, PTL DEF Spec, SolvedByTodaysFlag

=============================================================================
