----------------------- MODULE ScoreTransactionsProofs -----------------------
(***************************************************************************)
(* Proofs about ScoreTransactions for any number of teams, challenges and  *)
(* processes: the stored scores follow from the stored solves, a KOTH      *)
(* period is awarded once, and which transactions may deadlock.            *)
(***************************************************************************)
EXTENDS ScoreTransactions, FiniteSetTheorems, WellFoundedInduction, TLAPS

-----------------------------------------------------------------------------
(***************************************************************************)
(* A transaction computes from what others have committed, and publishes   *)
(* it later.  The invariant says which rows it has locked by then, and     *)
(* that what it computed is what it would compute now.                     *)
(***************************************************************************)

\* A row is locked by one transaction at most, and only while it exists.
Exclusive ==
  \A p \in Processes :
    /\ \A q \in Processes \ {p} : tx[p].held \cap tx[q].held = {}
    /\ \A r \in tx[p].held : Exists(r)

SolvesOfTeams == \A t \in Teams, c \in Challenges : <<t, c>> \in solves => t \in teams

\* What a transaction has asked for is locked, still wanted, or gone.
Secured(p, r) == r \in tx[p].held \cup tx[p].want \/ ~Exists(r)

\* The first step of a submission, a withdrawal and a rescoring; the steps after it.
LocksFirst(p, rows) ==
  /\ tx[p].held \cup tx[p].want \subseteq rows
  /\ \A r \in rows : Secured(p, r)
LocksTeams(p, rows, S) ==
  /\ tx[p].held \subseteq rows \cup TeamRows(Teams) /\ tx[p].want \subseteq TeamRows(Teams)
  /\ \A r \in rows : r \in tx[p].held \/ ~Exists(r)
  /\ \A t \in S : Secured(p, Team(t))

Submits(p) ==
  LET t == tx[p].team
      c == tx[p].challenge
  IN  /\ t \in Teams /\ c \in Challenges /\ tx[p].step \in 1..3
      /\ tx[p].step = 1 => LocksFirst(p, {State(t), Challenge(c)})
      /\ tx[p].step > 1 => /\ LocksTeams(p, {State(t), Challenge(c)}, Affected(t, c))
                           /\ tx[p].want \subseteq TeamRows({t} \cup Solvers(solves, c))
      /\ tx[p].step = 3 => tx[p].want = {} /\ ~SubmitRefused(p) /\ tx[p].new = SubmitResult(p)

Revokes(p) ==
  LET t == tx[p].team
      c == tx[p].challenge
  IN  /\ t \in Teams /\ c \in Challenges /\ tx[p].step \in 1..3
      /\ tx[p].step = 1 => LocksFirst(p, {State(t), Challenge(c)})
      /\ tx[p].step > 1 => /\ LocksTeams(p, {State(t), Challenge(c)}, Solvers(solves, c))
                           /\ tx[p].want \subseteq TeamRows(Solvers(solves, c))
                           /\ Solve(p) \in solves
      /\ tx[p].step = 3 => tx[p].want = {} /\ tx[p].new = RevokeResult(p)

Rescores(p) ==
  LET c == tx[p].challenge
  IN  /\ c \in Challenges /\ tx[p].step \in 1..3
      /\ tx[p].step = 1 => LocksFirst(p, {Challenge(c)})
      /\ tx[p].step > 1 => /\ LocksTeams(p, {Challenge(c)}, Solvers(solves, c))
                           /\ tx[p].want \subseteq TeamRows(Solvers(solves, c))
      /\ tx[p].step = 3 => /\ tx[p].want = {} /\ tx[p].scoring \in Scorings
                           /\ tx[p].new = RescoreResult(p, tx[p].scoring)

\* The team of a deletion is locked before its solves are compared with those
\* read before, and no solve of it is added from then on.
DeletesTeam(p) ==
  LET t == tx[p].team
  IN  /\ t \in Teams /\ tx[p].step \in 1..4
      /\ \A c \in tx[p].read : Secured(p, Challenge(c))
      /\ Secured(p, Team(t))
      /\ tx[p].step > 1 => /\ tx[p].want \cap (ChallengeRows(Challenges) \cup {Team(t)}) = {}
                           /\ Team(t) \in tx[p].held /\ NoNewSolve(p)
                           /\ Secured(p, State(t))
      /\ tx[p].step > 2 => /\ tx[p].want \subseteq TeamRows(Teams)
                           /\ \A u \in DeleteAffected(p) : Secured(p, Team(u))
      /\ tx[p].step = 4 => tx[p].want = {} /\ tx[p].new = DeleteResult(p)

Polls(p) ==
  /\ tx[p].step \in 1..3
  /\ tx[p].step = 1 => tx[p].held \cup tx[p].want = {}
  /\ tx[p].step = 2 => LocksFirst(p, {Period})
  /\ tx[p].step = 3 => LocksTeams(p, {Period}, {}) /\ period # "APPLIED"

LocksOnly(p, rows) ==
  /\ tx[p].team \in Teams /\ tx[p].challenge \in Challenges
  /\ LocksFirst(p, rows)

Works(p) ==
  /\ tx[p].kind = "NONE"       => tx[p] = Nothing
  /\ tx[p].kind = "SUBMIT"     => Submits(p)
  /\ tx[p].kind = "REVOKE"     => Revokes(p)
  /\ tx[p].kind = "RESCORE"    => Rescores(p)
  /\ tx[p].kind = "DELETE"     => DeletesTeam(p)
  /\ tx[p].kind = "POLL"       => Polls(p)
  /\ tx[p].kind = "OPEN"       => LocksOnly(p, OpenRows(tx[p].team, tx[p].challenge))
  /\ tx[p].kind = "ACCEPT_EXE" => LocksOnly(p, AcceptRows(tx[p].team, tx[p].challenge))

Working == \A p \in Processes : Works(p)

\* Every transaction but a deletion locks its rows in order.
InOrder ==
  \A p \in Processes : tx[p].kind # "DELETE" =>
    \A r \in tx[p].held, s \in tx[p].want : Before(tx[p].kind, r, s)

IInv == TypeOK /\ Exclusive /\ SolvesOfTeams /\ Working /\ StandingsFollowSolves

LInv == IInv /\ InOrder

-----------------------------------------------------------------------------
(* Rows and transactions *)

LEMMA RowsOfKeys ==
  ASSUME NEW t \in Teams, NEW c \in Challenges
  PROVE  /\ {State(t), Team(t), Challenge(c), Period} \subseteq Rows
         /\ State(t) # Team(t) /\ State(t) # Challenge(c) /\ Team(t) # Challenge(c)
         /\ Period \notin {State(t), Team(t), Challenge(c)}
         /\ Exists(Challenge(c)) /\ Exists(Period)
         /\ Exists(State(t)) <=> t \in teams
         /\ Exists(Team(t)) <=> t \in teams
  BY DEF Rows, State, Team, Challenge, Period, Exists

LEMMA RowsOfSets ==
  ASSUME NEW S \in SUBSET Teams, NEW C \in SUBSET Challenges
  PROVE  /\ TeamRows(S) \subseteq Rows /\ ChallengeRows(C) \subseteq Rows
         /\ \A t : Team(t) \in TeamRows(S) <=> t \in S
         /\ \A c : Challenge(c) \in ChallengeRows(C) <=> c \in C
         /\ \A r \in TeamRows(S) : \E t \in S : r = Team(t)
         /\ \A r \in ChallengeRows(C) : \E c \in C : r = Challenge(c)
         /\ \A t : Team(t) \notin ChallengeRows(C) /\ State(t) \notin ChallengeRows(C)
         /\ \A t : State(t) \notin TeamRows(S) /\ Challenge(t) \notin TeamRows(S)
         /\ Period \notin TeamRows(S) /\ Period \notin ChallengeRows(C)
  BY DEF Rows, State, Team, Challenge, Period, TeamRows, ChallengeRows

LEMMA KeysOfRows ==
  /\ \A t, u : Team(t) = Team(u) => t = u
  /\ \A t, u : State(t) = State(u) => t = u
  /\ \A c, d : Challenge(c) = Challenge(d) => c = d
  /\ \A t, c : State(t) # Team(c) /\ State(t) # Challenge(c) /\ Team(t) # Challenge(c)
  BY DEF State, Team, Challenge

LEMMA NothingIsOne == IsTransaction(Nothing)
  BY SizesAssumption DEF IsTransaction, Nothing, Kinds, Rows

Transaction(k, n, t, c, read, g, held, want, new) ==
  [kind |-> k, step |-> n, team |-> t, challenge |-> c, read |-> read, scoring |-> g,
   held |-> held, want |-> want, new |-> new]

LEMMA TransactionIsOne ==
  ASSUME NEW k \in Kinds, NEW n \in 0..4, NEW t \in 0..MaxTeam, NEW c \in 0..MaxChallenge,
         NEW read \in SUBSET Challenges, NEW g, NEW held \in SUBSET Rows,
         NEW want \in SUBSET Rows, NEW new
  PROVE  IsTransaction(Transaction(k, n, t, c, read, g, held, want, new))
  BY DEF IsTransaction, Transaction

LEMMA ChangedIsOne ==
  ASSUME NEW x, IsTransaction(x), NEW n \in 0..4, NEW read \in SUBSET Challenges, NEW g,
         NEW held \in SUBSET Rows, NEW want \in SUBSET Rows, NEW new
  PROVE  IsTransaction(Transaction(x.kind, n, x.team, x.challenge, read, g, held, want, new))
  <1>1. x.kind \in Kinds /\ x.team \in 0..MaxTeam /\ x.challenge \in 0..MaxChallenge
    BY DEF IsTransaction
  <1> QED BY <1>1, TransactionIsOne

LEMMA StepAndWant ==
  ASSUME NEW x, IsTransaction(x), NEW n, NEW v
  PROVE  [x EXCEPT !.step = n, !.want = v]
           = Transaction(x.kind, n, x.team, x.challenge, x.read, x.scoring, x.held, v, x.new)
  <1> DEFINE y == [x EXCEPT !.step = n]
  <1>1. x = Transaction(x.kind, x.step, x.team, x.challenge, x.read, x.scoring, x.held, x.want,
                        x.new)
    BY DEF IsTransaction, Transaction
  <1>2. y = Transaction(x.kind, n, x.team, x.challenge, x.read, x.scoring, x.held, x.want, x.new)
    BY <1>1 DEF Transaction
  <1>3. [x EXCEPT !.step = n, !.want = v] = [y EXCEPT !.want = v]
    OBVIOUS
  <1> HIDE DEF y
  <1>4. [y EXCEPT !.want = v]
          = Transaction(x.kind, n, x.team, x.challenge, x.read, x.scoring, x.held, v, x.new)
    BY <1>2 DEF Transaction
  <1> QED BY <1>3, <1>4

LEMMA StepAndNew ==
  ASSUME NEW x, IsTransaction(x), NEW n, NEW v
  PROVE  [x EXCEPT !.step = n, !.new = v]
           = Transaction(x.kind, n, x.team, x.challenge, x.read, x.scoring, x.held, x.want, v)
  <1> DEFINE y == [x EXCEPT !.step = n]
  <1>1. x = Transaction(x.kind, x.step, x.team, x.challenge, x.read, x.scoring, x.held, x.want,
                        x.new)
    BY DEF IsTransaction, Transaction
  <1>2. y = Transaction(x.kind, n, x.team, x.challenge, x.read, x.scoring, x.held, x.want, x.new)
    BY <1>1 DEF Transaction
  <1>3. [x EXCEPT !.step = n, !.new = v] = [y EXCEPT !.new = v]
    OBVIOUS
  <1> HIDE DEF y
  <1>4. [y EXCEPT !.new = v]
          = Transaction(x.kind, n, x.team, x.challenge, x.read, x.scoring, x.held, x.want, v)
    BY <1>2 DEF Transaction
  <1> QED BY <1>3, <1>4

\* The others' transactions stay.
Others(p) == DOMAIN tx' = Processes /\ \A q \in Processes \ {p} : tx'[q] = tx[q]

\* The transaction stays the same but for its step and its rows.
Continues(p) ==
  /\ tx'[p].kind = tx[p].kind /\ tx'[p].team = tx[p].team
  /\ tx'[p].challenge = tx[p].challenge

LEMMA BeginSets ==
  ASSUME TypeOK, NEW p \in Processes, NEW k \in Kinds, NEW t \in 0..MaxTeam,
         NEW c \in 0..MaxChallenge, NEW read \in SUBSET Challenges, NEW rows \in SUBSET Rows,
         BeginAfter(p, k, t, c, read, rows)
  PROVE  /\ Others(p) /\ IsTransaction(tx'[p])
         /\ tx'[p].kind = k /\ tx'[p].step = 1 /\ tx'[p].team = t /\ tx'[p].challenge = c
         /\ tx'[p].read = read /\ tx'[p].held = {} /\ tx'[p].want = rows
  <1>1. tx' = [tx EXCEPT ![p] = Transaction(k, 1, t, c, read, SomeScoring, {}, rows, NoResult)]
    BY DEF BeginAfter, Transaction
  <1>2. tx'[p] = Transaction(k, 1, t, c, read, SomeScoring, {}, rows, NoResult)
    BY <1>1 DEF TypeOK
  <1>3. IsTransaction(tx'[p])
    BY <1>2, TransactionIsOne
  <1>4. Others(p)
    BY <1>1 DEF TypeOK, Others
  <1> QED BY <1>2, <1>3, <1>4 DEF Transaction

LEMMA LockMoreSets ==
  ASSUME TypeOK, NEW p \in Processes, NEW rows \in SUBSET Rows, LockMore(p, rows),
         tx[p].step < 4
  PROVE  /\ Others(p) /\ IsTransaction(tx'[p]) /\ Continues(p)
         /\ tx'[p].step = tx[p].step + 1 /\ tx'[p].held = tx[p].held /\ tx'[p].want = rows
         /\ tx'[p].read = tx[p].read /\ tx'[p].new = tx[p].new
  <1>1. IsTransaction(tx[p]) /\ DOMAIN tx = Processes
    BY DEF TypeOK
  <1>2. tx' = [tx EXCEPT ![p].step = @ + 1, ![p].want = rows]
    BY DEF LockMore
  <1>3. tx'[p] = Transaction(tx[p].kind, tx[p].step + 1, tx[p].team, tx[p].challenge, tx[p].read,
                             tx[p].scoring, tx[p].held, rows, tx[p].new)
    <2>1. tx'[p] = [tx[p] EXCEPT !.step = @ + 1, !.want = rows]
      BY <1>1, <1>2
    <2> QED BY <1>1, <2>1, StepAndWant
  <1>4. IsTransaction(tx'[p])
    <2>1. /\ tx[p].step + 1 \in 0..4 /\ tx[p].read \subseteq Challenges
          /\ tx[p].held \subseteq Rows /\ tx[p].want \subseteq Rows
      BY <1>1 DEF IsTransaction
    <2> QED BY <1>1, <1>3, <2>1, ChangedIsOne
  <1>5. Others(p)
    BY <1>1, <1>2 DEF Others
  <1> QED BY <1>3, <1>4, <1>5 DEF Transaction, Continues

LEMMA ComputesSets ==
  ASSUME TypeOK, NEW p \in Processes, NEW result, Computes(p, result), tx[p].step < 4
  PROVE  /\ Others(p) /\ IsTransaction(tx'[p]) /\ Continues(p)
         /\ tx'[p].step = tx[p].step + 1 /\ tx'[p].held = tx[p].held /\ tx'[p].want = tx[p].want
         /\ tx'[p].read = tx[p].read /\ tx'[p].new = result
  <1>1. IsTransaction(tx[p]) /\ DOMAIN tx = Processes
    BY DEF TypeOK
  <1>2. tx' = [tx EXCEPT ![p].step = @ + 1, ![p].new = result]
    BY DEF Computes
  <1>3. tx'[p] = Transaction(tx[p].kind, tx[p].step + 1, tx[p].team, tx[p].challenge, tx[p].read,
                             tx[p].scoring, tx[p].held, tx[p].want, result)
    <2>1. tx'[p] = [tx[p] EXCEPT !.step = @ + 1, !.new = result]
      BY <1>1, <1>2
    <2> QED BY <1>1, <2>1, StepAndNew
  <1>4. IsTransaction(tx'[p])
    <2>1. /\ tx[p].step + 1 \in 0..4 /\ tx[p].read \subseteq Challenges
          /\ tx[p].held \subseteq Rows /\ tx[p].want \subseteq Rows
      BY <1>1 DEF IsTransaction
    <2> QED BY <1>1, <1>3, <2>1, ChangedIsOne
  <1>5. Others(p)
    BY <1>1, <1>2 DEF Others
  <1> QED BY <1>3, <1>4, <1>5 DEF Transaction, Continues

LEMMA EndsSets ==
  ASSUME TypeOK, NEW p \in Processes, Ends(p)
  PROVE  /\ Others(p) /\ IsTransaction(tx'[p]) /\ tx'[p] = Nothing
         /\ tx'[p].kind = "NONE" /\ tx'[p].held = {} /\ tx'[p].want = {}
  BY NothingIsOne DEF TypeOK, Ends, Others, Nothing

\* The next row is granted, or passed over because it is gone.
Grants(p, r) ==
  /\ NextRow(p, r) /\ Free(p, r)
  /\ tx'[p].want = tx[p].want \ {r}
  /\ tx'[p].held = IF Exists(r) THEN tx[p].held \cup {r} ELSE tx[p].held

LEMMA LockSets ==
  ASSUME TypeOK, NEW p \in Processes, Lock(p)
  PROVE  /\ Others(p) /\ IsTransaction(tx'[p]) /\ Continues(p) /\ UnchangedData
         /\ tx'[p].step = tx[p].step /\ tx'[p].read = tx[p].read
         /\ tx'[p].scoring = tx[p].scoring /\ tx'[p].new = tx[p].new
         /\ \E r \in tx[p].want : Grants(p, r)
  <1>1. PICK r \in tx[p].want :
          /\ NextRow(p, r) /\ Free(p, r)
          /\ tx' = [tx EXCEPT ![p].want = @ \ {r},
                              ![p].held = IF Exists(r) THEN @ \cup {r} ELSE @]
    BY DEF Lock
  <1>2. /\ Others(p) /\ Continues(p) /\ tx'[p].step = tx[p].step /\ tx'[p].read = tx[p].read
        /\ tx'[p].scoring = tx[p].scoring /\ tx'[p].new = tx[p].new
        /\ tx'[p].want = tx[p].want \ {r}
        /\ tx'[p].held = IF Exists(r) THEN tx[p].held \cup {r} ELSE tx[p].held
    BY <1>1 DEF TypeOK, Others, IsTransaction, Continues
  <1>3. IsTransaction(tx'[p])
    <2>1. IsTransaction(tx[p]) /\ DOMAIN tx = Processes
      BY DEF TypeOK
    <2>2. tx'[p] = Transaction(tx[p].kind, tx[p].step, tx[p].team, tx[p].challenge, tx[p].read,
                               tx[p].scoring, tx'[p].held, tx'[p].want, tx[p].new)
      BY <1>1, <2>1 DEF IsTransaction, Transaction
    <2>3. /\ tx[p].step \in 0..4 /\ tx[p].read \subseteq Challenges
          /\ tx[p].held \subseteq Rows /\ tx[p].want \subseteq Rows
      BY <2>1 DEF IsTransaction
    <2>4. tx'[p].held \subseteq Rows /\ tx'[p].want \subseteq Rows
      <3>1. tx'[p].want \subseteq tx[p].want /\ tx'[p].held \subseteq tx[p].held \cup {r}
        BY <1>2
      <3> QED BY <1>1, <2>3, <3>1
    <2> QED BY <2>1, <2>2, <2>3, <2>4, ChangedIsOne
  <1>4. UnchangedData
    BY DEF Lock
  <1> QED BY <1>1, <1>2, <1>3, <1>4 DEF Grants
-----------------------------------------------------------------------------
(* Solves *)

LEMMA SolversAreTeams ==
  ASSUME NEW ss, NEW c
  PROVE  /\ Solvers(ss, c) \subseteq Teams /\ IsFiniteSet(Solvers(ss, c))
         /\ Cardinality(Solvers(ss, c)) \in Nat
  <1>1. IsFiniteSet(Teams)
    BY FS_Interval, SizesAssumption DEF Teams
  <1>2. Solvers(ss, c) \subseteq Teams
    BY DEF Solvers
  <1> QED BY <1>1, <1>2, FS_Subset, FS_CardinalityType

LEMMA SolvedAreChallenges ==
  ASSUME NEW ss, NEW t
  PROVE  /\ SolvedBy(ss, t) \subseteq Challenges /\ IsFiniteSet(SolvedBy(ss, t))
         /\ Cardinality(SolvedBy(ss, t)) \in Nat
  <1>1. IsFiniteSet(Challenges)
    BY FS_Interval, SizesAssumption DEF Challenges
  <1>2. SolvedBy(ss, t) \subseteq Challenges
    BY DEF SolvedBy
  <1> QED BY <1>1, <1>2, FS_Subset, FS_CardinalityType

\* A team solves a challenge in one way, whichever side one looks from.
LEMMA Sides ==
  ASSUME NEW ss
  PROVE  \A t \in Teams, c \in Challenges :
           /\ t \in Solvers(ss, c) <=> <<t, c>> \in ss
           /\ c \in SolvedBy(ss, t) <=> <<t, c>> \in ss
  BY DEF Solvers, SolvedBy

LEMMA OneMore ==
  ASSUME NEW ss, NEW t \in Teams, NEW c \in Challenges, <<t, c>> \notin ss
  PROVE  LET more == ss \cup {<<t, c>>} IN
           /\ Solvers(more, c) = Solvers(ss, c) \cup {t}
           /\ Cardinality(Solvers(more, c)) = Cardinality(Solvers(ss, c)) + 1
           /\ \A d \in Challenges \ {c} : Solvers(more, d) = Solvers(ss, d)
           /\ \A u \in Teams \ {t} : SolvedBy(more, u) = SolvedBy(ss, u)
           /\ Cardinality(SolvedBy(more, t)) = Cardinality(SolvedBy(ss, t)) + 1
  <1> DEFINE more == ss \cup {<<t, c>>}
  <1>1. /\ Solvers(more, c) = Solvers(ss, c) \cup {t} /\ t \notin Solvers(ss, c)
        /\ SolvedBy(more, t) = SolvedBy(ss, t) \cup {c} /\ c \notin SolvedBy(ss, t)
    BY DEF Solvers, SolvedBy
  <1>2. /\ \A d \in Challenges \ {c} : Solvers(more, d) = Solvers(ss, d)
        /\ \A u \in Teams \ {t} : SolvedBy(more, u) = SolvedBy(ss, u)
    BY DEF Solvers, SolvedBy
  <1>3. Cardinality(Solvers(more, c)) = Cardinality(Solvers(ss, c)) + 1
    BY <1>1, SolversAreTeams, FS_AddElement
  <1>4. Cardinality(SolvedBy(more, t)) = Cardinality(SolvedBy(ss, t)) + 1
    BY <1>1, SolvedAreChallenges, FS_AddElement
  <1> QED BY <1>1, <1>2, <1>3, <1>4

LEMMA OneLess ==
  ASSUME NEW ss, NEW t \in Teams, NEW c \in Challenges, <<t, c>> \in ss
  PROVE  LET less == ss \ {<<t, c>>} IN
           /\ \A d \in Challenges \ {c} : Solvers(less, d) = Solvers(ss, d)
           /\ \A u \in Teams \ {t} : SolvedBy(less, u) = SolvedBy(ss, u)
           /\ Cardinality(SolvedBy(less, t)) = Cardinality(SolvedBy(ss, t)) - 1
  <1> DEFINE less == ss \ {<<t, c>>}
  <1>1. SolvedBy(less, t) = SolvedBy(ss, t) \ {c} /\ c \in SolvedBy(ss, t)
    BY DEF SolvedBy
  <1>2. /\ \A d \in Challenges \ {c} : Solvers(less, d) = Solvers(ss, d)
        /\ \A u \in Teams \ {t} : SolvedBy(less, u) = SolvedBy(ss, u)
    BY DEF Solvers, SolvedBy
  <1>3. Cardinality(SolvedBy(less, t)) = Cardinality(SolvedBy(ss, t)) - 1
    BY <1>1, SolvedAreChallenges, FS_RemoveElement
  <1> QED BY <1>2, <1>3

\* A team's total depends on the scores of what it solved only.
LEMMA SameTotal ==
  ASSUME NEW t, NEW s1, NEW s2, NEW w1, NEW w2, SolvedBy(s1, t) = SolvedBy(s2, t),
         \A c \in SolvedBy(s1, t) : w1[c] = w2[c]
  PROVE  Total(s1, w1, t) = Total(s2, w2, t)
  <1>1. [c \in SolvedBy(s1, t) |-> w1[c]] = [c \in SolvedBy(s2, t) |-> w2[c]]
    OBVIOUS
  <1> QED BY <1>1 DEF Total

\* What a transaction computed is what it would compute now, if the solves and
\* parameters of its challenges and the totals of its teams did not change.
LEMMA SameStandings ==
  ASSUME NEW w1, NEW w2, NEW s1, NEW s2, NEW g1, NEW g2,
         NEW C \in SUBSET Challenges, NEW S \in SUBSET Teams,
         \A c \in C : Solvers(s1, c) = Solvers(s2, c) /\ g1[c] = g2[c],
         \A t \in S : /\ SolvedBy(s1, t) = SolvedBy(s2, t)
                      /\ \A c \in SolvedBy(s1, t) \ C : w1[c] = w2[c]
  PROVE  Standings(w1, s1, g1, C, S) = Standings(w2, s2, g2, C, S)
  <1> DEFINE u1 == Updated(w1, s1, g1, C)
             u2 == Updated(w2, s2, g2, C)
  <1>1. \A c \in C : Worth(s1, g1, c) = Worth(s2, g2, c)
    BY DEF Worth
  <1>2. \A t \in S : \A c \in SolvedBy(s1, t) : u1[c] = u2[c]
    BY <1>1, SolvedAreChallenges DEF Updated
  <1>3. \A t \in S : Total(s1, u1, t) = Total(s2, u2, t)
    <2> HIDE DEF u1, u2
    <2> QED BY <1>2, SameTotal
  <1> QED BY <1>1, <1>3 DEF Standings
-----------------------------------------------------------------------------
(***************************************************************************)
(* What a commit publishes.  It rewrites the challenges C and the teams S, *)
(* and holds them; every team it does not rewrite keeps its solves, and    *)
(* the scores of what it solved.                                           *)
(***************************************************************************)

Publishes(p, ss, gs, C, S) ==
  /\ C \subseteq Challenges /\ S \subseteq Teams
  /\ tx[p].new = Standings(worth, ss, gs, C, S)
  /\ \A c \in C : Challenge(c) \in tx[p].held
  /\ \A t \in S : Team(t) \in tx[p].held
  /\ \A c \in Challenges \ C : Solvers(ss, c) = Solvers(solves, c) /\ gs[c] = scoring[c]

Spares(ss, gs, C, t) ==
  /\ SolvedBy(ss, t) = SolvedBy(solves, t)
  /\ \A c \in C \cap SolvedBy(ss, t) : Worth(ss, gs, c) = worth[c]

\* What a step of p may change, by the rows it holds.
Isolates(p) ==
  /\ teams' \subseteq teams
  /\ \A c \in Challenges : Challenge(c) \notin tx[p].held =>
       /\ Solvers(solves', c) = Solvers(solves, c)
       /\ scoring'[c] = scoring[c] /\ worth'[c] = worth[c]
  /\ \A t \in teams : Team(t) \notin tx[p].held =>
       /\ t \in teams' /\ SolvedBy(solves', t) = SolvedBy(solves, t)
       /\ \A c \in SolvedBy(solves, t) : worth'[c] = worth[c]
  /\ Period \notin tx[p].held => (period = "APPLIED" <=> period' = "APPLIED")

LEMMA PublishedWorth ==
  ASSUME NEW p, NEW ss, NEW gs, NEW C, NEW S, Publishes(p, ss, gs, C, S), Publish(p)
  PROVE  /\ worth' = Updated(worth, ss, gs, C)
         /\ \A c \in C : worth'[c] = Worth(ss, gs, c)
         /\ \A c \in Challenges \ C : worth'[c] = worth[c]
         /\ \A t \in S : score'[t] = Total(ss, worth', t)
         /\ \A t \in Teams \ S : score'[t] = score[t]
  <1>1. /\ tx[p].new.worth = [c \in C |-> Worth(ss, gs, c)]
        /\ tx[p].new.score = [t \in S |-> Total(ss, Updated(worth, ss, gs, C), t)]
        /\ C \subseteq Challenges /\ S \subseteq Teams
    BY DEF Publishes, Standings
  <1>2. worth' = [c \in Challenges |-> IF c \in C THEN Worth(ss, gs, c) ELSE worth[c]]
    BY <1>1 DEF Publish
  <1>3. worth' = Updated(worth, ss, gs, C)
    BY <1>2 DEF Updated
  <1>4. \A t \in Teams : score'[t] = IF t \in S THEN Total(ss, worth', t) ELSE score[t]
    BY <1>1, <1>3 DEF Publish
  <1> QED BY <1>1, <1>2, <1>3, <1>4

LEMMA CommitFollowsSolves ==
  ASSUME TypeOK, StandingsFollowSolves,
         NEW p, NEW C, NEW S, Publishes(p, solves', scoring', C, S), Publish(p),
         teams' \subseteq teams,
         \A t \in teams' \ S : Spares(solves', scoring', C, t),
         \A t \in teams' : mileage'[t] = Cardinality(SolvedBy(solves', t))
  PROVE  StandingsFollowSolves'
  <1>1. \A c \in Challenges : worth'[c] = Worth(solves', scoring', c)
    <2> SUFFICES ASSUME NEW c \in Challenges
                 PROVE  worth'[c] = Worth(solves', scoring', c)
      OBVIOUS
    <2>1. CASE c \in C
      BY <2>1, PublishedWorth
    <2>2. CASE c \notin C
      <3>1. worth'[c] = worth[c] /\ worth[c] = Worth(solves, scoring, c)
        BY <2>2, PublishedWorth DEF StandingsFollowSolves
      <3>2. Solvers(solves', c) = Solvers(solves, c) /\ scoring'[c] = scoring[c]
        BY <2>2 DEF Publishes
      <3> QED BY <3>1, <3>2 DEF Worth
    <2> QED BY <2>1, <2>2
  <1>2. \A t \in teams' : score'[t] = Total(solves', worth', t)
    <2> SUFFICES ASSUME NEW t \in teams'
                 PROVE  score'[t] = Total(solves', worth', t)
      OBVIOUS
    <2>0. t \in Teams /\ t \in teams
      BY DEF TypeOK
    <2>1. CASE t \in S
      BY <2>1, PublishedWorth
    <2>2. CASE t \notin S
      <3>1. score'[t] = Total(solves, worth, t)
        BY <2>0, <2>2, PublishedWorth DEF StandingsFollowSolves
      <3>2. /\ SolvedBy(solves', t) = SolvedBy(solves, t)
            /\ \A c \in C \cap SolvedBy(solves', t) : Worth(solves', scoring', c) = worth[c]
        BY <2>2 DEF Spares
      <3>3. \A c \in SolvedBy(solves', t) : worth'[c] = worth[c]
        BY <3>2, PublishedWorth, SolvedAreChallenges
      <3>4. Total(solves', worth', t) = Total(solves, worth, t)
        BY <3>2, <3>3, SameTotal
      <3> QED BY <3>1, <3>4
    <2> QED BY <2>1, <2>2
  <1> QED BY <1>1, <1>2 DEF StandingsFollowSolves

LEMMA CommitIsolates ==
  ASSUME TypeOK,
         NEW p, NEW C, NEW S, Publishes(p, solves', scoring', C, S), Publish(p),
         teams' \subseteq teams, period' = period,
         \A t \in teams \ teams' : Team(t) \in tx[p].held,
         \A t \in teams' \ S : Spares(solves', scoring', C, t)
  PROVE  Isolates(p)
  <1>1. \A c \in Challenges : Challenge(c) \notin tx[p].held =>
          /\ Solvers(solves', c) = Solvers(solves, c)
          /\ scoring'[c] = scoring[c] /\ worth'[c] = worth[c]
    BY PublishedWorth DEF Publishes
  <1>2. ASSUME NEW t \in teams, Team(t) \notin tx[p].held
        PROVE  /\ t \in teams' /\ SolvedBy(solves', t) = SolvedBy(solves, t)
               /\ \A c \in SolvedBy(solves, t) : worth'[c] = worth[c]
    <2>1. t \in teams' /\ t \notin S
      BY <1>2 DEF Publishes
    <2>2. /\ SolvedBy(solves', t) = SolvedBy(solves, t)
          /\ \A c \in C \cap SolvedBy(solves', t) : Worth(solves', scoring', c) = worth[c]
      BY <2>1 DEF Spares
    <2>3. \A c \in SolvedBy(solves, t) : worth'[c] = worth[c]
      BY <2>2, PublishedWorth, SolvedAreChallenges
    <2> QED BY <2>1, <2>2, <2>3
  <1> QED BY <1>1, <1>2 DEF Isolates
-----------------------------------------------------------------------------
(* The commits *)

LEMMA HeldByAll ==
  ASSUME SolvesOfTeams, NEW p \in Processes, tx[p].want = {},
         NEW S \in SUBSET Teams, \A t \in S : Secured(p, Team(t)), S \subseteq teams
  PROVE  \A t \in S : Team(t) \in tx[p].held
  BY DEF Secured, Exists, Team

LEMMA SubmitCommits ==
  ASSUME IInv, NEW p \in Processes, SubmitCommit(p)
  PROVE  StandingsFollowSolves' /\ Isolates(p)
  <1> DEFINE t == tx[p].team
             c == tx[p].challenge
             S == SubmitRewrites(p)
  <1>1. Submits(p) /\ tx[p].step = 3
    BY DEF IInv, Working, Works, SubmitCommit, At
  <1>2. /\ t \in Teams /\ c \in Challenges /\ t \in teams /\ <<t, c>> \notin solves
        /\ tx[p].want = {} /\ tx[p].new = SubmitResult(p)
        /\ LocksTeams(p, {State(t), Challenge(c)}, Affected(t, c))
    BY <1>1 DEF Submits, SubmitRefused, Solve
  <1>3. /\ solves' = solves \cup {<<t, c>>} /\ scoring' = scoring /\ teams' = teams
        /\ period' = period /\ mileage' = [mileage EXCEPT ![t] = @ + 1] /\ Publish(p)
    BY DEF SubmitCommit, Solve
  <1>4. Challenge(c) \in tx[p].held
    BY <1>2, RowsOfKeys DEF LocksTeams
  <1>5. /\ Solvers(solves', c) = Solvers(solves, c) \cup {t}
        /\ Cardinality(Solvers(solves', c)) = Cardinality(Solvers(solves, c)) + 1
        /\ \A d \in Challenges \ {c} : Solvers(solves', d) = Solvers(solves, d)
        /\ \A u \in Teams \ {t} : SolvedBy(solves', u) = SolvedBy(solves, u)
        /\ Cardinality(SolvedBy(solves', t)) = Cardinality(SolvedBy(solves, t)) + 1
    BY <1>2, <1>3, OneMore, SMTT(60)
  <1>6. Solvers(solves, c) \subseteq teams
    BY <1>2 DEF IInv, SolvesOfTeams, Solvers
  <1>7. S = IF Worth(solves', scoring', c) = worth[c] THEN {t} ELSE Solvers(solves', c)
    <2>1. solves \cup {Solve(p)} = solves' /\ scoring = scoring'
      BY <1>3 DEF Solve
    <2> QED BY <2>1 DEF SubmitRewrites
  <1>8. S \subseteq Affected(t, c) /\ Affected(t, c) \subseteq teams
    BY <1>2, <1>3, <1>5, <1>6, <1>7 DEF Affected, Worth
  <1>9. \A u \in S : Team(u) \in tx[p].held
    <2>1. \A u \in Affected(t, c) : Secured(p, Team(u))
      BY <1>2 DEF LocksTeams
    <2>2. Affected(t, c) \in SUBSET Teams
      BY <1>8 DEF IInv, TypeOK
    <2> QED BY <1>2, <1>8, <2>1, <2>2, HeldByAll DEF IInv
  <1>10. Publishes(p, solves', scoring', {c}, S)
    <2>1. tx[p].new = Standings(worth, solves', scoring', {c}, S)
      BY <1>2, <1>3 DEF SubmitResult, Solve
    <2>2. S \subseteq Teams
      BY <1>8 DEF IInv, TypeOK
    <2> HIDE DEF S
    <2> QED BY <1>2, <1>3, <1>4, <1>5, <1>9, <2>1, <2>2 DEF Publishes
  <1>11. ASSUME NEW u \in teams' \ S
         PROVE  Spares(solves', scoring', {c}, u)
    <2>1. u \in Teams /\ t \in S
      BY <1>3, <1>5, <1>7, <1>11 DEF IInv, TypeOK
    <2>2. SolvedBy(solves', u) = SolvedBy(solves, u)
      BY <1>5, <1>11, <2>1
    <2>3. c \in SolvedBy(solves', u) => Worth(solves', scoring', c) = worth[c]
      <3> HIDE DEF S
      <3>1. c \in SolvedBy(solves', u) => u \in Solvers(solves', c)
        BY <1>2, <2>1, Sides
      <3> QED BY <1>7, <1>11, <3>1
    <2> QED BY <2>2, <2>3 DEF Spares
  <1>12. \A u \in teams' : mileage'[u] = Cardinality(SolvedBy(solves', u))
    <2>1. \A u \in teams : u \in Teams /\ mileage[u] = Cardinality(SolvedBy(solves, u))
      BY DEF IInv, TypeOK, StandingsFollowSolves
    <2> QED BY <1>2, <1>3, <1>5, <2>1 DEF IInv, TypeOK
  <1> QED
    <2> HIDE DEF t, c, S
    <2>1. TypeOK /\ StandingsFollowSolves /\ teams' \subseteq teams
      BY <1>3 DEF IInv
    <2>2. StandingsFollowSolves'
      BY <1>3, <1>10, <1>11, <1>12, <2>1, CommitFollowsSolves
    <2>3. Isolates(p)
      BY <1>3, <1>10, <1>11, <2>1, CommitIsolates
    <2> QED BY <2>2, <2>3

LEMMA RevokeCommits ==
  ASSUME IInv, NEW p \in Processes, RevokeCommit(p)
  PROVE  StandingsFollowSolves' /\ Isolates(p)
  <1> DEFINE t == tx[p].team
             c == tx[p].challenge
             S == Solvers(solves, c)
  <1>1. Revokes(p) /\ tx[p].step = 3
    BY DEF IInv, Working, Works, RevokeCommit, At
  <1>2. /\ t \in Teams /\ c \in Challenges /\ <<t, c>> \in solves
        /\ tx[p].want = {} /\ tx[p].new = RevokeResult(p)
        /\ LocksTeams(p, {State(t), Challenge(c)}, S)
    BY <1>1 DEF Revokes, Solve
  <1>3. /\ solves' = solves \ {<<t, c>>} /\ scoring' = scoring /\ teams' = teams
        /\ period' = period /\ mileage' = [mileage EXCEPT ![t] = @ - 1] /\ Publish(p)
    BY DEF RevokeCommit, Solve
  <1>4. Challenge(c) \in tx[p].held
    BY <1>2, RowsOfKeys DEF LocksTeams
  <1>5. /\ \A d \in Challenges \ {c} : Solvers(solves', d) = Solvers(solves, d)
        /\ \A u \in Teams \ {t} : SolvedBy(solves', u) = SolvedBy(solves, u)
        /\ Cardinality(SolvedBy(solves', t)) = Cardinality(SolvedBy(solves, t)) - 1
    BY <1>2, <1>3, OneLess, ZenonT(60)
  <1>6. S \subseteq teams /\ S \subseteq Teams /\ t \in S
    BY <1>2 DEF IInv, SolvesOfTeams, Solvers
  <1>7. \A u \in S : Team(u) \in tx[p].held
    BY <1>2, <1>6, HeldByAll DEF LocksTeams, IInv
  <1>8. Publishes(p, solves', scoring', {c}, S)
    <2>1. tx[p].new = Standings(worth, solves', scoring', {c}, S)
      BY <1>2, <1>3 DEF RevokeResult, Solve
    <2> HIDE DEF S
    <2> QED BY <1>2, <1>3, <1>4, <1>5, <1>6, <1>7, <2>1 DEF Publishes
  <1>9. ASSUME NEW u \in teams' \ S
        PROVE  Spares(solves', scoring', {c}, u)
    <2>1. u \in Teams /\ u # t
      BY <1>3, <1>6, <1>9 DEF IInv, TypeOK
    <2>2. SolvedBy(solves', u) = SolvedBy(solves, u)
      BY <1>5, <2>1
    <2>3. c \notin SolvedBy(solves', u)
      BY <1>2, <1>9, <2>1, <2>2, Sides
    <2> QED BY <2>2, <2>3 DEF Spares
  <1>10. \A u \in teams' : mileage'[u] = Cardinality(SolvedBy(solves', u))
    <2>1. \A u \in teams : u \in Teams /\ mileage[u] = Cardinality(SolvedBy(solves, u))
      BY DEF IInv, TypeOK, StandingsFollowSolves
    <2> QED BY <1>2, <1>3, <1>5, <2>1 DEF IInv, TypeOK
  <1> QED
    <2> HIDE DEF t, c, S
    <2>1. TypeOK /\ StandingsFollowSolves /\ teams' \subseteq teams
      BY <1>3 DEF IInv
    <2>2. StandingsFollowSolves'
      BY <1>3, <1>8, <1>9, <1>10, <2>1, CommitFollowsSolves
    <2>3. Isolates(p)
      BY <1>3, <1>8, <1>9, <2>1, CommitIsolates
    <2> QED BY <2>2, <2>3

LEMMA RescoreCommits ==
  ASSUME IInv, NEW p \in Processes, RescoreCommit(p)
  PROVE  StandingsFollowSolves' /\ Isolates(p)
  <1> DEFINE c == tx[p].challenge
             S == Solvers(solves, c)
  <1>1. Rescores(p) /\ tx[p].step = 3
    BY DEF IInv, Working, Works, RescoreCommit, At
  <1>2. /\ c \in Challenges /\ tx[p].want = {} /\ tx[p].new = RescoreResult(p, tx[p].scoring)
        /\ LocksTeams(p, {Challenge(c)}, S)
    BY <1>1 DEF Rescores
  <1>3. /\ solves' = solves /\ scoring' = [scoring EXCEPT ![c] = tx[p].scoring]
        /\ teams' = teams /\ period' = period /\ mileage' = mileage /\ Publish(p)
    BY DEF RescoreCommit
  <1>4. Challenge(c) \in tx[p].held
    BY <1>2, RowsOfKeys DEF LocksTeams, Challenge, Exists
  <1>5. S \subseteq teams /\ S \subseteq Teams
    BY <1>2 DEF IInv, SolvesOfTeams, Solvers
  <1>6. \A u \in S : Team(u) \in tx[p].held
    BY <1>2, <1>5, HeldByAll DEF LocksTeams, IInv
  <1>7. Publishes(p, solves', scoring', {c}, S)
    <2>1. tx[p].new = Standings(worth, solves', scoring', {c}, S)
      BY <1>2, <1>3 DEF RescoreResult
    <2>2. \A d \in Challenges \ {c} : scoring'[d] = scoring[d]
      BY <1>3 DEF IInv, TypeOK
    <2> HIDE DEF S
    <2> QED BY <1>2, <1>3, <1>4, <1>5, <1>6, <2>1, <2>2 DEF Publishes
  <1>8. ASSUME NEW u \in teams' \ S
        PROVE  Spares(solves', scoring', {c}, u)
    <2>1. u \in Teams
      BY <1>3, <1>8 DEF IInv, TypeOK
    <2>2. SolvedBy(solves', u) = SolvedBy(solves, u) /\ c \notin SolvedBy(solves', u)
      BY <1>2, <1>3, <1>8, <2>1, Sides
    <2> QED BY <2>2 DEF Spares
  <1>9. \A u \in teams' : mileage'[u] = Cardinality(SolvedBy(solves', u))
    BY <1>3 DEF IInv, StandingsFollowSolves
  <1> QED
    <2> HIDE DEF c, S
    <2>1. TypeOK /\ StandingsFollowSolves /\ teams' \subseteq teams
      BY <1>3 DEF IInv
    <2>2. StandingsFollowSolves'
      BY <1>3, <1>7, <1>8, <1>9, <2>1, CommitFollowsSolves
    <2>3. Isolates(p)
      BY <1>3, <1>7, <1>8, <2>1, CommitIsolates
    <2> QED BY <2>2, <2>3

LEMMA DeleteCommits ==
  ASSUME IInv, NEW p \in Processes, DeleteCommit(p)
  PROVE  StandingsFollowSolves' /\ Isolates(p)
  <1> DEFINE t == tx[p].team
             C == tx[p].read
             S == DeleteAffected(p)
  <1>1. DeletesTeam(p) /\ tx[p].step = 4
    BY DEF IInv, Working, Works, DeleteCommit, At
  <1>2. /\ t \in Teams /\ C \subseteq Challenges /\ tx[p].want = {} /\ tx[p].new = DeleteResult(p)
        /\ \A c \in C : Secured(p, Challenge(c))
        /\ \A u \in S : Secured(p, Team(u))
        /\ Team(t) \in tx[p].held /\ SolvedBy(solves, t) \subseteq C
    BY <1>1 DEF DeletesTeam, NoNewSolve, IInv, TypeOK, IsTransaction
  <1>3. /\ solves' = DeleteRemaining(p) /\ scoring' = scoring /\ teams' = teams \ {t}
        /\ period' = period /\ mileage' = mileage /\ Publish(p)
    BY DEF DeleteCommit
  <1>4. \A c \in C : Challenge(c) \in tx[p].held
    BY <1>2 DEF Secured, Challenge, Exists
  <1>5. \A u \in Teams, c \in Challenges : <<u, c>> \in solves' <=> <<u, c>> \in solves /\ u # t
    BY <1>3 DEF DeleteRemaining
  <1>6. /\ \A c \in Challenges \ C : Solvers(solves', c) = Solvers(solves, c)
        /\ \A u \in Teams \ {t} : SolvedBy(solves', u) = SolvedBy(solves, u)
    BY <1>2, <1>5 DEF Solvers, SolvedBy
  <1>7. S = UNION {Solvers(solves', c) : c \in C}
    BY <1>3 DEF DeleteAffected
  <1>8. S \subseteq Teams /\ S \subseteq teams
    BY <1>2, <1>5, <1>7 DEF IInv, SolvesOfTeams, Solvers
  <1>9. \A u \in S : Team(u) \in tx[p].held
    BY <1>2, <1>8, HeldByAll DEF IInv
  <1>10. Publishes(p, solves', scoring', C, S)
    <2>1. tx[p].new = Standings(worth, solves', scoring', C, S)
      BY <1>2, <1>3 DEF DeleteResult
    <2> HIDE DEF S, C
    <2> QED BY <1>2, <1>3, <1>4, <1>6, <1>8, <1>9, <2>1 DEF Publishes
  <1>11. ASSUME NEW u \in teams' \ S
         PROVE  Spares(solves', scoring', C, u)
    <2>1. u \in Teams /\ u # t
      BY <1>3, <1>11 DEF IInv, TypeOK
    <2>2. SolvedBy(solves', u) = SolvedBy(solves, u)
      BY <1>6, <2>1
    <2>3. C \cap SolvedBy(solves', u) = {}
      <3> HIDE DEF S
      <3>1. \A c \in C : c \in SolvedBy(solves', u) => u \in Solvers(solves', c)
        BY <1>2, <2>1, Sides
      <3>2. u \notin S
        BY <1>11
      <3> QED BY <1>7, <3>1, <3>2
    <2> QED BY <2>2, <2>3 DEF Spares
  <1>12. \A u \in teams' : mileage'[u] = Cardinality(SolvedBy(solves', u))
    <2>1. \A u \in teams : u \in Teams /\ mileage[u] = Cardinality(SolvedBy(solves, u))
      BY DEF IInv, TypeOK, StandingsFollowSolves
    <2> QED BY <1>3, <1>6, <2>1
  <1> QED
    <2> HIDE DEF C, S
    <2>1. TypeOK /\ StandingsFollowSolves /\ teams' \subseteq teams
      BY <1>3 DEF IInv
    <2>2. StandingsFollowSolves'
      BY <1>3, <1>10, <1>11, <1>12, <2>1, CommitFollowsSolves
    <2>3. \A u \in teams \ teams' : Team(u) \in tx[p].held
      BY <1>2, <1>3
    <2>4. Isolates(p)
      BY <1>3, <1>10, <1>11, <2>1, <2>3, CommitIsolates
    <2> QED BY <2>2, <2>4
-----------------------------------------------------------------------------
(* A step of p leaves the transaction of another process valid *)

LEMMA Protected ==
  ASSUME IInv, NEW p \in Processes, NEW q \in Processes \ {p}, Others(p), Isolates(p)
  PROVE  /\ tx'[q] = tx[q]
         /\ \A r : ~Exists(r) => ~Exists(r)'
         /\ \A c \in Challenges : Challenge(c) \in tx[q].held =>
              /\ Solvers(solves', c) = Solvers(solves, c)
              /\ scoring'[c] = scoring[c] /\ worth'[c] = worth[c]
         /\ \A t \in Teams : Team(t) \in tx[q].held =>
              /\ t \in teams' /\ SolvedBy(solves', t) = SolvedBy(solves, t)
              /\ \A c \in SolvedBy(solves, t) : worth'[c] = worth[c]
         /\ Period \in tx[q].held => (period = "APPLIED" <=> period' = "APPLIED")
  <1>1. tx'[q] = tx[q]
    BY DEF Others
  <1>2. \A r : ~Exists(r) => ~Exists(r)'
    BY DEF Isolates, Exists
  <1>3. \A r \in tx[q].held : r \notin tx[p].held /\ Exists(r)
    BY DEF IInv, Exclusive
  <1>4. \A t \in Teams : Team(t) \in tx[q].held => t \in teams
    BY <1>3 DEF Exists, Team
  <1> QED BY <1>1, <1>2, <1>3, <1>4 DEF Isolates

LEMMA StaySecured ==
  ASSUME IInv, NEW p \in Processes, NEW q \in Processes \ {p}, Others(p), Isolates(p)
  PROVE  /\ \A r : Secured(q, r) => Secured(q, r)'
         /\ \A r : r \in tx[q].held \/ ~Exists(r) => r \in tx'[q].held \/ ~Exists(r)'
         /\ \A rows : LocksFirst(q, rows) => LocksFirst(q, rows)'
         /\ \A rows, S : LocksTeams(q, rows, S) => LocksTeams(q, rows, S)'
  <1>1. tx'[q] = tx[q] /\ \A r : ~Exists(r) => ~Exists(r)'
    BY Protected
  <1>2. \A r : Secured(q, r) => Secured(q, r)'
    BY <1>1 DEF Secured
  <1>3. \A rows : LocksFirst(q, rows) => LocksFirst(q, rows)'
    BY <1>1, <1>2 DEF LocksFirst
  <1>4. \A rows, S : LocksTeams(q, rows, S) => LocksTeams(q, rows, S)'
    BY <1>1, <1>2 DEF LocksTeams
  <1> QED BY <1>1, <1>2, <1>3, <1>4

\* The solves a transaction would leave.
With(ss, t, c)    == ss \cup {<<t, c>>}
Without(ss, t, c) == ss \ {<<t, c>>}
Own(u, t, c)      == {d \in {c} : u = t}
Remaining(ss, t)  == ss \ ({t} \X Challenges)

LEMMA SolversLeft ==
  ASSUME NEW ss, NEW t \in Teams, NEW c \in Challenges
  PROVE  /\ Solvers(With(ss, t, c), c) = Solvers(ss, c) \cup {t}
         /\ Solvers(Without(ss, t, c), c) = Solvers(ss, c) \ {t}
  BY DEF Solvers, With, Without

LEMMA SolvedLeft ==
  ASSUME NEW ss, NEW u
  PROVE  \A t \in Teams, c \in Challenges :
           /\ SolvedBy(With(ss, t, c), u) = SolvedBy(ss, u) \cup Own(u, t, c)
           /\ SolvedBy(Without(ss, t, c), u) = SolvedBy(ss, u) \ Own(u, t, c)
  BY DEF SolvedBy, With, Without, Own

LEMMA WithoutTeam ==
  ASSUME NEW ss, NEW t \in Teams
  PROVE  /\ \A d \in Challenges : Solvers(Remaining(ss, t), d) = Solvers(ss, d) \ {t}
         /\ \A u \in Teams : SolvedBy(Remaining(ss, t), u) = {d \in SolvedBy(ss, u) : u # t}
  BY DEF Solvers, SolvedBy, Remaining

LEMMA StaySubmitting ==
  ASSUME IInv, NEW p \in Processes, NEW q \in Processes \ {p}, Others(p), Isolates(p),
         Submits(q)
  PROVE  Submits(q)'
  <1> DEFINE t == tx[q].team
             c == tx[q].challenge
             S == SubmitRewrites(q)
             s1 == With(solves, t, c)
             s2 == With(solves', t, c)
  <1>1. tx'[q] = tx[q]
    BY Protected
  <1>2. t \in Teams /\ c \in Challenges /\ tx[q].step \in 1..3
    BY DEF Submits
  <1>3. ASSUME tx[q].step = 1
        PROVE  LocksFirst(q, {State(t), Challenge(c)})'
    <2>1. LocksFirst(q, {State(t), Challenge(c)})
      BY <1>3 DEF Submits
    <2> QED BY <2>1, <1>1, StaySecured DEF LocksFirst
  <1>4. ASSUME tx[q].step > 1
        PROVE  /\ LocksTeams(q, {State(t), Challenge(c)}, Affected(t, c))
               /\ Challenge(c) \in tx[q].held
               /\ Solvers(solves', c) = Solvers(solves, c)
               /\ scoring'[c] = scoring[c] /\ worth'[c] = worth[c]
               /\ Affected(t, c)' = Affected(t, c)
    <2>1. LocksTeams(q, {State(t), Challenge(c)}, Affected(t, c))
      BY <1>4 DEF Submits
    <2>2. Challenge(c) \in tx[q].held
      BY <2>1, <1>2, RowsOfKeys DEF LocksTeams
    <2>3. /\ Solvers(solves', c) = Solvers(solves, c)
          /\ scoring'[c] = scoring[c] /\ worth'[c] = worth[c]
      BY <1>2, <2>2, Protected
    <2>4. Affected(t, c)' = Affected(t, c)
      BY <1>1, <2>3 DEF Affected
    <2> QED BY <2>1, <2>2, <2>3, <2>4
  <1>5. ASSUME tx[q].step > 1
        PROVE  /\ LocksTeams(q, {State(t), Challenge(c)}, Affected(t, c))'
               /\ (tx[q].want \subseteq TeamRows({t} \cup Solvers(solves, c)))'
    <2>1. LocksTeams(q, {State(t), Challenge(c)}, Affected(t, c))
      BY <1>4, <1>5
    <2>2. tx[q].want \subseteq TeamRows({t} \cup Solvers(solves, c))
      BY <1>5 DEF Submits
    <2>3. LocksTeams(q, {State(t), Challenge(c)}, Affected(t, c))'
      BY <2>1, <1>1, <1>4, <1>5, StaySecured DEF LocksTeams
    <2> QED BY <2>2, <2>3, <1>1, <1>4, <1>5
  <1>6. ASSUME tx[q].step = 3
        PROVE  (tx[q].want = {} /\ ~SubmitRefused(q) /\ tx[q].new = SubmitResult(q))'
    <2>0. /\ Solvers(solves', c) = Solvers(solves, c)
          /\ scoring'[c] = scoring[c] /\ worth'[c] = worth[c]
      BY <1>4, <1>6
    <2>1. /\ tx[q].want = {} /\ t \in teams /\ <<t, c>> \notin solves
          /\ tx[q].new = SubmitResult(q) /\ \A u \in Affected(t, c) : Secured(q, Team(u))
      BY <1>4, <1>6 DEF Submits, SubmitRefused, Solve, LocksTeams
    <2>2. Affected(t, c) \subseteq teams /\ Affected(t, c) \subseteq Teams /\ t \in Affected(t, c)
      BY <2>1, <1>2 DEF IInv, SolvesOfTeams, Affected, Solvers
    <2>3. \A u \in Affected(t, c) : Team(u) \in tx[q].held
      BY <2>1, <2>2, HeldByAll DEF IInv
    <2>4. <<t, c>> \notin solves' /\ t \in teams'
      BY <1>2, <2>0, <2>1, <2>2, <2>3, Sides, Protected
    <2>5. Solvers(s1, c) = Solvers(solves, c) \cup {t} /\ Solvers(s2, c) = Solvers(solves, c) \cup {t}
      <3>0. t \in Teams /\ c \in Challenges
        BY <1>2
      <3>1. \A ss : Solvers(With(ss, t, c), c) = Solvers(ss, c) \cup {t}
        <4> HIDE DEF t, c
        <4> QED BY <3>0, SolversLeft
      <3> HIDE DEF t, c
      <3>2. /\ Solvers(s1, c) = Solvers(solves, c) \cup {t}
            /\ Solvers(s2, c) = Solvers(solves', c) \cup {t}
        BY <3>1
      <3> HIDE DEF s1, s2
      <3> QED BY <2>0, <3>2
    <2>6. Cardinality(Solvers(s1, c)) = Cardinality(Solvers(solves, c)) + 1
      <3>1. t \notin Solvers(solves, c)
        BY <1>2, <2>1, Sides
      <3>2. IsFiniteSet(Solvers(solves, c))
        BY SolversAreTeams
      <3> HIDE DEF s1, t, c
      <3> QED BY <2>5, <3>1, <3>2, FS_AddElement
    <2>7. Worth(s2, scoring', c) = Worth(s1, scoring, c)
      <3> HIDE DEF t, c, s1, s2
      <3> QED BY <2>0, <2>5 DEF Worth
    <2>8. S' = S /\ S \subseteq Affected(t, c)
      <3>1. S = IF Worth(s1, scoring, c) = worth[c] THEN {t} ELSE Solvers(s1, c)
        BY DEF SubmitRewrites, Solve, With
      <3>2. S' = IF Worth(s2, scoring', c) = worth'[c] THEN {t} ELSE Solvers(s2, c)
        BY <1>1 DEF SubmitRewrites, Solve, With
      <3>3. Affected(t, c) = {t} \cup IF Worth(s1, scoring, c) # worth[c]
                                      THEN Solvers(solves, c) ELSE {}
        BY <2>6 DEF Affected, Worth
      <3> HIDE DEF S, s1, s2, t, c
      <3> QED BY <3>1, <3>2, <3>3, <2>0, <2>5, <2>7
    <2>9. SubmitResult(q)' = SubmitResult(q)
      <3>1. \A d \in {c} : Solvers(s1, d) = Solvers(s2, d) /\ scoring[d] = scoring'[d]
        <4> HIDE DEF s1, s2, c
        <4> QED BY <2>5, <2>0
      <3>2. ASSUME NEW u \in S
            PROVE  /\ SolvedBy(s1, u) = SolvedBy(s2, u)
                   /\ \A d \in SolvedBy(s1, u) \ {c} : worth[d] = worth'[d]
        <4>1. u \in Teams /\ Team(u) \in tx[q].held
          BY <2>2, <2>3, <2>8, <3>2
        <4>2. /\ SolvedBy(solves', u) = SolvedBy(solves, u)
              /\ \A d \in SolvedBy(solves, u) : worth'[d] = worth[d]
          BY <4>1, Protected
        <4>0. t \in Teams /\ c \in Challenges
          BY <1>2
        <4> HIDE DEF t, c
        <4>3. \A ss : SolvedBy(With(ss, t, c), u) = SolvedBy(ss, u) \cup Own(u, t, c)
          BY <4>0, SolvedLeft
        <4>4. /\ SolvedBy(s1, u) = SolvedBy(solves, u) \cup Own(u, t, c)
              /\ SolvedBy(s2, u) = SolvedBy(solves', u) \cup Own(u, t, c)
          BY <4>3
        <4> HIDE DEF s1, s2
        <4> QED BY <4>2, <4>4 DEF Own
      <3>3. {c} \in SUBSET Challenges /\ S \in SUBSET Teams
        BY <1>2, <2>2, <2>8
      <3>4. Standings(worth, s1, scoring, {c}, S) = Standings(worth', s2, scoring', {c}, S)
        <4> DEFINE C == {c}
        <4>1. /\ \A d \in C : Solvers(s1, d) = Solvers(s2, d) /\ scoring[d] = scoring'[d]
              /\ \A u \in S : /\ SolvedBy(s1, u) = SolvedBy(s2, u)
                             /\ \A d \in SolvedBy(s1, u) \ C : worth[d] = worth'[d]
              /\ C \in SUBSET Challenges /\ S \in SUBSET Teams
          BY <3>1, <3>2, <3>3
        <4> HIDE DEF S, C, s1, s2
        <4>2. Standings(worth, s1, scoring, C, S) = Standings(worth', s2, scoring', C, S)
          BY <4>1, SameStandings
        <4> QED BY <4>2 DEF C
      <3>5. SubmitResult(q) = Standings(worth, s1, scoring, {c}, S)
        BY DEF SubmitResult, Solve, With
      <3>6. SubmitResult(q)' = Standings(worth', s2, scoring', {c}, S')
        BY <1>1 DEF SubmitResult, Solve, With
      <3> QED BY <3>4, <3>5, <3>6, <2>8
    <2>10. ~SubmitRefused(q)'
      BY <1>1, <2>4 DEF SubmitRefused, Solve
    <2> QED BY <1>1, <2>1, <2>9, <2>10
  <1> QED BY <1>1, <1>2, <1>3, <1>5, <1>6 DEF Submits
LEMMA SameResult ==
  ASSUME IInv, NEW p \in Processes, NEW q \in Processes \ {p}, Others(p), Isolates(p),
         NEW C \in SUBSET Challenges, NEW S \in SUBSET Teams, NEW s1, NEW s2, NEW g1, NEW g2,
         \A c \in C : Solvers(s1, c) = Solvers(s2, c) /\ g1[c] = g2[c],
         \A u \in S : /\ Team(u) \in tx[q].held /\ SolvedBy(s1, u) = SolvedBy(s2, u)
                      /\ SolvedBy(s1, u) \ C \subseteq SolvedBy(solves, u)
  PROVE  Standings(worth, s1, g1, C, S) = Standings(worth', s2, g2, C, S)
  <1>1. \A u \in S : \A d \in SolvedBy(s1, u) \ C : worth[d] = worth'[d]
    BY Protected
  <1> QED BY <1>1, SameStandings

LEMMA StayRevoking ==
  ASSUME IInv, NEW p \in Processes, NEW q \in Processes \ {p}, Others(p), Isolates(p),
         Revokes(q)
  PROVE  Revokes(q)'
  <1> DEFINE t == tx[q].team
             c == tx[q].challenge
             S == Solvers(solves, c)
             s1 == Without(solves, t, c)
             s2 == Without(solves', t, c)
  <1>1. tx'[q] = tx[q]
    BY Protected
  <1>2. t \in Teams /\ c \in Challenges /\ tx[q].step \in 1..3
    BY DEF Revokes
  <1>3. ASSUME tx[q].step = 1
        PROVE  LocksFirst(q, {State(t), Challenge(c)})'
    <2>1. LocksFirst(q, {State(t), Challenge(c)})
      BY <1>3 DEF Revokes
    <2> QED BY <2>1, <1>1, StaySecured DEF LocksFirst
  <1>4. ASSUME tx[q].step > 1
        PROVE  /\ LocksTeams(q, {State(t), Challenge(c)}, S)
               /\ Solvers(solves', c) = S /\ scoring'[c] = scoring[c]
    <2>1. LocksTeams(q, {State(t), Challenge(c)}, S)
      BY <1>4 DEF Revokes
    <2>2. Challenge(c) \in tx[q].held
      BY <2>1, <1>2, RowsOfKeys DEF LocksTeams
    <2> QED BY <1>2, <2>1, <2>2, Protected
  <1>5. ASSUME tx[q].step > 1
        PROVE  /\ LocksTeams(q, {State(t), Challenge(c)}, S)'
               /\ (tx[q].want \subseteq TeamRows(S))' /\ (Solve(q) \in solves)'
    <2>1. tx[q].want \subseteq TeamRows(S) /\ <<t, c>> \in solves
      BY <1>5 DEF Revokes, Solve
    <2>2. LocksTeams(q, {State(t), Challenge(c)}, S)'
      BY <1>1, <1>4, <1>5, StaySecured DEF LocksTeams
    <2>3. <<t, c>> \in solves'
      BY <1>2, <1>4, <1>5, <2>1, Sides
    <2> QED BY <2>1, <2>2, <2>3, <1>1, <1>4, <1>5 DEF Solve
  <1>6. ASSUME tx[q].step = 3
        PROVE  (tx[q].want = {} /\ tx[q].new = RevokeResult(q))'
    <2>0. Solvers(solves', c) = S /\ scoring'[c] = scoring[c]
      BY <1>4, <1>6
    <2>1. /\ tx[q].want = {} /\ tx[q].new = RevokeResult(q) /\ \A u \in S : Secured(q, Team(u))
      BY <1>4, <1>6 DEF Revokes, LocksTeams
    <2>2. S \subseteq teams /\ S \in SUBSET Teams
      BY <1>2 DEF IInv, SolvesOfTeams, Solvers
    <2>3. \A u \in S : Team(u) \in tx[q].held
      BY <2>1, <2>2, HeldByAll DEF IInv
    <2>4. Solvers(s1, c) = S \ {t} /\ Solvers(s2, c) = S \ {t}
      <3>0. t \in Teams /\ c \in Challenges
        BY <1>2
      <3>1. \A ss : Solvers(Without(ss, t, c), c) = Solvers(ss, c) \ {t}
        <4> HIDE DEF t, c
        <4> QED BY <3>0, SolversLeft
      <3> HIDE DEF t, c
      <3>2. Solvers(s1, c) = Solvers(solves, c) \ {t} /\ Solvers(s2, c) = Solvers(solves', c) \ {t}
        BY <3>1
      <3> HIDE DEF s1, s2
      <3> QED BY <2>0, <3>2
    <2>5. ASSUME NEW u \in S
          PROVE  SolvedBy(s1, u) = SolvedBy(s2, u) /\ SolvedBy(s1, u) \subseteq SolvedBy(solves, u)
      <3>1. SolvedBy(solves', u) = SolvedBy(solves, u)
        BY <2>2, <2>3, Protected
      <3>2. t \in Teams /\ c \in Challenges
        BY <1>2
      <3> HIDE DEF t, c
      <3>3. \A ss : SolvedBy(Without(ss, t, c), u) = SolvedBy(ss, u) \ Own(u, t, c)
        BY <3>2, SolvedLeft
      <3>4. /\ SolvedBy(s1, u) = SolvedBy(solves, u) \ Own(u, t, c)
            /\ SolvedBy(s2, u) = SolvedBy(solves', u) \ Own(u, t, c)
        BY <3>3
      <3> HIDE DEF s1, s2
      <3> QED BY <3>1, <3>4
    <2>6. Standings(worth, s1, scoring, {c}, S) = Standings(worth', s2, scoring', {c}, S)
      <3> DEFINE C == {c}
      <3>1. C \in SUBSET Challenges /\ \A d \in C : scoring[d] = scoring'[d]
        BY <1>2, <2>0
      <3>2. \A d \in C : Solvers(s1, d) = Solvers(s2, d)
        <4> HIDE DEF s1, s2, c
        <4> QED BY <2>4
      <3> HIDE DEF C, S, s1, s2
      <3>3. Standings(worth, s1, scoring, C, S) = Standings(worth', s2, scoring', C, S)
        BY <2>2, <2>3, <2>5, <3>1, <3>2, SameResult
      <3> QED BY <3>3 DEF C
    <2>7. RevokeResult(q) = Standings(worth, s1, scoring, {c}, S)
      BY DEF RevokeResult, Solve, Without
    <2>8. RevokeResult(q)' = Standings(worth', s2, scoring', {c}, S')
      BY <1>1 DEF RevokeResult, Solve, Without
    <2>9. S' = S
      BY <1>1, <2>0
    <2> HIDE DEF S
    <2> QED BY <1>1, <2>1, <2>6, <2>7, <2>8, <2>9
  <1> QED BY <1>1, <1>2, <1>3, <1>5, <1>6 DEF Revokes

LEMMA StayRescoring ==
  ASSUME IInv, NEW p \in Processes, NEW q \in Processes \ {p}, Others(p), Isolates(p),
         scoring' \in [Challenges -> Scorings], Rescores(q)
  PROVE  Rescores(q)'
  <1> DEFINE c == tx[q].challenge
             S == Solvers(solves, c)
             g == tx[q].scoring
             g1 == [scoring EXCEPT ![c] = g]
             g2 == [scoring' EXCEPT ![c] = g]
  <1>1. tx'[q] = tx[q]
    BY Protected
  <1>2. c \in Challenges /\ tx[q].step \in 1..3
    BY DEF Rescores
  <1>3. ASSUME tx[q].step = 1
        PROVE  LocksFirst(q, {Challenge(c)})'
    <2>1. LocksFirst(q, {Challenge(c)})
      BY <1>3 DEF Rescores
    <2> QED BY <2>1, <1>1, StaySecured DEF LocksFirst
  <1>4. ASSUME tx[q].step > 1
        PROVE  LocksTeams(q, {Challenge(c)}, S) /\ Solvers(solves', c) = S
    <2>1. LocksTeams(q, {Challenge(c)}, S)
      BY <1>4 DEF Rescores
    <2>2. Challenge(c) \in tx[q].held
      BY <2>1 DEF LocksTeams, Challenge, Exists
    <2> QED BY <1>2, <2>1, <2>2, Protected
  <1>5. ASSUME tx[q].step > 1
        PROVE  LocksTeams(q, {Challenge(c)}, S)' /\ (tx[q].want \subseteq TeamRows(S))'
    <2>1. tx[q].want \subseteq TeamRows(S)
      BY <1>5 DEF Rescores
    <2>2. LocksTeams(q, {Challenge(c)}, S)'
      BY <1>1, <1>4, <1>5, StaySecured DEF LocksTeams
    <2> QED BY <2>1, <2>2, <1>1, <1>4, <1>5
  <1>6. ASSUME tx[q].step = 3
        PROVE  (tx[q].want = {} /\ tx[q].scoring \in Scorings /\ tx[q].new = RescoreResult(q, g))'
    <2>0. Solvers(solves', c) = S
      BY <1>4, <1>6
    <2>1. /\ tx[q].want = {} /\ g \in Scorings /\ tx[q].new = RescoreResult(q, g)
          /\ \A u \in S : Secured(q, Team(u))
      BY <1>4, <1>6 DEF Rescores, LocksTeams
    <2>2. S \subseteq teams /\ S \in SUBSET Teams
      BY <1>2 DEF IInv, SolvesOfTeams, Solvers
    <2>3. \A u \in S : Team(u) \in tx[q].held
      BY <2>1, <2>2, HeldByAll DEF IInv
    <2>4. \A u \in S : SolvedBy(solves', u) = SolvedBy(solves, u)
      BY <2>2, <2>3, Protected
    <2>5. g1[c] = g /\ g2[c] = g
      BY <1>2 DEF IInv, TypeOK
    <2>6. Standings(worth, solves, g1, {c}, S) = Standings(worth', solves', g2, {c}, S)
      <3> DEFINE C == {c}
      <3>1. C \in SUBSET Challenges /\ \A d \in C : g1[d] = g2[d]
        BY <1>2, <2>5
      <3>2. \A d \in C : Solvers(solves, d) = Solvers(solves', d)
        BY <2>0
      <3> HIDE DEF C, S, g1, g2
      <3>3. Standings(worth, solves, g1, C, S) = Standings(worth', solves', g2, C, S)
        BY <2>2, <2>3, <2>4, <3>1, <3>2, SameResult
      <3> QED BY <3>3 DEF C
    <2>7. RescoreResult(q, g) = Standings(worth, solves, g1, {c}, S)
      BY DEF RescoreResult
    <2>8. RescoreResult(q, g)' = Standings(worth', solves', g2, {c}, S')
      BY <1>1 DEF RescoreResult
    <2>9. S' = S
      BY <1>1, <2>0
    <2> HIDE DEF S
    <2> QED BY <1>1, <2>1, <2>6, <2>7, <2>8, <2>9
  <1> QED BY <1>1, <1>2, <1>3, <1>5, <1>6 DEF Rescores

LEMMA StayDeleting ==
  ASSUME IInv, NEW p \in Processes, NEW q \in Processes \ {p}, Others(p), Isolates(p),
         DeletesTeam(q)
  PROVE  DeletesTeam(q)'
  <1> DEFINE t == tx[q].team
             C == tx[q].read
             S == DeleteAffected(q)
             s1 == Remaining(solves, t)
             s2 == Remaining(solves', t)
  <1>1. tx'[q] = tx[q]
    BY Protected
  <1>2. /\ t \in Teams /\ tx[q].step \in 1..4 /\ C \in SUBSET Challenges
        /\ \A c \in C : Secured(q, Challenge(c))
        /\ Secured(q, Team(t))
    BY DEF DeletesTeam, IInv, TypeOK, IsTransaction
  <1>3. (\A c \in C : Secured(q, Challenge(c)))' /\ Secured(q, Team(t))'
    BY <1>1, <1>2, StaySecured DEF Secured
  <1>4. ASSUME tx[q].step > 1
        PROVE  /\ \A c \in C : Solvers(solves', c) = Solvers(solves, c)
               /\ \A c \in C : scoring'[c] = scoring[c]
               /\ \A c \in C : Challenge(c) \in tx[q].held
               /\ SolvedBy(solves', t) = SolvedBy(solves, t)
    <2>1. /\ tx[q].want \cap ChallengeRows(Challenges) = {} /\ Team(t) \in tx[q].held
      BY <1>4 DEF DeletesTeam
    <2>2. \A c \in C : Challenge(c) \in tx[q].held
      <3>1. \A c \in Challenges : Challenge(c) \in ChallengeRows(Challenges)
        BY DEF Challenge, ChallengeRows
      <3>2. \A c : Exists(Challenge(c))
        BY DEF Challenge, Exists
      <3> HIDE DEF C
      <3> QED BY <1>2, <2>1, <3>1, <3>2 DEF Secured
    <2> QED BY <1>2, <2>1, <2>2, Protected
  <1>5. ASSUME tx[q].step > 1
        PROVE  (/\ tx[q].want \cap (ChallengeRows(Challenges) \cup {Team(t)}) = {}
                /\ Team(t) \in tx[q].held /\ NoNewSolve(q) /\ Secured(q, State(t)))'
    <2>1. /\ tx[q].want \cap (ChallengeRows(Challenges) \cup {Team(t)}) = {}
          /\ Team(t) \in tx[q].held /\ NoNewSolve(q) /\ Secured(q, State(t))
      BY <1>5 DEF DeletesTeam
    <2>2. NoNewSolve(q)'
      BY <1>1, <1>4, <1>5, <2>1 DEF NoNewSolve
    <2>3. Secured(q, State(t))'
      BY <1>1, <2>1, StaySecured DEF Secured
    <2> QED BY <1>1, <2>1, <2>2, <2>3
  <1>6. ASSUME tx[q].step > 1
        PROVE  /\ \A c \in C : Solvers(s1, c) = Solvers(s2, c)
               /\ S' = S /\ S = UNION {Solvers(s1, c) : c \in C}
    <2>1. \A c \in C : /\ Solvers(s1, c) = Solvers(solves, c) \ {t}
                       /\ Solvers(s2, c) = Solvers(solves', c) \ {t}
      <3>1. \A ss, d : d \in Challenges => Solvers(Remaining(ss, t), d) = Solvers(ss, d) \ {t}
        BY <1>2 DEF Solvers, Remaining
      <3> HIDE DEF t
      <3> QED BY <1>2, <3>1
    <2>2. \A c \in C : Solvers(s1, c) = Solvers(s2, c)
      <3> HIDE DEF s1, s2, C, t
      <3> QED BY <1>4, <1>6, <2>1
    <2>3. S = UNION {Solvers(s1, c) : c \in C}
      BY DEF DeleteAffected, DeleteRemaining, Remaining
    <2>4. S' = UNION {Solvers(s2, c) : c \in C}
      BY <1>1 DEF DeleteAffected, DeleteRemaining, Remaining
    <2> HIDE DEF s1, s2, C, S
    <2> QED BY <2>2, <2>3, <2>4
  <1>7. ASSUME tx[q].step > 2
        PROVE  (/\ tx[q].want \subseteq TeamRows(Teams)
                /\ \A u \in DeleteAffected(q) : Secured(q, Team(u)))'
    <2>1. /\ tx[q].want \subseteq TeamRows(Teams)
          /\ \A u \in S : Secured(q, Team(u))
      BY <1>7 DEF DeletesTeam
    <2>2. S' = S
      BY <1>2, <1>6, <1>7
    <2> HIDE DEF S
    <2>3. \A u \in S' : Secured(q, Team(u))'
      BY <2>1, <2>2, StaySecured
    <2> QED BY <1>1, <2>1, <2>3 DEF S, Secured
  <1>8. ASSUME tx[q].step = 4
        PROVE  (tx[q].want = {} /\ tx[q].new = DeleteResult(q))'
    <2>1. /\ tx[q].want = {} /\ tx[q].new = DeleteResult(q) /\ \A u \in S : Secured(q, Team(u))
      BY <1>8 DEF DeletesTeam
    <2>2. S \subseteq teams /\ S \in SUBSET Teams
      <3>1. \A c \in C : Solvers(s1, c) \subseteq teams /\ Solvers(s1, c) \subseteq Teams
        BY <1>2 DEF IInv, SolvesOfTeams, Solvers, Remaining
      <3> HIDE DEF S, C, s1
      <3> QED BY <1>6, <1>8, <3>1
    <2>3. \A u \in S : Team(u) \in tx[q].held
      <3> HIDE DEF S
      <3> QED BY <2>1, <2>2, HeldByAll DEF IInv
    <2>4. ASSUME NEW u \in S
          PROVE  SolvedBy(s1, u) = SolvedBy(s2, u) /\ SolvedBy(s1, u) \subseteq SolvedBy(solves, u)
      <3>1. SolvedBy(solves', u) = SolvedBy(solves, u)
        BY <2>2, <2>3, Protected
      <3>2. \A c \in Challenges : <<u, c>> \in solves' <=> <<u, c>> \in solves
        BY <2>2, <3>1, Sides
      <3> QED BY <3>2 DEF SolvedBy, Remaining
    <2>5. Standings(worth, s1, scoring, C, S) = Standings(worth', s2, scoring', C, S)
      <3>1. \A c \in C : Solvers(s1, c) = Solvers(s2, c) /\ scoring[c] = scoring'[c]
        BY <1>4, <1>6, <1>8
      <3> HIDE DEF C, S, s1, s2
      <3> QED BY <1>2, <2>2, <2>3, <2>4, <3>1, SameResult
    <2>6. DeleteResult(q) = Standings(worth, s1, scoring, C, S)
      BY DEF DeleteResult, DeleteRemaining, Remaining
    <2>7. DeleteResult(q)' = Standings(worth', s2, scoring', C, S')
      BY <1>1 DEF DeleteResult, DeleteRemaining, Remaining
    <2>8. S' = S
      BY <1>6, <1>8
    <2> HIDE DEF S
    <2> QED BY <1>1, <2>1, <2>5, <2>6, <2>7, <2>8
  <1> QED BY <1>1, <1>2, <1>3, <1>5, <1>7, <1>8 DEF DeletesTeam
LEMMA StayWorking ==
  ASSUME IInv, NEW p \in Processes, NEW q \in Processes \ {p}, Others(p), Isolates(p),
         scoring' \in [Challenges -> Scorings]
  PROVE  Works(q)'
  <1>1. tx'[q] = tx[q] /\ Works(q)
    BY Protected DEF IInv, Working
  <1>2. tx[q].kind = "POLL" => Polls(q)'
    <2>1. ASSUME tx[q].kind = "POLL"
          PROVE  Polls(q)
      BY <1>1, <2>1 DEF Works
    <2>2. ASSUME tx[q].kind = "POLL", tx[q].step = 3
          PROVE  LocksTeams(q, {Period}, {})' /\ period' # "APPLIED"
      <3>1. LocksTeams(q, {Period}, {}) /\ period # "APPLIED"
        BY <2>1, <2>2 DEF Polls
      <3>2. Period \in tx[q].held
        BY <3>1 DEF LocksTeams, Period, Exists
      <3> QED BY <3>1, <3>2, Protected, StaySecured
    <2>3. ASSUME tx[q].kind = "POLL", tx[q].step = 2
          PROVE  LocksFirst(q, {Period})'
      BY <2>1, <2>3, StaySecured DEF Polls
    <2> QED BY <1>1, <2>1, <2>2, <2>3 DEF Polls
  <1>3. ASSUME NEW rows, LocksOnly(q, rows)
        PROVE  LocksOnly(q, rows)'
    BY <1>1, <1>3, StaySecured DEF LocksOnly
  <1>4. /\ tx[q].kind = "OPEN" => LocksOnly(q, OpenRows(tx[q].team, tx[q].challenge))'
        /\ tx[q].kind = "ACCEPT_EXE" => LocksOnly(q, AcceptRows(tx[q].team, tx[q].challenge))'
    BY <1>1, <1>3 DEF Works, LocksOnly
  <1>5. /\ tx[q].kind = "SUBMIT" => Submits(q)'
        /\ tx[q].kind = "REVOKE" => Revokes(q)'
        /\ tx[q].kind = "RESCORE" => Rescores(q)'
        /\ tx[q].kind = "DELETE" => DeletesTeam(q)'
    BY <1>1, StaySubmitting, StayRevoking, StayRescoring, StayDeleting DEF Works
  <1>6. tx[q].kind = "NONE" => (tx[q] = Nothing)'
    BY <1>1 DEF Works, Nothing
  <1> QED BY <1>1, <1>2, <1>4, <1>5, <1>6 DEF Works
-----------------------------------------------------------------------------
(* A step of p leaves its own transaction valid *)

LEMMA EndWorks ==
  ASSUME NEW p, tx'[p] = Nothing
  PROVE  Works(p)'
  <1>1. tx'[p].kind = "NONE"
    BY DEF Nothing
  <1>2. Nothing' = Nothing
    BY DEF Nothing
  <1> QED BY <1>1, <1>2 DEF Works

LEMMA FirstLocks ==
  ASSUME NEW p, NEW rows, tx'[p].held = {}, tx'[p].want = rows
  PROVE  LocksFirst(p, rows)'
  BY DEF LocksFirst, Secured

LEMMA ThenTeams ==
  ASSUME NEW p, NEW rows, NEW S \in SUBSET Teams, LocksFirst(p, rows), tx[p].want = {},
         tx'[p].held = tx[p].held, tx'[p].want = TeamRows(S), UnchangedData
  PROVE  LocksTeams(p, rows, S)'
  <1>1. \A r : Exists(r) <=> Exists(r)'
    BY DEF Exists, UnchangedData
  <1>2. TeamRows(S) \subseteq TeamRows(Teams) /\ \A t \in S : Team(t) \in TeamRows(S)
    BY DEF TeamRows, Team
  <1> QED BY <1>1, <1>2 DEF LocksFirst, LocksTeams, Secured

LEMMA SameLocks ==
  ASSUME NEW p, tx'[p].held = tx[p].held, tx'[p].want = tx[p].want, UnchangedData
  PROVE  \A r : Secured(p, r) => Secured(p, r)'
  <1>1. \A r : Exists(r) <=> Exists(r)'
    BY DEF Exists, UnchangedData
  <1> QED BY <1>1 DEF Secured

\* The steps after the first keep what they have locked.
LEMMA TeamsStayLocked ==
  ASSUME NEW p, NEW rows, NEW S, LocksTeams(p, rows, S), UnchangedData,
         tx[p].held \subseteq tx'[p].held, tx'[p].want \subseteq tx[p].want,
         tx'[p].held \subseteq tx[p].held \cup tx[p].want,
         \A r : Secured(p, r) => Secured(p, r)'
  PROVE  /\ tx'[p].held \subseteq rows \cup TeamRows(Teams)
         /\ tx'[p].want \subseteq TeamRows(Teams)
         /\ \A s \in rows : s \in tx'[p].held \/ ~Exists(s)'
         /\ \A t \in S : Secured(p, Team(t))'
  <1>1. \A r : Exists(r) <=> Exists(r)'
    BY DEF Exists, UnchangedData
  <1> QED BY <1>1 DEF LocksTeams

LEMMA MoreLocks ==
  ASSUME NEW p \in Processes, NEW r \in tx[p].want, Grants(p, r), UnchangedData
  PROVE  /\ \A s : Secured(p, s) => Secured(p, s)'
         /\ \A rows : LocksFirst(p, rows) => LocksFirst(p, rows)'
         /\ \A rows, S : LocksTeams(p, rows, S) => LocksTeams(p, rows, S)'
         /\ tx'[p].want \subseteq tx[p].want /\ tx[p].held \subseteq tx'[p].held
         /\ tx'[p].held \subseteq tx[p].held \cup tx[p].want
  <1>1. \A s : Exists(s) <=> Exists(s)'
    BY DEF Exists, UnchangedData
  <1>2. /\ tx'[p].want = tx[p].want \ {r}
        /\ \A s : s \in tx'[p].held <=> s \in tx[p].held \/ (s = r /\ Exists(r))
    BY DEF Grants
  <1>3. \A s : Secured(p, s) => Secured(p, s)'
    BY <1>1, <1>2 DEF Secured
  <1>4. \A rows : LocksFirst(p, rows) => LocksFirst(p, rows)'
    BY <1>2, <1>3 DEF LocksFirst
  <1>5. \A rows, S : LocksTeams(p, rows, S) => LocksTeams(p, rows, S)'
    BY <1>1, <1>2, <1>3 DEF LocksTeams
  <1> QED BY <1>2, <1>3, <1>4, <1>5

LEMMA LockWorks ==
  ASSUME IInv, NEW p \in Processes, Lock(p)
  PROVE  Works(p)'
  <1>0. TypeOK /\ Works(p)
    BY DEF IInv, Working
  <1>1. /\ Continues(p) /\ UnchangedData
        /\ tx'[p].step = tx[p].step /\ tx'[p].read = tx[p].read
        /\ tx'[p].scoring = tx[p].scoring /\ tx'[p].new = tx[p].new
    BY <1>0, LockSets
  <1>2. PICK r \in tx[p].want : Grants(p, r)
    BY <1>0, LockSets
  <1>3. /\ tx'[p].kind = tx[p].kind /\ tx'[p].team = tx[p].team
        /\ tx'[p].challenge = tx[p].challenge
    BY <1>1 DEF Continues
  <1>4. tx[p].want # {} /\ tx[p] # Nothing
    BY <1>2 DEF Nothing
  <1>5. /\ tx'[p].want \subseteq tx[p].want /\ tx[p].held \subseteq tx'[p].held
        /\ \A s : Secured(p, s) => Secured(p, s)'
        /\ \A rows : LocksFirst(p, rows) => LocksFirst(p, rows)'
        /\ \A rows, S : LocksTeams(p, rows, S) => LocksTeams(p, rows, S)'
        /\ tx'[p].held \subseteq tx[p].held \cup tx[p].want
    BY <1>1, <1>2, MoreLocks
  <1>6. CASE tx[p].kind = "SUBMIT"
    <2>1. Submits(p) /\ tx[p].step # 3
      BY <1>0, <1>4, <1>6 DEF Works, Submits
    <2>2. Affected(tx[p].team, tx[p].challenge)' = Affected(tx[p].team, tx[p].challenge)
      BY <1>1, <1>3 DEF Affected, UnchangedData
    <2>3. Submits(p)'
      <3> DEFINE t == tx[p].team
                 c == tx[p].challenge
      <3>1. tx[p].step = 1 => LocksFirst(p, {State(t), Challenge(c)})'
        BY <1>3, <1>5, <2>1 DEF Submits, LocksFirst
      <3>2. ASSUME tx[p].step > 1
            PROVE  LocksTeams(p, {State(t), Challenge(c)}, Affected(t, c))'
        <4> DEFINE rows == {State(t), Challenge(c)}
                   S == Affected(t, c)
        <4>1. LocksTeams(p, rows, S)
          BY <2>1, <3>2 DEF Submits
        <4>2. /\ tx'[p].held \subseteq rows \cup TeamRows(Teams) /\ tx'[p].want \subseteq TeamRows(Teams)
              /\ \A s \in rows : s \in tx'[p].held \/ ~Exists(s)'
              /\ \A u \in S : Secured(p, Team(u))'
          <5> HIDE DEF rows, S
          <5> QED BY <4>1, <1>1, <1>5, TeamsStayLocked
        <4>3. rows' = rows /\ S' = S
          BY <1>3, <2>2
        <4>4. LocksTeams(p, rows, S)'
          <5> HIDE DEF rows, S
          <5> QED BY <4>2, <4>3 DEF LocksTeams
        <4> QED BY <4>4
      <3>3. tx[p].step > 1 => (tx[p].want \subseteq TeamRows({t} \cup Solvers(solves, c)))'
        BY <1>1, <1>3, <1>5, <2>1 DEF Submits, UnchangedData
      <3> QED BY <1>1, <1>3, <2>1, <3>1, <3>2, <3>3 DEF Submits
    <2> QED BY <1>3, <1>6, <2>3 DEF Works
  <1>7. CASE tx[p].kind = "REVOKE"
    <2>1. Revokes(p) /\ tx[p].step # 3
      BY <1>0, <1>4, <1>7 DEF Works, Revokes
    <2>2. Revokes(p)'
      <3> DEFINE t == tx[p].team
                 c == tx[p].challenge
      <3>1. tx[p].step = 1 => LocksFirst(p, {State(t), Challenge(c)})'
        BY <1>3, <1>5, <2>1 DEF Revokes, LocksFirst
      <3>2. ASSUME tx[p].step > 1
            PROVE  LocksTeams(p, {State(t), Challenge(c)}, Solvers(solves, c))'
        <4> DEFINE rows == {State(t), Challenge(c)}
                   S == Solvers(solves, c)
        <4>1. LocksTeams(p, rows, S)
          BY <2>1, <3>2 DEF Revokes
        <4>2. /\ tx'[p].held \subseteq rows \cup TeamRows(Teams) /\ tx'[p].want \subseteq TeamRows(Teams)
              /\ \A s \in rows : s \in tx'[p].held \/ ~Exists(s)'
              /\ \A u \in S : Secured(p, Team(u))'
          <5> HIDE DEF rows, S
          <5> QED BY <4>1, <1>1, <1>5, TeamsStayLocked
        <4>3. rows' = rows /\ S' = S
          BY <1>1, <1>3 DEF UnchangedData
        <4>4. LocksTeams(p, rows, S)'
          <5> HIDE DEF rows, S
          <5> QED BY <4>2, <4>3 DEF LocksTeams
        <4> QED BY <4>4
      <3>3. tx[p].step > 1 => (tx[p].want \subseteq TeamRows(Solvers(solves, c)))'
        BY <1>1, <1>3, <1>5, <2>1 DEF Revokes, UnchangedData
      <3>4. tx[p].step > 1 => (Solve(p) \in solves)'
        BY <1>1, <1>3, <2>1 DEF Revokes, UnchangedData, Solve
      <3> QED BY <1>1, <1>3, <2>1, <3>1, <3>2, <3>3, <3>4 DEF Revokes
    <2> QED BY <1>3, <1>7, <2>2 DEF Works
  <1>8. CASE tx[p].kind = "RESCORE"
    <2>1. Rescores(p) /\ tx[p].step # 3
      BY <1>0, <1>4, <1>8 DEF Works, Rescores
    <2>2. Rescores(p)'
      <3> DEFINE c == tx[p].challenge
      <3>1. tx[p].step = 1 => LocksFirst(p, {Challenge(c)})'
        BY <1>3, <1>5, <2>1 DEF Rescores, LocksFirst
      <3>2. tx[p].step > 1 => LocksTeams(p, {Challenge(c)}, Solvers(solves, c))'
        BY <1>1, <1>3, <1>5, <2>1 DEF Rescores, LocksTeams, UnchangedData
      <3>3. tx[p].step > 1 => (tx[p].want \subseteq TeamRows(Solvers(solves, c)))'
        BY <1>1, <1>3, <1>5, <2>1 DEF Rescores, UnchangedData
      <3> QED BY <1>1, <1>3, <2>1, <3>1, <3>2, <3>3 DEF Rescores
    <2> QED BY <1>3, <1>8, <2>2 DEF Works
  <1>9. CASE tx[p].kind = "DELETE"
    <2>1. DeletesTeam(p) /\ tx[p].step # 4
      BY <1>0, <1>4, <1>9 DEF Works, DeletesTeam
    <2>2. DeleteAffected(p)' = DeleteAffected(p) /\ NoNewSolve(p)' = NoNewSolve(p)
      BY <1>1, <1>3 DEF DeleteAffected, DeleteRemaining, NoNewSolve, UnchangedData
    <2>3. DeletesTeam(p)'
      BY <1>1, <1>3, <1>5, <2>1, <2>2 DEF DeletesTeam, Secured
    <2> QED BY <1>3, <1>9, <2>3 DEF Works
  <1>10. CASE tx[p].kind = "POLL"
    <2>1. Polls(p) /\ tx[p].step # 1
      BY <1>0, <1>4, <1>10 DEF Works, Polls
    <2>2. Polls(p)'
      BY <1>1, <1>5, <2>1 DEF Polls, UnchangedData
    <2> QED BY <1>3, <1>10, <2>2 DEF Works
  <1>11. CASE tx[p].kind \in {"OPEN", "ACCEPT_EXE"}
    <2>1. ASSUME NEW rows, LocksOnly(p, rows)
          PROVE  LocksOnly(p, rows)'
      BY <1>3, <1>5, <2>1 DEF LocksOnly
    <2> QED BY <1>0, <1>3, <1>11, <2>1 DEF Works, LocksOnly
  <1>12. CASE tx[p].kind = "NONE"
    BY <1>0, <1>4, <1>12 DEF Works
  <1> QED BY <1>0, <1>6, <1>7, <1>8, <1>9, <1>10, <1>11, <1>12
      DEF TypeOK, IsTransaction, Kinds
LEMMA SubmitWorks ==
  ASSUME IInv, NEW p \in Processes, Submit(p)
  PROVE  Works(p)' /\ Others(p) /\ IsTransaction(tx'[p])
  <1>0. TypeOK /\ Works(p)
    BY DEF IInv, Working
  <1>1. ASSUME NEW t \in Teams, NEW c \in Challenges, SubmitBegin(p, t, c)
        PROVE  Works(p)' /\ Others(p) /\ IsTransaction(tx'[p])
    <2>1. /\ "SUBMIT" \in Kinds /\ t \in 0..MaxTeam /\ c \in 0..MaxChallenge
          /\ SubmitRows(t, c) \in SUBSET Rows
      BY RowsOfKeys DEF Kinds, Teams, Challenges, SubmitRows
    <2>2. BeginAfter(p, "SUBMIT", t, c, {}, SubmitRows(t, c))
      BY <1>1 DEF SubmitBegin, Begin
    <2>3. /\ Others(p) /\ IsTransaction(tx'[p])
          /\ tx'[p].kind = "SUBMIT" /\ tx'[p].step = 1 /\ tx'[p].team = t /\ tx'[p].challenge = c
          /\ tx'[p].held = {} /\ tx'[p].want = SubmitRows(t, c)
      BY <1>0, <2>1, <2>2, BeginSets
    <2>4. LocksFirst(p, {State(t), Challenge(c)})'
      BY <2>3, FirstLocks DEF SubmitRows
    <2> QED BY <2>3, <2>4 DEF Works, Submits
  <1>2. CASE SubmitLockTeams(p)
    <2> DEFINE t == tx[p].team
               c == tx[p].challenge
               S == Affected(t, c)
    <2>1. /\ Submits(p) /\ tx[p].step = 1 /\ tx[p].want = {} /\ tx[p].kind = "SUBMIT"
          /\ LockMore(p, TeamRows(S))
      BY <1>0, <1>2 DEF Works, SubmitLockTeams, At
    <2>2. t \in Teams /\ c \in Challenges /\ LocksFirst(p, {State(t), Challenge(c)})
      BY <2>1 DEF Submits
    <2>3. S \in SUBSET Teams /\ S \subseteq {t} \cup Solvers(solves, c)
      BY <2>2 DEF Affected, Solvers
    <2>4. TeamRows(S) \in SUBSET Rows /\ TeamRows(S) \subseteq TeamRows({t} \cup Solvers(solves, c))
      BY <2>3 DEF TeamRows, Rows
    <2>5. /\ Others(p) /\ IsTransaction(tx'[p]) /\ Continues(p)
          /\ tx'[p].step = 2 /\ tx'[p].held = tx[p].held /\ tx'[p].want = TeamRows(S)
      BY <1>0, <2>1, <2>4, LockMoreSets
    <2>6. UnchangedData
      BY <2>1 DEF LockMore
    <2>7. /\ tx'[p].kind = "SUBMIT" /\ tx'[p].team = t /\ tx'[p].challenge = c
          /\ Affected(t, c)' = S /\ solves' = solves
      BY <2>1, <2>5, <2>6 DEF Continues, Affected, UnchangedData
    <2>8. LocksTeams(p, {State(t), Challenge(c)}, S)'
      <3> HIDE DEF S
      <3> QED BY <2>1, <2>2, <2>3, <2>5, <2>6, <2>7, ThenTeams DEF LocksTeams, S
    <2> QED BY <2>2, <2>4, <2>5, <2>7, <2>8 DEF Works, Submits
  <1>3. CASE SubmitCompute(p)
    <2>1. /\ Submits(p) /\ tx[p].step = 2 /\ tx[p].want = {} /\ tx[p].kind = "SUBMIT"
      BY <1>0, <1>3 DEF Works, SubmitCompute, At
    <2>2. CASE SubmitRefused(p)
      BY <1>0, <1>3, <2>2, EndsSets, EndWorks DEF SubmitCompute, EndsUnchanged
    <2>3. CASE ~SubmitRefused(p)
      <3>1. Computes(p, SubmitResult(p))
        BY <1>3, <2>3 DEF SubmitCompute
      <3>2. /\ Others(p) /\ IsTransaction(tx'[p]) /\ Continues(p)
            /\ tx'[p].step = 3 /\ tx'[p].held = tx[p].held /\ tx'[p].want = tx[p].want
            /\ tx'[p].new = SubmitResult(p)
        BY <1>0, <2>1, <3>1, ComputesSets
      <3>3. UnchangedData
        BY <3>1 DEF Computes
      <3>4. /\ tx'[p].kind = "SUBMIT" /\ tx'[p].team = tx[p].team
            /\ tx'[p].challenge = tx[p].challenge
        BY <2>1, <3>2 DEF Continues
      <3>5. Solve(p)' = Solve(p) /\ SubmitRefused(p)' = SubmitRefused(p)
        BY <3>3, <3>4 DEF Solve, SubmitRefused, UnchangedData
      <3>6. SubmitResult(p)' = SubmitResult(p)
        BY <3>3, <3>4, <3>5 DEF SubmitResult, SubmitRewrites, UnchangedData
      <3>7. Affected(tx[p].team, tx[p].challenge)' = Affected(tx[p].team, tx[p].challenge)
        BY <3>3, <3>4 DEF Affected, UnchangedData
      <3>8. LocksTeams(p, {State(tx[p].team), Challenge(tx[p].challenge)},
                       Affected(tx[p].team, tx[p].challenge))'
        <4> DEFINE t == tx[p].team
                   c == tx[p].challenge
        <4> DEFINE rows == {State(t), Challenge(c)}
                   S == Affected(t, c)
        <4>1. LocksTeams(p, rows, S)
          BY <2>1 DEF Submits
        <4>2. /\ tx'[p].held \subseteq rows \cup TeamRows(Teams) /\ tx'[p].want \subseteq TeamRows(Teams)
              /\ \A s \in rows : s \in tx'[p].held \/ ~Exists(s)'
              /\ \A u \in S : Secured(p, Team(u))'
          <5> HIDE DEF rows, S
          <5> QED BY <4>1, <3>2, <3>3, SameLocks, TeamsStayLocked
        <4>3. rows' = rows /\ S' = S
          BY <3>4, <3>7
        <4>4. LocksTeams(p, rows, S)'
          <5> HIDE DEF rows, S
          <5> QED BY <4>2, <4>3 DEF LocksTeams
        <4> QED BY <4>4
      <3> QED BY <2>1, <2>3, <3>2, <3>4, <3>5, <3>6, <3>8 DEF Works, Submits
    <2> QED BY <2>2, <2>3
  <1>4. CASE SubmitCommit(p)
    BY <1>0, <1>4, EndsSets, EndWorks DEF SubmitCommit
  <1> QED BY <1>1, <1>2, <1>3, <1>4 DEF Submit

LEMMA RevokeWorks ==
  ASSUME IInv, NEW p \in Processes, Revoke(p)
  PROVE  Works(p)' /\ Others(p) /\ IsTransaction(tx'[p])
  <1>0. TypeOK /\ Works(p)
    BY DEF IInv, Working
  <1>1. ASSUME NEW t \in Teams, NEW c \in Challenges, RevokeBegin(p, t, c)
        PROVE  Works(p)' /\ Others(p) /\ IsTransaction(tx'[p])
    <2> DEFINE rows == {State(t), Challenge(c)}
    <2>1. /\ "REVOKE" \in Kinds /\ t \in 0..MaxTeam /\ c \in 0..MaxChallenge
          /\ rows \in SUBSET Rows
      BY RowsOfKeys DEF Kinds, Teams, Challenges
    <2>2. BeginAfter(p, "REVOKE", t, c, {}, rows)
      BY <1>1 DEF RevokeBegin, Begin
    <2>3. /\ Others(p) /\ IsTransaction(tx'[p])
          /\ tx'[p].kind = "REVOKE" /\ tx'[p].step = 1 /\ tx'[p].team = t /\ tx'[p].challenge = c
          /\ tx'[p].held = {} /\ tx'[p].want = rows
      <3> HIDE DEF rows
      <3> QED BY <1>0, <2>1, <2>2, BeginSets
    <2>4. LocksFirst(p, {State(t), Challenge(c)})'
      BY <2>3, FirstLocks
    <2> QED BY <2>3, <2>4 DEF Works, Revokes
  <1>2. CASE RevokeLockTeams(p)
    <2> DEFINE t == tx[p].team
               c == tx[p].challenge
               S == Solvers(solves, c)
    <2>1. /\ Revokes(p) /\ tx[p].step = 1 /\ tx[p].want = {} /\ tx[p].kind = "REVOKE"
      BY <1>0, <1>2 DEF Works, RevokeLockTeams, At
    <2>2. CASE Solve(p) \notin solves
      BY <1>0, <1>2, <2>2, EndsSets, EndWorks DEF RevokeLockTeams, EndsUnchanged
    <2>3. CASE Solve(p) \in solves
      <3>1. LockMore(p, TeamRows(S))
        BY <1>2, <2>3 DEF RevokeLockTeams
      <3>2. t \in Teams /\ c \in Challenges /\ LocksFirst(p, {State(t), Challenge(c)})
        BY <2>1 DEF Revokes
      <3>3. S \in SUBSET Teams /\ TeamRows(S) \in SUBSET Rows
        BY DEF Solvers, TeamRows, Rows
      <3>4. /\ Others(p) /\ IsTransaction(tx'[p]) /\ Continues(p)
            /\ tx'[p].step = 2 /\ tx'[p].held = tx[p].held /\ tx'[p].want = TeamRows(S)
        BY <1>0, <2>1, <3>1, <3>3, LockMoreSets
      <3>5. UnchangedData
        BY <3>1 DEF LockMore
      <3>6. /\ tx'[p].kind = "REVOKE" /\ tx'[p].team = t /\ tx'[p].challenge = c
            /\ Solvers(solves, c)' = S /\ solves' = solves
        BY <2>1, <3>4, <3>5 DEF Continues, UnchangedData
      <3>7. LocksTeams(p, {State(t), Challenge(c)}, S)'
        <4> HIDE DEF S
        <4> QED BY <2>1, <3>2, <3>3, <3>4, <3>5, <3>6, ThenTeams DEF LocksTeams, S
      <3>8. (Solve(p) \in solves)'
        BY <2>3, <3>6 DEF Solve
      <3> QED BY <3>2, <3>4, <3>6, <3>7, <3>8 DEF Works, Revokes
    <2> QED BY <2>2, <2>3
  <1>3. CASE RevokeCompute(p)
    <2>1. /\ Revokes(p) /\ tx[p].step = 2 /\ tx[p].want = {} /\ tx[p].kind = "REVOKE"
          /\ Computes(p, RevokeResult(p))
      BY <1>0, <1>3 DEF Works, RevokeCompute, At
    <2>2. /\ Others(p) /\ IsTransaction(tx'[p]) /\ Continues(p)
          /\ tx'[p].step = 3 /\ tx'[p].held = tx[p].held /\ tx'[p].want = tx[p].want
          /\ tx'[p].new = RevokeResult(p)
      BY <1>0, <2>1, ComputesSets
    <2>3. UnchangedData
      BY <2>1 DEF Computes
    <2>4. /\ tx'[p].kind = "REVOKE" /\ tx'[p].team = tx[p].team
          /\ tx'[p].challenge = tx[p].challenge
      BY <2>1, <2>2 DEF Continues
    <2>5. Solve(p)' = Solve(p) /\ solves' = solves
      BY <2>3, <2>4 DEF Solve, UnchangedData
    <2>6. RevokeResult(p)' = RevokeResult(p)
      BY <2>3, <2>4, <2>5 DEF RevokeResult, UnchangedData
    <2>7. LocksTeams(p, {State(tx[p].team), Challenge(tx[p].challenge)},
                     Solvers(solves, tx[p].challenge))'
      <3> DEFINE rows == {State(tx[p].team), Challenge(tx[p].challenge)}
                 S == Solvers(solves, tx[p].challenge)
      <3>1. LocksTeams(p, rows, S)
        BY <2>1 DEF Revokes
      <3>2. /\ tx'[p].held \subseteq rows \cup TeamRows(Teams) /\ tx'[p].want \subseteq TeamRows(Teams)
            /\ \A r \in rows : r \in tx'[p].held \/ ~Exists(r)'
            /\ \A u \in S : Secured(p, Team(u))'
        <4> HIDE DEF rows, S
        <4> QED BY <2>2, <2>3, <3>1, SameLocks, TeamsStayLocked
      <3>3. rows' = rows /\ S' = S
        BY <2>4, <2>5
      <3>4. LocksTeams(p, rows, S)'
        <4> HIDE DEF rows, S
        <4> QED BY <3>2, <3>3 DEF LocksTeams
      <3> QED BY <3>4
    <2> QED BY <2>1, <2>2, <2>4, <2>5, <2>6, <2>7 DEF Works, Revokes
  <1>4. CASE RevokeCommit(p)
    BY <1>0, <1>4, EndsSets, EndWorks DEF RevokeCommit
  <1> QED BY <1>1, <1>2, <1>3, <1>4 DEF Revoke

LEMMA RescoreWorks ==
  ASSUME IInv, NEW p \in Processes, Rescore(p)
  PROVE  Works(p)' /\ Others(p) /\ IsTransaction(tx'[p])
  <1>0. TypeOK /\ Works(p)
    BY DEF IInv, Working
  <1>1. ASSUME NEW c \in Challenges, RescoreBegin(p, c)
        PROVE  Works(p)' /\ Others(p) /\ IsTransaction(tx'[p])
    <2> DEFINE rows == {Challenge(c)}
    <2>1. /\ "RESCORE" \in Kinds /\ 0 \in 0..MaxTeam /\ c \in 0..MaxChallenge
          /\ rows \in SUBSET Rows
      BY SizesAssumption DEF Kinds, Teams, Challenges, Rows, Challenge
    <2>2. BeginAfter(p, "RESCORE", 0, c, {}, rows)
      BY <1>1 DEF RescoreBegin, Begin
    <2>3. /\ Others(p) /\ IsTransaction(tx'[p])
          /\ tx'[p].kind = "RESCORE" /\ tx'[p].step = 1 /\ tx'[p].challenge = c
          /\ tx'[p].held = {} /\ tx'[p].want = rows
      <3> HIDE DEF rows
      <3> QED BY <1>0, <2>1, <2>2, BeginSets
    <2>4. LocksFirst(p, {Challenge(c)})'
      BY <2>3, FirstLocks
    <2> QED BY <2>3, <2>4 DEF Works, Rescores
  <1>2. CASE RescoreLockTeams(p)
    <2> DEFINE c == tx[p].challenge
               S == Solvers(solves, c)
    <2>1. /\ Rescores(p) /\ tx[p].step = 1 /\ tx[p].want = {} /\ tx[p].kind = "RESCORE"
          /\ LockMore(p, TeamRows(S))
      BY <1>0, <1>2 DEF Works, RescoreLockTeams, At
    <2>2. c \in Challenges /\ LocksFirst(p, {Challenge(c)})
      BY <2>1 DEF Rescores
    <2>3. S \in SUBSET Teams /\ TeamRows(S) \in SUBSET Rows
      BY DEF Solvers, TeamRows, Rows
    <2>4. /\ Others(p) /\ IsTransaction(tx'[p]) /\ Continues(p)
          /\ tx'[p].step = 2 /\ tx'[p].held = tx[p].held /\ tx'[p].want = TeamRows(S)
      BY <1>0, <2>1, <2>3, LockMoreSets
    <2>5. UnchangedData
      BY <2>1 DEF LockMore
    <2>6. /\ tx'[p].kind = "RESCORE" /\ tx'[p].challenge = c /\ Solvers(solves, c)' = S
      BY <2>1, <2>4, <2>5 DEF Continues, UnchangedData
    <2>7. LocksTeams(p, {Challenge(c)}, S)'
      <3> HIDE DEF S
      <3> QED BY <2>1, <2>2, <2>3, <2>4, <2>5, <2>6, ThenTeams DEF LocksTeams, S
    <2> QED BY <2>2, <2>4, <2>6, <2>7 DEF Works, Rescores
  <1>3. ASSUME NEW g \in Scorings, RescoreCompute(p, g)
        PROVE  Works(p)' /\ Others(p) /\ IsTransaction(tx'[p])
    <2>1. /\ Rescores(p) /\ tx[p].step = 2 /\ tx[p].want = {} /\ tx[p].kind = "RESCORE"
          /\ tx' = [tx EXCEPT ![p].step = 3, ![p].scoring = g, ![p].new = RescoreResult(p, g)]
          /\ UnchangedData
      BY <1>0, <1>3 DEF Works, RescoreCompute, At
    <2>2. /\ Others(p) /\ IsTransaction(tx'[p])
          /\ tx'[p].step = 3 /\ tx'[p].held = tx[p].held /\ tx'[p].want = tx[p].want
          /\ tx'[p].new = RescoreResult(p, g) /\ tx'[p].scoring = g
          /\ tx'[p].kind = "RESCORE" /\ tx'[p].challenge = tx[p].challenge
      <3>1. IsTransaction(tx[p]) /\ DOMAIN tx = Processes
        BY <1>0 DEF TypeOK
      <3>2. tx'[p] = [tx[p] EXCEPT !.step = 3, !.scoring = g, !.new = RescoreResult(p, g)]
        BY <2>1, <3>1
      <3>3. tx'[p] = Transaction(tx[p].kind, 3, tx[p].team, tx[p].challenge, tx[p].read,
                                 g, tx[p].held, tx[p].want, RescoreResult(p, g))
        <4> DEFINE x == tx[p]
                   v == RescoreResult(p, g)
                   y == [x EXCEPT !.step = 3]
                   z == [y EXCEPT !.scoring = g]
        <4>1. x = Transaction(x.kind, x.step, x.team, x.challenge, x.read, x.scoring, x.held,
                              x.want, x.new)
          BY <3>1 DEF IsTransaction, Transaction
        <4> HIDE DEF x, v
        <4>2. y = Transaction(x.kind, 3, x.team, x.challenge, x.read, x.scoring, x.held, x.want,
                              x.new)
          BY <4>1 DEF Transaction
        <4>3. [x EXCEPT !.step = 3, !.scoring = g, !.new = v] = [z EXCEPT !.new = v]
          OBVIOUS
        <4>4. z = Transaction(x.kind, 3, x.team, x.challenge, x.read, g, x.held, x.want, x.new)
          <5> HIDE DEF y
          <5> QED BY <4>2 DEF Transaction
        <4> HIDE DEF z
        <4>5. [z EXCEPT !.new = v]
                = Transaction(x.kind, 3, x.team, x.challenge, x.read, g, x.held, x.want, v)
          BY <4>4 DEF Transaction
        <4> QED BY <3>2, <4>3, <4>5 DEF x, v
      <3>4. IsTransaction(tx'[p])
        <4>1. /\ 3 \in 0..4 /\ tx[p].read \subseteq Challenges
              /\ tx[p].held \subseteq Rows /\ tx[p].want \subseteq Rows
          BY <3>1 DEF IsTransaction
        <4> QED BY <3>1, <3>3, <4>1, ChangedIsOne
      <3>5. Others(p)
        BY <2>1, <3>1 DEF Others
      <3>6. /\ tx'[p].step = 3 /\ tx'[p].held = tx[p].held /\ tx'[p].want = tx[p].want
            /\ tx'[p].new = RescoreResult(p, g) /\ tx'[p].scoring = g
            /\ tx'[p].kind = tx[p].kind /\ tx'[p].challenge = tx[p].challenge
        BY <3>3 DEF Transaction
      <3> QED BY <2>1, <3>4, <3>5, <3>6
    <2>3. RescoreResult(p, g)' = RescoreResult(p, g)
      BY <2>1, <2>2 DEF RescoreResult, UnchangedData
    <2>4. Solvers(solves, tx[p].challenge)' = Solvers(solves, tx[p].challenge)
      BY <2>1, <2>2 DEF UnchangedData
    <2>5. LocksTeams(p, {Challenge(tx[p].challenge)}, Solvers(solves, tx[p].challenge))'
      <3> DEFINE rows == {Challenge(tx[p].challenge)}
                 S == Solvers(solves, tx[p].challenge)
      <3>1. LocksTeams(p, rows, S)
        BY <2>1 DEF Rescores
      <3>2. /\ tx'[p].held \subseteq rows \cup TeamRows(Teams) /\ tx'[p].want \subseteq TeamRows(Teams)
            /\ \A r \in rows : r \in tx'[p].held \/ ~Exists(r)'
            /\ \A u \in S : Secured(p, Team(u))'
        <4> HIDE DEF rows, S
        <4> QED BY <2>1, <2>2, <3>1, SameLocks, TeamsStayLocked
      <3>3. rows' = rows /\ S' = S
        BY <2>2, <2>4
      <3>4. LocksTeams(p, rows, S)'
        <4> HIDE DEF rows, S
        <4> QED BY <3>2, <3>3 DEF LocksTeams
      <3> QED BY <3>4
    <2>6. tx'[p].new = RescoreResult(p, tx[p].scoring)'
      BY <2>1, <2>2 DEF RescoreResult, UnchangedData
    <2>7. (tx[p].challenge \in Challenges)' /\ (tx[p].want = {})' /\ (tx[p].scoring \in Scorings)'
      BY <2>1, <2>2 DEF Rescores
    <2>8. Rescores(p)'
      BY <2>2, <2>5, <2>6, <2>7 DEF Rescores
    <2> QED BY <2>2, <2>8 DEF Works
  <1>4. CASE RescoreCommit(p)
    BY <1>0, <1>4, EndsSets, EndWorks DEF RescoreCommit
  <1> QED BY <1>1, <1>2, <1>3, <1>4 DEF Rescore
LEMMA DeleteRowsAre ==
  ASSUME TypeOK, NEW p \in Processes, NEW t \in Teams
  PROVE  /\ SolvedBy(solves, t) \in SUBSET Challenges /\ DeleteRows(t) \in SUBSET Rows
         /\ \A c \in SolvedBy(solves, t) : Challenge(c) \in DeleteRows(t)
         /\ Team(t) \in DeleteRows(t)
         /\ DeleteAffected(p) \in SUBSET Teams /\ tx[p].team \notin DeleteAffected(p)
         /\ DeleteAffected(p) \subseteq UNION {Solvers(solves, c) : c \in tx[p].read}
  <1>1. SolvedBy(solves, t) \in SUBSET Challenges
    BY DEF SolvedBy
  <1>2. DeleteRows(t) \in SUBSET Rows
    BY <1>1, RowsOfSets, RowsOfKeys DEF DeleteRows, Rows, Team
  <1>3. Team(t) \in DeleteRows(t) /\ \A c \in SolvedBy(solves, t) : Challenge(c) \in DeleteRows(t)
    BY DEF DeleteRows, ChallengeRows, Challenge
  <1>4. /\ DeleteAffected(p) \in SUBSET Teams /\ tx[p].team \notin DeleteAffected(p)
        /\ DeleteAffected(p) \subseteq UNION {Solvers(solves, c) : c \in tx[p].read}
    <2>1. tx[p].read \subseteq Challenges
      BY DEF TypeOK, IsTransaction
    <2>2. \A c \in tx[p].read : /\ Solvers(DeleteRemaining(p), c) \subseteq Solvers(solves, c)
                                /\ Solvers(DeleteRemaining(p), c) \subseteq Teams
                                /\ tx[p].team \notin Solvers(DeleteRemaining(p), c)
      BY <2>1 DEF Solvers, DeleteRemaining
    <2> QED BY <2>2 DEF DeleteAffected
  <1> QED BY <1>1, <1>2, <1>3, <1>4

LEMMA DeleteWorks ==
  ASSUME IInv, NEW p \in Processes, Delete(p)
  PROVE  Works(p)' /\ Others(p) /\ IsTransaction(tx'[p])
  <1>0. TypeOK /\ Works(p)
    BY DEF IInv, Working
  <1>1. ASSUME NEW t \in Teams, DeleteBegin(p, t)
        PROVE  Works(p)' /\ Others(p) /\ IsTransaction(tx'[p])
    <2> DEFINE read == SolvedBy(solves, t)
               rows == DeleteRows(t)
    <2>1. /\ "DELETE" \in Kinds /\ t \in 0..MaxTeam /\ 0 \in 0..MaxChallenge
          /\ rows \in SUBSET Rows /\ read \in SUBSET Challenges
      BY <1>0, DeleteRowsAre, SizesAssumption DEF Kinds, Teams
    <2>2. BeginAfter(p, "DELETE", t, 0, read, rows)
      BY <1>1 DEF DeleteBegin
    <2>3. /\ Others(p) /\ IsTransaction(tx'[p])
          /\ tx'[p].kind = "DELETE" /\ tx'[p].step = 1 /\ tx'[p].team = t /\ tx'[p].read = read
          /\ tx'[p].held = {} /\ tx'[p].want = rows
      <3> HIDE DEF rows, read
      <3> QED BY <1>0, <2>1, <2>2, BeginSets
    <2>4. Team(t) \in rows /\ \A c \in read : Challenge(c) \in rows
      BY <1>0, DeleteRowsAre
    <2> HIDE DEF rows, read
    <2>5. DeletesTeam(p)'
      BY <2>3, <2>4 DEF DeletesTeam, Secured
    <2> QED BY <2>3, <2>5 DEF Works
  <1>2. CASE DeleteCascade(p)
    <2> DEFINE t == tx[p].team
    <2>1. /\ DeletesTeam(p) /\ tx[p].step = 1 /\ tx[p].want = {} /\ tx[p].kind = "DELETE"
          /\ t \in Teams
      BY <1>0, <1>2 DEF Works, DeleteCascade, At, DeletesTeam
    <2>2. CASE t \notin teams
      <3>0. NoNewSolve(p)
        BY <2>1, <2>2 DEF IInv, SolvesOfTeams, NoNewSolve, SolvedBy
      <3>1. Ends(p)
        BY <1>2, <2>2, <3>0 DEF DeleteCascade, EndsUnchanged
      <3> QED BY <1>0, <3>1, EndsSets, EndWorks
    <2>3. CASE t \in teams /\ ~NoNewSolve(p)
      <3> DEFINE read == SolvedBy(solves, t)
                 rows == DeleteRows(t)
      <3>1. tx' = [tx EXCEPT ![p].held = {}, ![p].read = read, ![p].want = rows]
        BY <1>2, <2>3 DEF DeleteCascade
      <3>2. /\ rows \in SUBSET Rows /\ read \in SUBSET Challenges
            /\ Team(t) \in rows /\ \A c \in read : Challenge(c) \in rows
        BY <1>0, <2>1, DeleteRowsAre
      <3>3. IsTransaction(tx[p]) /\ DOMAIN tx = Processes
        BY <1>0 DEF TypeOK
      <3> HIDE DEF rows, read
      <3>4. tx'[p] = Transaction("DELETE", 1, t, tx[p].challenge, read, tx[p].scoring, {}, rows,
                                 tx[p].new)
        <4> DEFINE x == tx[p]
                   y == [x EXCEPT !.held = {}]
                   z == [y EXCEPT !.read = read]
        <4>0. tx'[p] = [x EXCEPT !.held = {}, !.read = read, !.want = rows]
          BY <3>1, <3>3
        <4>1. x = Transaction("DELETE", 1, x.team, x.challenge, x.read, x.scoring, x.held,
                              x.want, x.new)
          BY <2>1, <3>3 DEF IsTransaction, Transaction
        <4> HIDE DEF x
        <4>2. y = Transaction("DELETE", 1, x.team, x.challenge, x.read, x.scoring, {}, x.want,
                              x.new)
          BY <4>1 DEF Transaction
        <4>3. [x EXCEPT !.held = {}, !.read = read, !.want = rows] = [z EXCEPT !.want = rows]
          OBVIOUS
        <4>4. z = Transaction("DELETE", 1, x.team, x.challenge, read, x.scoring, {}, x.want, x.new)
          <5> HIDE DEF y
          <5> QED BY <4>2 DEF Transaction
        <4> HIDE DEF z
        <4>5. [z EXCEPT !.want = rows]
                = Transaction("DELETE", 1, x.team, x.challenge, read, x.scoring, {}, rows, x.new)
          BY <4>4 DEF Transaction
        <4> QED BY <4>0, <4>3, <4>5 DEF x
      <3>5. IsTransaction(tx'[p])
        <4>1. /\ "DELETE" \in Kinds /\ 1 \in 0..4 /\ {} \in SUBSET Rows
              /\ tx[p].team \in 0..MaxTeam /\ tx[p].challenge \in 0..MaxChallenge
          BY <3>3 DEF IsTransaction, Kinds
        <4> QED BY <3>2, <3>4, <4>1, TransactionIsOne
      <3>6. Others(p)
        BY <3>1, <3>3 DEF Others
      <3>7. /\ tx'[p].kind = "DELETE" /\ tx'[p].step = 1 /\ tx'[p].team = t
            /\ tx'[p].read = read /\ tx'[p].want = rows
        BY <3>4 DEF Transaction
      <3>8. DeletesTeam(p)'
        BY <2>1, <3>2, <3>7 DEF DeletesTeam, Secured
      <3> QED BY <3>5, <3>6, <3>7, <3>8 DEF Works
    <2>4. CASE t \in teams /\ NoNewSolve(p)
      <3> DEFINE rows == {State(t)}
      <3>1. LockMore(p, rows)
        BY <1>2, <2>4 DEF DeleteCascade
      <3>2. rows \in SUBSET Rows
        BY <2>1 DEF Rows, State
      <3>3. /\ Others(p) /\ IsTransaction(tx'[p]) /\ Continues(p)
            /\ tx'[p].step = 2 /\ tx'[p].held = tx[p].held /\ tx'[p].want = rows
            /\ tx'[p].read = tx[p].read
        <4> HIDE DEF rows
        <4> QED BY <1>0, <2>1, <3>1, <3>2, LockMoreSets
      <3>4. UnchangedData
        BY <3>1 DEF LockMore
      <3>5. tx'[p].kind = "DELETE" /\ tx'[p].team = t
        BY <2>1, <3>3 DEF Continues
      <3>6. /\ Team(t) \in tx[p].held
            /\ \A c \in tx[p].read : Challenge(c) \in tx[p].held \/ ~Exists(Challenge(c))
        BY <2>1, <2>4 DEF DeletesTeam, Secured, Exists, Team
      <3>7. NoNewSolve(p)'
        BY <2>4, <3>3, <3>4, <3>5 DEF NoNewSolve, UnchangedData
      <3>8. rows \cap (ChallengeRows(Challenges) \cup {Team(t)}) = {}
        BY DEF ChallengeRows, State, Team
      <3>9. \A r : Exists(r) <=> Exists(r)'
        BY <3>4 DEF Exists, UnchangedData
      <3>10. State(t) \in tx'[p].want
        BY <3>3
      <3> HIDE DEF rows
      <3>11. /\ \A c \in tx'[p].read : Secured(p, Challenge(c))'
             /\ Secured(p, Team(t))' /\ Secured(p, State(t))'
        <4>1. \A r : r \in tx[p].held \/ ~Exists(r) => Secured(p, r)'
          BY <3>3, <3>9 DEF Secured
        <4>2. Secured(p, State(t))'
          BY <3>5, <3>10 DEF Secured
        <4>3. Secured(p, Team(t))'
          BY <3>3, <3>5, <3>6 DEF Secured
        <4> QED BY <3>3, <3>6, <4>1, <4>2, <4>3
      <3>12. DeletesTeam(p)'
        BY <2>1, <3>3, <3>5, <3>6, <3>7, <3>8, <3>11 DEF DeletesTeam, Secured
      <3> QED BY <3>3, <3>5, <3>12 DEF Works
    <2> QED BY <2>2, <2>3, <2>4
  <1>3. CASE DeleteLockTeams(p)
    <2> DEFINE t == tx[p].team
               S == DeleteAffected(p)
               rows == TeamRows(S)
    <2>1. /\ DeletesTeam(p) /\ tx[p].step = 2 /\ tx[p].want = {} /\ tx[p].kind = "DELETE"
          /\ t \in Teams /\ LockMore(p, rows)
      BY <1>0, <1>3 DEF Works, DeleteLockTeams, At, DeletesTeam
    <2>2. S \in SUBSET Teams /\ t \notin S
      BY <1>0, <2>1, DeleteRowsAre
    <2>3. /\ rows \in SUBSET Rows /\ rows \subseteq TeamRows(Teams)
          /\ rows \cap (ChallengeRows(Challenges) \cup {Team(t)}) = {}
          /\ \A u \in S : Team(u) \in rows
      <3> HIDE DEF S
      <3> QED BY <2>2 DEF Rows, TeamRows, ChallengeRows, Team
    <2>4. /\ Others(p) /\ IsTransaction(tx'[p]) /\ Continues(p)
          /\ tx'[p].step = 3 /\ tx'[p].held = tx[p].held /\ tx'[p].want = rows
          /\ tx'[p].read = tx[p].read
      <3> HIDE DEF rows
      <3> QED BY <1>0, <2>1, <2>3, LockMoreSets
    <2>5. UnchangedData
      BY <2>1 DEF LockMore
    <2>6. tx'[p].kind = "DELETE" /\ tx'[p].team = t
      BY <2>1, <2>4 DEF Continues
    <2>7. /\ Team(t) \in tx[p].held /\ NoNewSolve(p)
          /\ State(t) \in tx[p].held \/ ~Exists(State(t))
          /\ \A c \in tx[p].read : Challenge(c) \in tx[p].held \/ ~Exists(Challenge(c))
      BY <2>1 DEF DeletesTeam, Secured
    <2>8. NoNewSolve(p)' /\ S' = S
      BY <2>4, <2>5, <2>6, <2>7 DEF NoNewSolve, DeleteAffected, DeleteRemaining, UnchangedData
    <2>9. \A r : Exists(r) <=> Exists(r)'
      BY <2>5 DEF Exists, UnchangedData
    <2> HIDE DEF rows
    <2>10. /\ \A c \in tx'[p].read : Secured(p, Challenge(c))'
           /\ Secured(p, Team(t))' /\ Secured(p, State(t))'
           /\ \A u \in S' : Secured(p, Team(u))'
      <3> HIDE DEF S
      <3>1. \A r : r \in tx[p].held \/ ~Exists(r) => Secured(p, r)'
        BY <2>4, <2>9 DEF Secured
      <3>2. \A u \in S : Secured(p, Team(u))'
        BY <2>3, <2>4 DEF Secured
      <3>3. Secured(p, Team(t))' /\ Secured(p, State(t))'
        BY <2>4, <2>6, <2>7, <2>9 DEF Secured
      <3> QED BY <2>4, <2>7, <2>8, <3>1, <3>2, <3>3
    <2>11. DeletesTeam(p)'
      BY <2>1, <2>3, <2>4, <2>6, <2>7, <2>8, <2>10 DEF DeletesTeam, Secured
    <2> QED BY <2>4, <2>6, <2>11 DEF Works
  <1>4. CASE DeleteCompute(p)
    <2>1. /\ DeletesTeam(p) /\ tx[p].step = 3 /\ tx[p].want = {} /\ tx[p].kind = "DELETE"
          /\ Computes(p, DeleteResult(p))
      BY <1>0, <1>4 DEF Works, DeleteCompute, At
    <2>2. /\ Others(p) /\ IsTransaction(tx'[p]) /\ Continues(p)
          /\ tx'[p].step = 4 /\ tx'[p].held = tx[p].held /\ tx'[p].want = tx[p].want
          /\ tx'[p].read = tx[p].read /\ tx'[p].new = DeleteResult(p)
      BY <1>0, <2>1, ComputesSets
    <2>3. UnchangedData
      BY <2>1 DEF Computes
    <2>4. tx'[p].kind = "DELETE" /\ tx'[p].team = tx[p].team
      BY <2>1, <2>2 DEF Continues
    <2>5. /\ DeleteRemaining(p)' = DeleteRemaining(p) /\ NoNewSolve(p)' = NoNewSolve(p)
      BY <2>2, <2>3, <2>4 DEF DeleteRemaining, NoNewSolve, UnchangedData
    <2>6. DeleteAffected(p)' = DeleteAffected(p)
      BY <2>2, <2>5 DEF DeleteAffected
    <2>7. DeleteResult(p)' = DeleteResult(p)
      BY <2>2, <2>3, <2>5, <2>6 DEF DeleteResult, UnchangedData
    <2>8. \A r : Secured(p, r) => Secured(p, r)'
      BY <2>2, <2>3, SameLocks
    <2>9. DeletesTeam(p)'
      BY <2>1, <2>2, <2>4, <2>5, <2>6, <2>7, <2>8 DEF DeletesTeam, Secured
    <2> QED BY <2>2, <2>4, <2>9 DEF Works
  <1>5. CASE DeleteCommit(p)
    BY <1>0, <1>5, EndsSets, EndWorks DEF DeleteCommit
  <1> QED BY <1>1, <1>2, <1>3, <1>4, <1>5 DEF Delete
LEMMA PollWorks ==
  ASSUME IInv, NEW p \in Processes, Poll(p)
  PROVE  Works(p)' /\ Others(p) /\ IsTransaction(tx'[p])
  <1>0. TypeOK /\ Works(p)
    BY DEF IInv, Working
  <1>1. CASE PollBegin(p)
    <2>1. "POLL" \in Kinds /\ 0 \in 0..MaxTeam /\ 0 \in 0..MaxChallenge
      BY SizesAssumption DEF Kinds
    <2>2. BeginAfter(p, "POLL", 0, 0, {}, {})
      BY <1>1 DEF PollBegin, Begin
    <2>3. /\ Others(p) /\ IsTransaction(tx'[p])
          /\ tx'[p].kind = "POLL" /\ tx'[p].step = 1 /\ tx'[p].held = {} /\ tx'[p].want = {}
      BY <1>0, <2>1, <2>2, BeginSets
    <2> QED BY <2>3 DEF Works, Polls
  <1>2. CASE PollFail(p)
    BY <1>0, <1>2, EndsSets, EndWorks DEF PollFail
  <1>3. CASE PollAnswered(p)
    <2> DEFINE rows == {Period}
    <2>1. /\ Polls(p) /\ tx[p].step = 1 /\ tx[p].want = {} /\ tx[p].kind = "POLL"
          /\ LockMore(p, rows)
      BY <1>0, <1>3 DEF Works, PollAnswered, At
    <2>2. rows \in SUBSET Rows
      BY DEF Rows
    <2>3. /\ Others(p) /\ IsTransaction(tx'[p]) /\ Continues(p)
          /\ tx'[p].step = 2 /\ tx'[p].held = tx[p].held /\ tx'[p].want = rows
      <3> HIDE DEF rows
      <3> QED BY <1>0, <2>1, <2>2, LockMoreSets
    <2>4. tx'[p].held = {} /\ tx'[p].kind = "POLL"
      BY <2>1, <2>3 DEF Polls, Continues
    <2>5. LocksFirst(p, {Period})'
      BY <2>3, <2>4, FirstLocks
    <2> QED BY <2>3, <2>4, <2>5 DEF Works, Polls
  <1>4. CASE PollLockTeams(p)
    <2>1. /\ Polls(p) /\ tx[p].step = 2 /\ tx[p].want = {} /\ tx[p].kind = "POLL"
      BY <1>0, <1>4 DEF Works, PollLockTeams, At
    <2>2. CASE ~StillOpen
      BY <1>0, <1>4, <2>2, EndsSets, EndWorks DEF PollLockTeams, EndsUnchanged
    <2>3. CASE StillOpen
      <3> DEFINE rows == TeamRows(teams)
      <3>1. LockMore(p, rows) /\ LocksFirst(p, {Period}) /\ period # "APPLIED"
        BY <1>4, <2>1, <2>3 DEF PollLockTeams, Polls, StillOpen
      <3>2. rows \in SUBSET Rows /\ teams \in SUBSET Teams
        BY <1>0 DEF TypeOK, Rows, TeamRows
      <3>3. /\ Others(p) /\ IsTransaction(tx'[p]) /\ Continues(p)
            /\ tx'[p].step = 3 /\ tx'[p].held = tx[p].held /\ tx'[p].want = rows
        <4> HIDE DEF rows
        <4> QED BY <1>0, <2>1, <3>1, <3>2, LockMoreSets
      <3>4. UnchangedData
        BY <3>1 DEF LockMore
      <3>5. LocksTeams(p, {Period}, {})'
        <4>1. tx[p].held \subseteq {Period} /\ \A r \in {Period} : r \in tx[p].held \/ ~Exists(r)
          BY <2>1, <3>1 DEF LocksFirst, Secured
        <4>2. rows \subseteq TeamRows(Teams)
          BY <3>2 DEF TeamRows
        <4>3. \A r : Exists(r) <=> Exists(r)'
          BY <3>4 DEF Exists, UnchangedData
        <4> HIDE DEF rows
        <4> QED BY <3>3, <4>1, <4>2, <4>3 DEF LocksTeams
      <3>6. tx'[p].kind = "POLL" /\ period' # "APPLIED"
        BY <2>1, <3>1, <3>3, <3>4 DEF Continues, UnchangedData
      <3> QED BY <3>3, <3>5, <3>6 DEF Works, Polls
    <2> QED BY <2>2, <2>3
  <1>5. CASE PollCommit(p)
    BY <1>0, <1>5, EndsSets, EndWorks DEF PollCommit
  <1> QED BY <1>1, <1>2, <1>3, <1>4, <1>5 DEF Poll

LEMMA LockOnlyWorks ==
  ASSUME IInv, NEW p \in Processes, NEW t \in teams, NEW c \in Challenges, LockOnly(p, t, c)
  PROVE  Works(p)' /\ Others(p) /\ IsTransaction(tx'[p])
  <1>0. TypeOK /\ t \in Teams /\ t \in 0..MaxTeam /\ c \in 0..MaxChallenge
    BY DEF IInv, TypeOK, Teams, Challenges
  <1>1. OpenRows(t, c) \in SUBSET Rows /\ AcceptRows(t, c) \in SUBSET Rows
    BY <1>0, RowsOfKeys DEF OpenRows, AcceptRows
  <1>2. CASE Begin(p, "OPEN", t, c, OpenRows(t, c))
    <2>1. BeginAfter(p, "OPEN", t, c, {}, OpenRows(t, c)) /\ "OPEN" \in Kinds
      BY <1>2 DEF Begin, Kinds
    <2>2. /\ Others(p) /\ IsTransaction(tx'[p])
          /\ tx'[p].kind = "OPEN" /\ tx'[p].team = t /\ tx'[p].challenge = c
          /\ tx'[p].held = {} /\ tx'[p].want = OpenRows(t, c)
      BY <1>0, <1>1, <2>1, BeginSets
    <2>3. LocksFirst(p, OpenRows(t, c))'
      BY <2>2, FirstLocks DEF OpenRows
    <2> QED BY <1>0, <2>2, <2>3 DEF Works, LocksOnly, OpenRows
  <1>3. CASE Begin(p, "ACCEPT_EXE", t, c, AcceptRows(t, c))
    <2>1. BeginAfter(p, "ACCEPT_EXE", t, c, {}, AcceptRows(t, c)) /\ "ACCEPT_EXE" \in Kinds
      BY <1>3 DEF Begin, Kinds
    <2>2. /\ Others(p) /\ IsTransaction(tx'[p])
          /\ tx'[p].kind = "ACCEPT_EXE" /\ tx'[p].team = t /\ tx'[p].challenge = c
          /\ tx'[p].held = {} /\ tx'[p].want = AcceptRows(t, c)
      BY <1>0, <1>1, <2>1, BeginSets
    <2>3. LocksFirst(p, AcceptRows(t, c))'
      BY <2>2, FirstLocks DEF AcceptRows
    <2> QED BY <1>0, <2>2, <2>3 DEF Works, LocksOnly, AcceptRows
  <1> QED BY <1>2, <1>3 DEF LockOnly

LEMMA StepWorks ==
  ASSUME IInv, NEW p \in Processes, Step(p)
  PROVE  Works(p)' /\ Others(p) /\ IsTransaction(tx'[p])
  <1>0. TypeOK
    BY DEF IInv
  <1>1. CASE Lock(p)
    BY <1>0, <1>1, LockSets, LockWorks
  <1>2. CASE LockOnlyEnd(p) \/ RollBack(p)
    BY <1>0, <1>2, EndsSets, EndWorks DEF LockOnlyEnd, RollBack, EndsUnchanged
  <1> QED BY <1>1, <1>2, SubmitWorks, RevokeWorks, RescoreWorks, DeleteWorks, PollWorks,
             LockOnlyWorks DEF Step
-----------------------------------------------------------------------------
(* Every step isolates, and keeps the standings *)

LEMMA QuietStep ==
  ASSUME StandingsFollowSolves, NEW p, UnchangedData
  PROVE  Isolates(p) /\ StandingsFollowSolves'
  <1>1. Isolates(p)
    BY DEF Isolates, UnchangedData
  <1>2. StandingsFollowSolves'
    BY DEF StandingsFollowSolves, UnchangedData
  <1> QED BY <1>1, <1>2

\* The steps that write what they compute under their locks.
Writes(p) ==
  SubmitCommit(p) \/ RevokeCommit(p) \/ RescoreCommit(p) \/ DeleteCommit(p)
    \/ PollFail(p) \/ PollCommit(p)

LEMMA QuietOrWrites ==
  ASSUME NEW p \in Processes, Step(p)
  PROVE  UnchangedData \/ Writes(p)
  <1>1. CASE Submit(p)
    BY <1>1 DEF Submit, SubmitBegin, SubmitLockTeams, SubmitCompute, Begin, BeginAfter, LockMore,
                Computes, EndsUnchanged, Writes
  <1>2. CASE Revoke(p)
    BY <1>2 DEF Revoke, RevokeBegin, RevokeLockTeams, RevokeCompute, Begin, BeginAfter, LockMore,
                Computes, EndsUnchanged, Writes
  <1>3. CASE Rescore(p)
    BY <1>3 DEF Rescore, RescoreBegin, RescoreLockTeams, RescoreCompute, Begin, BeginAfter,
                LockMore, Writes
  <1>4. CASE Delete(p)
    <2>1. DeleteCascade(p) => UnchangedData
      BY DEF DeleteCascade, LockMore, EndsUnchanged
    <2> QED BY <1>4, <2>1 DEF Delete, DeleteBegin, DeleteLockTeams, DeleteCompute, BeginAfter,
                              LockMore, Computes, Writes
  <1>5. CASE Poll(p)
    BY <1>5 DEF Poll, PollBegin, PollAnswered, PollLockTeams, Begin, BeginAfter, LockMore,
                EndsUnchanged, Writes
  <1>6. CASE \E t \in teams, c \in Challenges : LockOnly(p, t, c)
    BY <1>6 DEF LockOnly, Begin, BeginAfter
  <1>7. CASE LockOnlyEnd(p) \/ Lock(p) \/ RollBack(p)
    BY <1>7 DEF LockOnlyEnd, Lock, RollBack, EndsUnchanged
  <1> QED BY <1>1, <1>2, <1>3, <1>4, <1>5, <1>6, <1>7 DEF Step

LEMMA PollWrites ==
  ASSUME IInv, NEW p \in Processes, PollFail(p) \/ PollCommit(p)
  PROVE  /\ Isolates(p) /\ StandingsFollowSolves'
         /\ UNCHANGED <<teams, solves, scoring>>
  <1>1. UNCHANGED <<teams, solves, scoring, worth, score, mileage>>
    BY DEF PollFail, PollCommit
  <1>2. StandingsFollowSolves'
    BY <1>1 DEF IInv, StandingsFollowSolves
  <1>3. Period \notin tx[p].held => (period = "APPLIED" <=> period' = "APPLIED")
    <2>1. CASE PollFail(p)
      BY <2>1 DEF PollFail
    <2>2. CASE PollCommit(p)
      <3>1. Polls(p) /\ tx[p].step = 3
        BY <2>2 DEF IInv, Working, Works, PollCommit, At
      <3>2. Period \in tx[p].held
        BY <3>1 DEF Polls, LocksTeams, Exists, Period
      <3> QED BY <3>2
    <2> QED BY <2>1, <2>2
  <1>4. Isolates(p)
    BY <1>1, <1>3 DEF Isolates
  <1> QED BY <1>1, <1>2, <1>4

LEMMA StepIsolates ==
  ASSUME IInv, NEW p \in Processes, Step(p)
  PROVE  Isolates(p) /\ StandingsFollowSolves'
  BY QuietOrWrites, QuietStep, PollWrites, SubmitCommits, RevokeCommits, RescoreCommits,
     DeleteCommits DEF Writes, IInv
-----------------------------------------------------------------------------
(* The rest of the invariant *)

DataOK ==
  /\ teams \subseteq Teams
  /\ solves \subseteq Teams \X Challenges
  /\ scoring \in [Challenges -> Scorings]
  /\ DOMAIN worth = Challenges /\ DOMAIN score = Teams
  /\ mileage \in [Teams -> Int]
  /\ period \in {"PENDING", "FAILED", "APPLIED"}
  /\ awards \in [Teams -> Nat]

LEMMA WritesData ==
  ASSUME IInv, NEW p \in Processes, Writes(p)
  PROVE  DataOK' /\ SolvesOfTeams'
  <1>0. TypeOK /\ Works(p) /\ SolvesOfTeams
    BY DEF IInv, Working
  <1>1. DataOK
    BY <1>0 DEF TypeOK, DataOK
  <1>2. Publish(p) => DOMAIN worth' = Challenges /\ DOMAIN score' = Teams
    BY DEF Publish
  <1>3. CASE SubmitCommit(p)
    <2>1. Submits(p) /\ tx[p].step = 3
      BY <1>0, <1>3 DEF Works, SubmitCommit, At
    <2>2. tx[p].team \in Teams /\ tx[p].challenge \in Challenges /\ tx[p].team \in teams
      BY <2>1 DEF Submits, SubmitRefused
    <2>3. /\ solves' = solves \cup {<<tx[p].team, tx[p].challenge>>}
          /\ mileage' = [mileage EXCEPT ![tx[p].team] = @ + 1] /\ Publish(p)
          /\ UNCHANGED <<teams, scoring, period, awards>>
      BY <1>3 DEF SubmitCommit, Solve
    <2>4. mileage' \in [Teams -> Int]
      BY <1>1, <2>2, <2>3 DEF DataOK
    <2>5. solves' \subseteq Teams \X Challenges
      BY <1>1, <2>2, <2>3 DEF DataOK
    <2>6. SolvesOfTeams'
      BY <1>0, <2>2, <2>3 DEF SolvesOfTeams
    <2> QED BY <1>1, <1>2, <2>3, <2>4, <2>5, <2>6 DEF DataOK
  <1>4. CASE RevokeCommit(p)
    <2>1. Revokes(p)
      BY <1>0, <1>4 DEF Works, RevokeCommit, At
    <2>2. tx[p].team \in Teams
      BY <2>1 DEF Revokes
    <2>3. /\ solves' = solves \ {Solve(p)}
          /\ mileage' = [mileage EXCEPT ![tx[p].team] = @ - 1] /\ Publish(p)
          /\ UNCHANGED <<teams, scoring, period, awards>>
      BY <1>4 DEF RevokeCommit
    <2>4. mileage' \in [Teams -> Int]
      BY <1>1, <2>2, <2>3 DEF DataOK
    <2>5. solves' \subseteq Teams \X Challenges /\ SolvesOfTeams'
      BY <1>0, <1>1, <2>3 DEF DataOK, SolvesOfTeams
    <2> QED BY <1>1, <1>2, <2>3, <2>4, <2>5 DEF DataOK
  <1>5. CASE RescoreCommit(p)
    <2>1. Rescores(p) /\ tx[p].step = 3
      BY <1>0, <1>5 DEF Works, RescoreCommit, At
    <2>2. tx[p].scoring \in Scorings
      BY <2>1 DEF Rescores
    <2>3. /\ scoring' = [scoring EXCEPT ![tx[p].challenge] = tx[p].scoring] /\ Publish(p)
          /\ UNCHANGED <<teams, solves, mileage, period, awards>>
      BY <1>5 DEF RescoreCommit
    <2>4. scoring' \in [Challenges -> Scorings]
      BY <1>1, <2>2, <2>3 DEF DataOK
    <2> QED BY <1>0, <1>1, <1>2, <2>3, <2>4 DEF DataOK, SolvesOfTeams
  <1>6. CASE DeleteCommit(p)
    <2>1. /\ teams' = teams \ {tx[p].team} /\ solves' = solves \ ({tx[p].team} \X Challenges)
          /\ Publish(p) /\ UNCHANGED <<scoring, mileage, period, awards>>
      BY <1>6 DEF DeleteCommit, DeleteRemaining
    <2>2. SolvesOfTeams'
      BY <1>0, <2>1 DEF SolvesOfTeams
    <2>3. teams' \subseteq Teams /\ solves' \subseteq Teams \X Challenges
      BY <1>1, <2>1 DEF DataOK
    <2> QED BY <1>1, <1>2, <2>1, <2>2, <2>3 DEF DataOK
  <1>7. CASE PollFail(p)
    BY <1>0, <1>1, <1>7 DEF DataOK, SolvesOfTeams, PollFail
  <1>8. CASE PollCommit(p)
    <2>1. awards' \in [Teams -> Nat]
      BY <1>1, <1>8 DEF DataOK, PollCommit
    <2> QED BY <1>0, <1>1, <1>8, <2>1 DEF DataOK, SolvesOfTeams, PollCommit
  <1> QED BY <1>3, <1>4, <1>5, <1>6, <1>7, <1>8 DEF Writes

LEMMA StepData ==
  ASSUME IInv, NEW p \in Processes, Step(p)
  PROVE  DataOK' /\ SolvesOfTeams'
  <1>1. CASE UnchangedData
    BY <1>1 DEF IInv, TypeOK, DataOK, SolvesOfTeams, UnchangedData
  <1> QED BY <1>1, QuietOrWrites, WritesData

LEMMA StepTypes ==
  ASSUME IInv, NEW p \in Processes, Step(p)
  PROVE  TypeOK'
  <1>1. Others(p) /\ IsTransaction(tx'[p]) /\ TypeOK
    BY StepWorks DEF IInv
  <1>2. \A q \in Processes : IsTransaction(tx'[q])
    BY <1>1 DEF Others, TypeOK
  <1>3. DOMAIN tx' = Processes
    BY <1>1 DEF Others
  <1> QED BY <1>2, <1>3, StepData DEF DataOK, TypeOK

\* Only a granted row is new.
LEMMA NewlyHeld ==
  ASSUME IInv, NEW p \in Processes, Step(p), NEW r \in tx'[p].held
  PROVE  r \in tx[p].held \/ (Lock(p) /\ Free(p, r) /\ Exists(r))
  <1>0. TypeOK
    BY DEF IInv
  <1>1. CASE Lock(p)
    <2>1. PICK s \in tx[p].want : Grants(p, s)
      BY <1>0, <1>1, LockSets
    <2> QED BY <1>1, <2>1 DEF Grants
  <1>2. ASSUME NEW kind, NEW t, NEW c, NEW read, NEW rows, BeginAfter(p, kind, t, c, read, rows)
        PROVE  FALSE
    <2>1. tx'[p].held = {}
      BY <1>0, <1>2 DEF BeginAfter, TypeOK
    <2> QED BY <2>1
  <1>3. ASSUME NEW rows, LockMore(p, rows)
        PROVE  r \in tx[p].held
    <2>1. tx'[p] = [tx[p] EXCEPT !.step = @ + 1, !.want = rows] /\ IsTransaction(tx[p])
      BY <1>0, <1>3 DEF LockMore, TypeOK
    <2>2. tx'[p].held = tx[p].held
      BY <2>1, StepAndWant DEF Transaction
    <2> QED BY <2>2
  <1>4. ASSUME NEW result, Computes(p, result)
        PROVE  r \in tx[p].held
    <2>1. tx'[p] = [tx[p] EXCEPT !.step = @ + 1, !.new = result] /\ IsTransaction(tx[p])
      BY <1>0, <1>4 DEF Computes, TypeOK
    <2>2. tx'[p].held = tx[p].held
      BY <2>1, StepAndNew, ZenonT(60) DEF Transaction
    <2> QED BY <2>2
  <1>5. ~Ends(p)
    BY <1>0, EndsSets
  <1>6. CASE Submit(p) \/ Revoke(p)
    BY <1>2, <1>3, <1>4, <1>5, <1>6
       DEF Submit, SubmitBegin, SubmitLockTeams, SubmitCompute, SubmitCommit, Begin,
           Revoke, RevokeBegin, RevokeLockTeams, RevokeCompute, RevokeCommit, EndsUnchanged
  <1>7. CASE Rescore(p)
    <2>1. ASSUME NEW g \in Scorings, RescoreCompute(p, g)
          PROVE  r \in tx[p].held
      <3>1. tx'[p].held = tx[p].held
        BY <1>0, <2>1 DEF RescoreCompute, TypeOK, IsTransaction
      <3> QED BY <3>1
    <2> QED BY <1>2, <1>3, <1>5, <1>7, <2>1
            DEF Rescore, RescoreBegin, RescoreLockTeams, RescoreCommit, Begin
  <1>8. CASE Delete(p)
    <2>1. ASSUME DeleteCascade(p)
          PROVE  r \in tx[p].held
      <3> DEFINE t == tx[p].team
      <3>1. \/ LockMore(p, {State(t)})
            \/ tx' = [tx EXCEPT ![p].held = {}, ![p].read = SolvedBy(solves, t),
                                ![p].want = DeleteRows(t)]
        BY <1>5, <2>1 DEF DeleteCascade, EndsUnchanged
      <3>2. CASE tx' = [tx EXCEPT ![p].held = {}, ![p].read = SolvedBy(solves, t),
                                  ![p].want = DeleteRows(t)]
        BY <1>0, <3>2 DEF TypeOK, IsTransaction
      <3> QED BY <1>3, <3>1, <3>2
    <2> QED BY <1>2, <1>3, <1>4, <1>5, <1>8, <2>1
            DEF Delete, DeleteBegin, DeleteLockTeams, DeleteCompute, DeleteCommit
  <1>9. CASE Poll(p)
    BY <1>2, <1>3, <1>5, <1>9
       DEF Poll, PollBegin, PollFail, PollAnswered, PollLockTeams, PollCommit, Begin, EndsUnchanged
  <1>10. CASE \E t \in teams, c \in Challenges : LockOnly(p, t, c)
    BY <1>2, <1>10 DEF LockOnly, Begin
  <1>11. CASE LockOnlyEnd(p) \/ RollBack(p)
    BY <1>5, <1>11 DEF LockOnlyEnd, RollBack, EndsUnchanged
  <1> QED BY <1>1, <1>6, <1>7, <1>8, <1>9, <1>10, <1>11 DEF Step

\* A team goes with its deletion, which holds its rows.
LEMMA TeamsGo ==
  ASSUME IInv, NEW p \in Processes, Step(p), NEW t \in teams \ teams'
  PROVE  /\ State(t) \in tx[p].held /\ Team(t) \in tx[p].held
         /\ tx'[p].held = {}
  <1>0. TypeOK /\ Works(p)
    BY DEF IInv, Working
  <1>1. DeleteCommit(p)
    BY QuietOrWrites DEF UnchangedData, Writes, SubmitCommit, RevokeCommit, RescoreCommit,
                         PollFail, PollCommit
  <1>2. DeletesTeam(p) /\ tx[p].step = 4 /\ t = tx[p].team
    BY <1>0, <1>1 DEF Works, DeleteCommit, At
  <1>3. Team(t) \in tx[p].held /\ State(t) \in tx[p].held
    BY <1>2 DEF DeletesTeam, Secured, Exists, State
  <1>4. Ends(p)
    BY <1>1 DEF DeleteCommit
  <1> QED BY <1>0, <1>3, <1>4, EndsSets

LEMMA StepExclusive ==
  ASSUME IInv, NEW p \in Processes, Step(p)
  PROVE  Exclusive'
  <1>1. \A q \in Processes \ {p} : tx'[q] = tx[q]
    BY StepWorks DEF Others
  <1>2. Exclusive
    BY DEF IInv
  <1>3. ASSUME NEW r \in tx'[p].held, NEW q \in Processes \ {p}
        PROVE  r \notin tx'[q].held
    BY <1>1, <1>2, <1>3, NewlyHeld DEF Exclusive, Free
  <1>4. ASSUME NEW q \in Processes, NEW r \in tx'[q].held
        PROVE  Exists(r)'
    <2>1. Exists(r)
      BY <1>1, <1>2, <1>4, NewlyHeld DEF Exclusive
    <2>2. ASSUME ~Exists(r)'
          PROVE  FALSE
      <3>1. r[1] \in {"state", "team"} /\ r[2] \in teams \ teams'
        BY <2>1, <2>2 DEF Exists
      <3>2. tx'[q].held \subseteq Rows
        BY StepTypes DEF TypeOK, IsTransaction
      <3>3. r = State(r[2]) \/ r = Team(r[2])
        BY <1>4, <3>1, <3>2 DEF Rows, State, Team, Period
      <3>4. r \in tx[p].held /\ tx'[p].held = {}
        BY <3>1, <3>3, TeamsGo
      <3> QED BY <1>1, <1>2, <1>4, <3>4 DEF Exclusive
    <2> QED BY <2>2
  <1> QED BY <1>1, <1>2, <1>3, <1>4 DEF Exclusive

LEMMA StepInvariant ==
  ASSUME IInv, NEW p \in Processes, Step(p)
  PROVE  IInv'
  <1>1. Works(p)' /\ Others(p)
    BY StepWorks
  <1>2. Isolates(p) /\ StandingsFollowSolves'
    BY StepIsolates
  <1>3. TypeOK' /\ SolvesOfTeams' /\ scoring' \in [Challenges -> Scorings]
    BY StepTypes, StepData DEF DataOK
  <1>4. \A q \in Processes \ {p} : Works(q)'
    BY <1>1, <1>2, <1>3, StayWorking
  <1>5. Working'
    BY <1>1, <1>4 DEF Working
  <1> QED BY <1>2, <1>3, <1>5, StepExclusive DEF IInv
-----------------------------------------------------------------------------
(***************************************************************************)
(* The dynamic score.                                                      *)
(***************************************************************************)

\* A set of numbers has a least one.
LEMMA LeastNumber ==
  ASSUME NEW T, T \subseteq Nat, T # {}
  PROVE  \E m \in T : \A k \in T : m <= k
<1>1. \E m \in T : \A k \in T : <<k, m>> \notin OpToRel(<, Nat)
  BY NatLessThanWellFounded, WFMin
<1>2. \A k, m \in Nat : k < m => <<k, m>> \in OpToRel(<, Nat)
  BY DEF OpToRel
<1>3. \A k, m \in Nat : ~(k < m) => m <= k
  OBVIOUS
<1>4. QED  BY <1>1, <1>2, <1>3

\* The powers of ten exist: otherwise there would be a least number of them
\* that does not.
LEMMA PowersOfTen ==
  /\ TenTo[0] = 1
  /\ \A k \in 1..(Digits + 1) : TenTo[k] = 10 * TenTo[k - 1]
<1> DEFINE Are(v, n) == v = [k \in 0..n |-> IF k = 0 THEN 1 ELSE 10 * v[k - 1]]
           Not == {n \in Nat : ~ \E v : Are(v, n)}
<1>1. \E v : Are(v, 0)
  <2>1. [k \in 0..0 |-> 1] = [k \in 0..0 |-> IF k = 0 THEN 1 ELSE 10 * [j \in 0..0 |-> 1][k - 1]]
    OBVIOUS
  <2>2. QED  BY <2>1
<1>2. ASSUME NEW n \in Nat, \E v : Are(v, n)
      PROVE  \E v : Are(v, n + 1)
  <2>1. PICK v : Are(v, n)
    BY <1>2
  <2> DEFINE w == [k \in 0..(n + 1) |-> IF k = n + 1 THEN 10 * v[n] ELSE v[k]]
  <2>2. ASSUME NEW k \in 0..(n + 1)
        PROVE  w[k] = IF k = 0 THEN 1 ELSE 10 * w[k - 1]
    <3>1. CASE k = n + 1
      <4>1. w[k] = 10 * v[n] /\ w[k - 1] = v[n] /\ k # 0
        BY <3>1
      <4>2. QED  BY <4>1
    <3>2. CASE k # n + 1
      <4>1. k \in 0..n /\ w[k] = v[k] /\ (k # 0 => w[k - 1] = v[k - 1])
        BY <3>2
      <4>2. v[k] = IF k = 0 THEN 1 ELSE 10 * v[k - 1]
        BY <2>1, <4>1
      <4>3. QED  BY <4>1, <4>2
    <3>3. QED  BY <3>1, <3>2
  <2>3. DOMAIN w = 0..(n + 1) /\ w = [k \in 0..(n + 1) |-> w[k]]
    OBVIOUS
  <2> HIDE DEF w
  <2>4. w = [k \in 0..(n + 1) |-> IF k = 0 THEN 1 ELSE 10 * w[k - 1]]
    BY <2>2, <2>3, Zenon
  <2>5. QED  BY <2>4
<1>3. Not = {}
  <2> SUFFICES ASSUME Not # {}
               PROVE  FALSE
    OBVIOUS
  <2>1. PICK n \in Not : \A k \in Not : n <= k
    <3>1. Not \subseteq Nat
      OBVIOUS
    <3> HIDE DEF Not
    <3>2. QED  BY <3>1, LeastNumber
  <2> HIDE DEF Are
  <2>2. n # 0 /\ n - 1 \in Nat /\ ~(n <= n - 1)
    BY <1>1, <2>1
  <2>3. (\E v : Are(v, n - 1)) /\ (n - 1) + 1 = n
    BY <2>1, <2>2
  <2>4. QED  BY <1>2, <2>1, <2>2, <2>3
<1>4. \E v : Are(v, Digits + 1)
  <2>1. Digits + 1 \in Nat
    BY DigitsAssumption
  <2> HIDE DEF Are
  <2>2. QED  BY <1>3, <2>1
<1>5. Are(TenTo, Digits + 1)
  BY <1>4 DEF TenTo
<1>6. QED  BY <1>5, DigitsAssumption

\* They are positive numbers.
LEMMA PowersArePositive == \A k \in 0..(Digits + 1) : TenTo[k] \in Nat \ {0}
<1> DEFINE Not == {k \in 0..(Digits + 1) : TenTo[k] \notin Nat \ {0}}
<1> SUFFICES ASSUME Not # {}
             PROVE  FALSE
  OBVIOUS
<1>1. PICK n \in Not : \A k \in Not : n <= k
  <2>1. Not \subseteq Nat
    OBVIOUS
  <2> HIDE DEF Not
  <2>2. QED  BY <2>1, LeastNumber
<1>2. n \in 1..(Digits + 1) /\ n - 1 \in 0..(Digits + 1) /\ ~(n <= n - 1)
  BY PowersOfTen, DigitsAssumption
<1>3. TenTo[n - 1] \in Nat \ {0}
  BY <1>1, <1>2
<1>4. TenTo[n] = 10 * TenTo[n - 1]
  BY <1>2, PowersOfTen
<1>5. QED  BY <1>3, <1>4

\* A set of scales has a greatest one.
LEMMA GreatestScale ==
  ASSUME NEW S, S \subseteq 0..(Digits + 1), S # {}
  PROVE  Max(S) \in S /\ \A s \in S : s <= Max(S)
<1> DEFINE N == Digits + 1
           T == {N - s : s \in S}
<1>1. T \subseteq Nat /\ T # {}
  <2>1. \A s \in S : N - s \in Nat
    BY DigitsAssumption
  <2> HIDE DEF N
  <2>2. QED  BY <2>1
<1>2. PICK t \in T : \A u \in T : t <= u
  <2> HIDE DEF T
  <2>1. QED  BY <1>1, LeastNumber
<1>3. PICK m \in S : t = N - m
  OBVIOUS
<1>4. \A s \in S : m >= s
  BY <1>2, <1>3, DigitsAssumption
<1>5. Max(S) \in S /\ \A s \in S : Max(S) >= s
  BY <1>4 DEF Max
<1>6. QED  BY <1>5, DigitsAssumption

\* A number that is a multiple of what it is divided by is not rounded.
LEMMA NearestOfMultiple ==
  ASSUME NEW a \in Nat, NEW den \in Nat \ {0}
  PROVE  Nearest(a * den, den) = a
<1> DEFINE b == a * den
<1>1. b \div den = a /\ b % den = 0
  OBVIOUS
<1> HIDE DEF b
<1>2. Nearest(b, den) = a
  BY <1>1 DEF Nearest
<1>3. QED  BY <1>2 DEF b

\* A number of at most Digits digits has a scale.
LEMMA HasScale ==
  ASSUME NEW num \in Nat, NEW den \in Nat \ {0}, num < den * TenTo[Digits]
  PROVE  \E s \in 0..(Digits + 1) : Rounded(num, den) = [num |-> Nearest(num * TenTo[s], den), den |-> TenTo[s]]
<1> DEFINE S == {s \in 0..(Digits + 1) : 10 * num < den * TenTo[Digits + 1 - s]}
           p == TenTo[Digits]
<1>1. 0 \in S
  <2>1. TenTo[Digits + 1 - 0] = 10 * p
    <3>1. Digits + 1 \in 1..(Digits + 1) /\ (Digits + 1) - 1 = Digits /\ Digits + 1 - 0 = Digits + 1
      BY DigitsAssumption
    <3>2. QED  BY <3>1, PowersOfTen
  <2>2. p \in Nat
    BY PowersArePositive, DigitsAssumption
  <2> HIDE DEF p
  <2>3. 10 * num < den * (10 * p)
    <3>1. num < den * p
      BY DEF p
    <3>2. QED  BY <2>2, <3>1
  <2>4. QED  BY <2>1, <2>3, DigitsAssumption
<1>2. S \subseteq 0..(Digits + 1)
  OBVIOUS
<1>3. Rounded(num, den) = [num |-> Nearest(num * TenTo[Max(S)], den), den |-> TenTo[Max(S)]]
  BY DEF Rounded
<1> HIDE DEF S
<1>4. Max(S) \in 0..(Digits + 1)
  BY <1>1, <1>2, GreatestScale
<1>5. QED  BY <1>3, <1>4

\* A challenge that nobody solved is worth its initial score: no rounding on
\* the way takes a point.
THEOREM UnsolvedIsWorthInitial == \A g \in Scorings : calculate_dynamic_score(g, 0) = g.initial
<1> SUFFICES ASSUME NEW g \in Scorings
             PROVE  calculate_dynamic_score(g, 0) = g.initial
  OBVIOUS
<1> DEFINE I == g.initial
           M == g.minimum
           D == g.decay * g.decay
           quotient == Rounded(I - M, D)
           drop == Rounded(quotient.num * 0 * 0, quotient.den)
           value == Rounded(I * drop.den - drop.num, drop.den)
           p == TenTo[Digits]
<1>1. I \in Nat /\ M \in Nat /\ M <= I /\ D \in Nat \ {0} /\ I < p
  <2>1. g.decay \in Nat \ {0} /\ I \in Nat /\ M \in Nat /\ M <= I /\ I < p
    BY ScoringsAssumption
  <2>2. QED  BY <2>1
<1>2. p \in Nat \ {0}
  BY PowersArePositive, DigitsAssumption
<1>3. calculate_dynamic_score(g, 0) = IF drop.num >= (I - M) * drop.den
                                      THEN M
                                      ELSE Min({I, Max({M, Ceiling(value)})})
  BY DEF calculate_dynamic_score
<1> HIDE DEF I, M, D
<1>4. quotient.num \in Nat /\ quotient.den \in Nat \ {0}
  <2>1. I - M \in Nat /\ I - M < D * p
    <3>1. I - M < p /\ D >= 1
      BY <1>1, <1>2
    <3>2. D * p >= p
      BY <1>1, <1>2
    <3>3. QED  BY <1>1, <1>2, <3>1, <3>2
  <2>2. PICK s \in 0..(Digits + 1) :
          quotient = [num |-> Nearest((I - M) * TenTo[s], D), den |-> TenTo[s]]
    BY <1>1, <2>1, HasScale
  <2>3. TenTo[s] \in Nat \ {0}
    BY PowersArePositive
  <2>4. (I - M) * TenTo[s] \in Nat
    BY <2>1, <2>3
  <2>5. Nearest((I - M) * TenTo[s], D) \in Nat
    BY <1>1, <2>4 DEF Nearest
  <2>6. QED  BY <2>2, <2>3, <2>5
<1> HIDE DEF quotient
<1>5. drop.num = 0 /\ drop.den \in Nat \ {0}
  <2>1. quotient.num * 0 * 0 = 0
    BY <1>4
  <2>2. 0 < quotient.den * p
    BY <1>2, <1>4
  <2>3. PICK s \in 0..(Digits + 1) :
          drop = [num |-> Nearest(0 * TenTo[s], quotient.den), den |-> TenTo[s]]
    BY <1>4, <2>1, <2>2, HasScale
  <2>4. TenTo[s] \in Nat \ {0}
    BY PowersArePositive
  <2>5. Nearest(0 * TenTo[s], quotient.den) = 0
    <3>1. 0 * TenTo[s] = 0 * quotient.den
      BY <1>4, <2>4
    <3>2. QED  BY <1>4, <3>1, NearestOfMultiple
  <2>6. QED  BY <2>3, <2>4, <2>5
<1> HIDE DEF drop
<1>6. Ceiling(value) = I
  <2> DEFINE num == I * drop.den
  <2>1. I * drop.den - drop.num = num /\ num \in Nat /\ num < drop.den * p
    BY <1>1, <1>2, <1>5
  <2>2. PICK s \in 0..(Digits + 1) :
          value = [num |-> Nearest(num * TenTo[s], drop.den), den |-> TenTo[s]]
    <3> HIDE DEF num
    <3>1. QED  BY <1>5, <2>1, HasScale
  <2> DEFINE t == TenTo[s]
  <2>3. t \in Nat \ {0}
    BY PowersArePositive
  <2> HIDE DEF t
  <2>4. Nearest(num * t, drop.den) = I * t
    <3>1. num * t = (I * t) * drop.den /\ I * t \in Nat
      BY <1>1, <1>5, <2>3
    <3> HIDE DEF num
    <3>2. QED  BY <1>5, <3>1, NearestOfMultiple
  <2>5. value.num = I * t /\ value.den = t
    BY <2>2, <2>4 DEF t
  <2>6. (I * t + t - 1) \div t = I
    BY <1>1, <2>3
  <2> HIDE DEF value
  <2>7. QED  BY <2>5, <2>6 DEF Ceiling
<1>7. CASE I = M
  <2>1. (I - M) * drop.den = 0
    BY <1>1, <1>5, <1>7
  <2>2. QED  BY <1>3, <1>5, <1>7, <2>1 DEF I
<1>8. CASE I # M
  <2>1. ~(drop.num >= (I - M) * drop.den)
    <3>1. I - M \in Nat \ {0}
      BY <1>1, <1>8
    <3>2. (I - M) * drop.den \in Nat \ {0}
      BY <1>5, <3>1
    <3> DEFINE k == (I - M) * drop.den
    <3>3. k \in Nat \ {0} /\ drop.num = 0
      BY <1>5, <3>2
    <3> HIDE DEF k
    <3>4. ~(drop.num >= k)
      BY <3>3
    <3>5. QED  BY <3>4 DEF k
  <2>2. Max({M, I}) = I
    BY <1>1 DEF Max
  <2>3. Min({I, I}) = I
    BY <1>1 DEF Min
  <2>4. QED  BY <1>3, <1>6, <2>1, <2>2, <2>3 DEF I
<1>9. QED  BY <1>7, <1>8

-----------------------------------------------------------------------------
(* The initial states *)

LEMMA SumOfNothing ==
  ASSUME NEW f, DOMAIN f = {}
  PROVE  SumFunction(f) = 0
  BY DEF SumFunction, SumFunctionOnSet, FoldFunctionOnSet, MapThenFoldSet

LEMMA InitialStandings ==
  ASSUME Init
  PROVE  StandingsFollowSolves
  <1>1. \A c \in Challenges : Solvers(solves, c) = {}
    BY DEF Init, Solvers
  <1>2. \A t : SolvedBy(solves, t) = {}
    BY DEF Init, SolvedBy
  <1>3. Cardinality({}) = 0
    BY FS_EmptySet
  <1>4. \A g \in Scorings : Dynamic[g][0] = g.initial
    <2>1. 0 \in 0..(MaxTeam + 1)
      BY SizesAssumption
    <2> QED BY <2>1, UnsolvedIsWorthInitial DEF Dynamic
  <1>5. \A c \in Challenges : worth[c] = Worth(solves, scoring, c)
    BY <1>1, <1>3, <1>4 DEF Init, Worth
  <1>6. \A t : Total(solves, worth, t) = 0
    <2> SUFFICES ASSUME NEW t
                 PROVE  Total(solves, worth, t) = 0
      OBVIOUS
    <2> DEFINE f == [c \in SolvedBy(solves, t) |-> worth[c]]
    <2>1. DOMAIN f = {}
      BY <1>2
    <2> HIDE DEF f
    <2>2. SumFunction(f) = 0
      BY <2>1, SumOfNothing
    <2> QED BY <2>2 DEF Total, f
  <1>7. \A t \in teams : /\ score[t] = Total(solves, worth, t)
                         /\ mileage[t] = Cardinality(SolvedBy(solves, t))
    BY <1>2, <1>3, <1>6 DEF Init
  <1> QED BY <1>5, <1>7 DEF StandingsFollowSolves

LEMMA InitialInvariant ==
  ASSUME Init
  PROVE  IInv
  <1>1. \A p \in Processes : tx[p] = Nothing
    BY DEF Init
  <1>2. \A p \in Processes : tx[p].kind = "NONE" /\ tx[p].held = {}
    BY <1>1 DEF Nothing
  <1>3. TypeOK
    BY <1>1, NothingIsOne DEF Init, TypeOK
  <1>4. Exclusive
    BY <1>2 DEF Exclusive
  <1>5. SolvesOfTeams
    BY DEF Init, SolvesOfTeams
  <1>6. Working
    BY <1>1, <1>2 DEF Working, Works
  <1> QED BY <1>3, <1>4, <1>5, <1>6, InitialStandings DEF IInv

LEMMA Invariant == Spec => []IInv
  <1>1. Init => IInv
    BY InitialInvariant
  <1>2. IInv /\ [Next]_vars => IInv'
    <2>1. CASE vars' = vars
      <3> SUFFICES ASSUME IInv
                   PROVE  IInv'
        OBVIOUS
      <3>0. teams' = teams /\ solves' = solves /\ scoring' = scoring /\ worth' = worth
            /\ score' = score /\ mileage' = mileage /\ period' = period /\ awards' = awards
            /\ tx' = tx
        BY <2>1 DEF vars
      <3>1. TypeOK' /\ Exclusive' /\ SolvesOfTeams' /\ StandingsFollowSolves'
        BY <3>0 DEF IInv, TypeOK, Exclusive, Exists, SolvesOfTeams, StandingsFollowSolves
      <3>2. Working'
        <4> SUFFICES ASSUME NEW p \in Processes
                     PROVE  Works(p)'
          BY DEF Working
        <4>1. Works(p)
          BY DEF IInv, Working
        <4>2. /\ \A r : Secured(p, r) <=> Secured(p, r)'
              /\ \A r : Exists(r) <=> Exists(r)'
          BY <3>0 DEF Secured, Exists
        <4>3. Submits(p) => Submits(p)'
          BY <3>0, <4>2 DEF Submits, LocksFirst, LocksTeams, Affected, SubmitRefused,
                            SubmitResult, SubmitRewrites, Solve
        <4>4. Revokes(p) => Revokes(p)'
          BY <3>0, <4>2 DEF Revokes, LocksFirst, LocksTeams, RevokeResult, Solve
        <4>5. Rescores(p) => Rescores(p)'
          BY <3>0, <4>2 DEF Rescores, LocksFirst, LocksTeams, RescoreResult
        <4>6. DeletesTeam(p) => DeletesTeam(p)'
          BY <3>0, <4>2 DEF DeletesTeam, DeleteResult, DeleteAffected, DeleteRemaining, NoNewSolve
        <4>7. Polls(p) => Polls(p)'
          BY <3>0, <4>2 DEF Polls, LocksFirst, LocksTeams
        <4>8. /\ LocksOnly(p, OpenRows(tx[p].team, tx[p].challenge))
                   => LocksOnly(p, OpenRows(tx[p].team, tx[p].challenge))'
              /\ LocksOnly(p, AcceptRows(tx[p].team, tx[p].challenge))
                   => LocksOnly(p, AcceptRows(tx[p].team, tx[p].challenge))'
          BY <3>0, <4>2 DEF LocksOnly, LocksFirst
        <4> QED BY <3>0, <4>1, <4>3, <4>4, <4>5, <4>6, <4>7, <4>8 DEF Works, Nothing
      <3> QED BY <3>1, <3>2 DEF IInv
    <2>2. ASSUME IInv, Next
          PROVE  IInv'
      BY <2>2, StepInvariant DEF Next
    <2> QED BY <2>1, <2>2
  <1> QED BY <1>1, <1>2, PTL DEF Spec

-----------------------------------------------------------------------------
(* Theorems *)

\* Every reachable state has the types of the columns and the transactions.
THEOREM TypeCorrect == Spec => []TypeOK
  <1>1. IInv => TypeOK
    BY DEF IInv
  <1> QED BY <1>1, Invariant, PTL

\* The stored scores and mileages follow from the stored solves and
\* parameters, whatever transactions overlap (update_dynamic_score_and_team_scores).
THEOREM StandingsAreRight == Spec => []StandingsFollowSolves
  <1>1. IInv => StandingsFollowSolves
    BY DEF IInv
  <1> QED BY <1>1, Invariant, PTL

\* Nothing is awarded before the period is applied.
NotYetAwarded ==
  \A t \in Teams : awards[t] <= 1 /\ (awards[t] # 0 => period = "APPLIED")

LEMMA AwardStep ==
  ASSUME IInv, NotYetAwarded, NEW p \in Processes, Step(p)
  PROVE  NotYetAwarded'
  <1>0. TypeOK /\ Works(p)
    BY DEF IInv, Working
  <1>1. CASE UnchangedData
    BY <1>1 DEF NotYetAwarded, UnchangedData
  <1>2. CASE SubmitCommit(p) \/ RevokeCommit(p) \/ RescoreCommit(p) \/ DeleteCommit(p)
    BY <1>2 DEF NotYetAwarded, SubmitCommit, RevokeCommit, RescoreCommit, DeleteCommit
  <1>3. CASE PollFail(p)
    BY <1>3 DEF NotYetAwarded, PollFail
  <1>4. CASE PollCommit(p)
    <2>1. period # "APPLIED"
      BY <1>0, <1>4 DEF Works, Polls, PollCommit, At
    <2>2. \A t \in Teams : awards[t] = 0
      BY <1>0, <2>1 DEF NotYetAwarded, TypeOK
    <2> QED BY <1>4, <2>2 DEF NotYetAwarded, PollCommit
  <1> QED BY <1>1, <1>2, <1>3, <1>4, QuietOrWrites DEF Writes

\* A KOTH period is added to a team's score once, however many polls overlap:
\* its status is read again under its lock (poll_challenge_period).
THEOREM PeriodsAreAwardedOnce == Spec => []PeriodAwardedOnce
  <1>1. Init => NotYetAwarded
    BY DEF Init, NotYetAwarded
  <1>2. IInv /\ NotYetAwarded /\ [Next]_vars => NotYetAwarded'
    BY AwardStep DEF Next, NotYetAwarded, vars
  <1>3. NotYetAwarded => PeriodAwardedOnce
    BY DEF NotYetAwarded, PeriodAwardedOnce
  <1> QED BY <1>1, <1>2, <1>3, Invariant, PTL DEF Spec
-----------------------------------------------------------------------------
(***************************************************************************)
(* Deadlocks.  Every transaction but a deletion locks rows in order, and   *)
(* all but an opening in the same one: along a chain of transactions that  *)
(* wait for each other the awaited rows ascend, and such a chain ends.     *)
(***************************************************************************)

LEMMA RowOrder ==
  /\ \A t, c, kind : Before(kind, State(t), Challenge(c)) /\ Before(kind, State(t), Team(c))
  /\ \A t, c : \A kind : kind # "OPEN" =>
       Before(kind, Challenge(c), Team(t)) /\ ~Before(kind, Team(t), Challenge(c))
  /\ \A t, c : Before("OPEN", Team(t), Challenge(c)) /\ ~Before("OPEN", Challenge(c), Team(t))
  /\ \A t, u, kind : ~Before(kind, Team(t), State(u)) /\ ~Before(kind, Challenge(t), State(u))
  /\ \A t, kind : Before(kind, Period, Team(t))
  BY DEF Before, Place, State, Team, Challenge, Period

LEMMA LockMoreRows ==
  ASSUME TypeOK, NEW p \in Processes, NEW rows, LockMore(p, rows)
  PROVE  tx'[p].held = tx[p].held /\ tx'[p].want = rows /\ tx'[p].kind = tx[p].kind
  <1>1. tx'[p] = [tx[p] EXCEPT !.step = @ + 1, !.want = rows] /\ IsTransaction(tx[p])
    BY DEF LockMore, TypeOK
  <1>2. tx'[p] = Transaction(tx[p].kind, tx[p].step + 1, tx[p].team, tx[p].challenge, tx[p].read,
                             tx[p].scoring, tx[p].held, rows, tx[p].new)
    BY <1>1, StepAndWant
  <1> QED BY <1>2 DEF Transaction

LEMMA TeamsLast ==
  ASSUME NEW p, NEW rows, NEW kind, kind # "OPEN", LocksFirst(p, rows),
         \E t \in Teams, c \in Challenges : rows \subseteq {State(t), Challenge(c), Period}
  PROVE  \A r \in tx[p].held, s \in TeamRows(Teams) : Before(kind, r, s)
  <1>1. \A s \in TeamRows(Teams) : \E t \in Teams : s = Team(t)
    BY DEF TeamRows, Team
  <1> QED BY <1>1, RowOrder DEF LocksFirst

\* The rows of a transaction and its step.
Starts(p)  == tx'[p].held = {}
SameRows(p) ==
  tx'[p].held = tx[p].held /\ tx'[p].want = tx[p].want /\ tx'[p].kind = tx[p].kind
ThenWantsTeams(p) ==
  /\ tx'[p].held = tx[p].held /\ tx'[p].want \subseteq TeamRows(Teams)
  /\ tx'[p].kind = tx[p].kind /\ tx[p].kind # "OPEN"
  /\ \A r \in tx[p].held, s \in TeamRows(Teams) : Before(tx[p].kind, r, s)

LEMMA LocksTeamsNext ==
  ASSUME IInv, NEW p \in Processes, NEW rows, NEW S \in SUBSET Teams,
         LockMore(p, TeamRows(S)), tx[p].step < 4, tx[p].kind # "OPEN",
         LocksFirst(p, rows),
         \E t \in Teams, c \in Challenges : rows \subseteq {State(t), Challenge(c), Period}
  PROVE  ThenWantsTeams(p)
  <1>1. TeamRows(S) \in SUBSET Rows /\ TeamRows(S) \subseteq TeamRows(Teams)
    BY DEF TeamRows, Rows
  <1>2. tx'[p].held = tx[p].held /\ tx'[p].want = TeamRows(S) /\ tx'[p].kind = tx[p].kind
    <2> DEFINE new == TeamRows(S)
    <2>1. LockMore(p, new) /\ TypeOK
      BY DEF IInv
    <2> HIDE DEF new
    <2>2. tx'[p].held = tx[p].held /\ tx'[p].want = new /\ tx'[p].kind = tx[p].kind
      BY <2>1, LockMoreRows
    <2> QED BY <2>2 DEF new
  <1>3. \A r \in tx[p].held, s \in TeamRows(Teams) : Before(tx[p].kind, r, s)
    BY TeamsLast
  <1> QED BY <1>1, <1>2, <1>3 DEF ThenWantsTeams

LEMMA StepRows ==
  ASSUME IInv, NEW p \in Processes, Step(p)
  PROVE  \/ tx'[p].kind = "DELETE" \/ Starts(p) \/ SameRows(p) \/ ThenWantsTeams(p)
         \/ tx'[p].kind = tx[p].kind /\ \E r \in tx[p].want : Grants(p, r)
  <1>0. TypeOK /\ Works(p) /\ IsTransaction(tx[p])
    BY DEF IInv, Working, TypeOK
  <1>1. CASE Lock(p)
    BY <1>0, <1>1, LockSets DEF Continues
  <1>2. ASSUME NEW kind, NEW t, NEW c, NEW read, NEW rows, BeginAfter(p, kind, t, c, read, rows)
        PROVE  Starts(p)
    BY <1>0, <1>2 DEF BeginAfter, TypeOK, Starts
  <1>3. ASSUME NEW result, Computes(p, result)
        PROVE  SameRows(p)
    <2>1. tx'[p] = [tx[p] EXCEPT !.step = @ + 1, !.new = result]
      BY <1>0, <1>3 DEF Computes, TypeOK
    <2> QED BY <1>0, <2>1, StepAndNew, ZenonT(60) DEF Transaction, SameRows
  <1>4. Ends(p) => Starts(p)
    BY <1>0, EndsSets DEF Starts
  <1>5. CASE Submit(p)
    <2>1. ASSUME SubmitLockTeams(p)
          PROVE  ThenWantsTeams(p)
      <3>1. /\ Submits(p) /\ tx[p].step = 1 /\ tx[p].kind = "SUBMIT"
            /\ LockMore(p, TeamRows(Affected(tx[p].team, tx[p].challenge)))
        BY <1>0, <2>1 DEF Works, SubmitLockTeams, At
      <3>2. /\ tx[p].team \in Teams /\ tx[p].challenge \in Challenges
            /\ LocksFirst(p, {State(tx[p].team), Challenge(tx[p].challenge)})
        BY <3>1 DEF Submits
      <3>3. Affected(tx[p].team, tx[p].challenge) \in SUBSET Teams
        BY <3>2 DEF Affected, Solvers
      <3> QED BY <3>1, <3>2, <3>3, LocksTeamsNext
    <2> QED BY <1>2, <1>3, <1>4, <1>5, <2>1
            DEF Submit, SubmitBegin, SubmitCompute, SubmitCommit, Begin, EndsUnchanged
  <1>6. CASE Revoke(p)
    <2>1. ASSUME RevokeLockTeams(p), ~Ends(p)
          PROVE  ThenWantsTeams(p)
      <3>1. /\ Revokes(p) /\ tx[p].step = 1 /\ tx[p].kind = "REVOKE"
            /\ LockMore(p, TeamRows(Solvers(solves, tx[p].challenge)))
        BY <1>0, <2>1 DEF Works, RevokeLockTeams, At, EndsUnchanged
      <3>2. /\ tx[p].team \in Teams /\ tx[p].challenge \in Challenges
            /\ LocksFirst(p, {State(tx[p].team), Challenge(tx[p].challenge)})
        BY <3>1 DEF Revokes
      <3>3. Solvers(solves, tx[p].challenge) \in SUBSET Teams
        BY DEF Solvers
      <3> QED BY <3>1, <3>2, <3>3, LocksTeamsNext
    <2> QED BY <1>2, <1>3, <1>4, <1>6, <2>1
            DEF Revoke, RevokeBegin, RevokeCompute, RevokeCommit, Begin
  <1>7. CASE Rescore(p)
    <2>1. ASSUME RescoreLockTeams(p)
          PROVE  ThenWantsTeams(p)
      <3>1. /\ Rescores(p) /\ tx[p].step = 1 /\ tx[p].kind = "RESCORE"
            /\ LockMore(p, TeamRows(Solvers(solves, tx[p].challenge)))
        BY <1>0, <2>1 DEF Works, RescoreLockTeams, At
      <3>2. /\ tx[p].challenge \in Challenges
            /\ LocksFirst(p, {Challenge(tx[p].challenge)})
        BY <3>1 DEF Rescores
      <3>3. Solvers(solves, tx[p].challenge) \in SUBSET Teams
        BY DEF Solvers
      <3>4. ASSUME NEW r \in tx[p].held, NEW s \in TeamRows(Teams)
            PROVE  Before(tx[p].kind, r, s)
        <4>1. r = Challenge(tx[p].challenge) /\ \E t \in Teams : s = Team(t)
          BY <3>2, <3>4 DEF LocksFirst, TeamRows, Team
        <4> QED BY <3>1, <4>1, RowOrder
      <3>5. TeamRows(Solvers(solves, tx[p].challenge)) \subseteq TeamRows(Teams)
        BY <3>3 DEF TeamRows
      <3>6. tx'[p].held = tx[p].held /\ tx'[p].kind = tx[p].kind
            /\ tx'[p].want = TeamRows(Solvers(solves, tx[p].challenge))
        <4> DEFINE new == TeamRows(Solvers(solves, tx[p].challenge))
        <4>1. LockMore(p, new)
          BY <3>1
        <4> HIDE DEF new
        <4>2. tx'[p].held = tx[p].held /\ tx'[p].want = new /\ tx'[p].kind = tx[p].kind
          BY <1>0, <4>1, LockMoreRows
        <4> QED BY <4>2 DEF new
      <3> QED BY <3>1, <3>4, <3>5, <3>6 DEF ThenWantsTeams
    <2>2. ASSUME NEW g \in Scorings, RescoreCompute(p, g)
          PROVE  SameRows(p)
      BY <1>0, <2>2 DEF RescoreCompute, TypeOK, IsTransaction, SameRows
    <2> QED BY <1>2, <1>4, <1>7, <2>1, <2>2 DEF Rescore, RescoreBegin, RescoreCommit, Begin
  <1>8. CASE Delete(p)
    <2>1. CASE \E t \in Teams : DeleteBegin(p, t)
      BY <1>2, <2>1 DEF DeleteBegin
    <2>2. CASE DeleteCommit(p)
      BY <1>4, <2>2 DEF DeleteCommit
    <2>3. CASE DeleteCompute(p)
      BY <1>3, <2>3 DEF DeleteCompute
    <2>4. CASE DeleteCascade(p) \/ DeleteLockTeams(p)
      <3>1. tx[p].kind = "DELETE" /\ Works(p)' /\ tx'[p].kind \in {"DELETE", "NONE"}
        <4>1. tx[p].kind = "DELETE"
          BY <2>4 DEF DeleteCascade, DeleteLockTeams, At
        <4>2. ASSUME NEW rows, LockMore(p, rows)
              PROVE  tx'[p].kind = tx[p].kind
          BY <1>0, <4>2, LockMoreRows
        <4>3. Ends(p) => tx'[p].kind = "NONE"
          BY <1>0, EndsSets
        <4>4. CASE DeleteLockTeams(p)
          BY <4>1, <4>2, <4>4, StepWorks DEF DeleteLockTeams
        <4>5. CASE DeleteCascade(p)
          <5> DEFINE t == tx[p].team
          <5>1. \/ LockMore(p, {State(t)}) \/ Ends(p)
                \/ tx' = [tx EXCEPT ![p].held = {}, ![p].read = SolvedBy(solves, t),
                                    ![p].want = DeleteRows(t)]
            BY <4>5 DEF DeleteCascade, EndsUnchanged
          <5>2. CASE tx' = [tx EXCEPT ![p].held = {}, ![p].read = SolvedBy(solves, t),
                                      ![p].want = DeleteRows(t)]
            BY <1>0, <4>1, <5>2, StepWorks DEF TypeOK, IsTransaction
          <5> QED BY <4>1, <4>2, <4>3, <5>1, <5>2, StepWorks
        <4> QED BY <2>4, <4>4, <4>5
      <3>2. tx'[p].kind = "NONE" => Starts(p)
        BY <3>1 DEF Works, Starts, Nothing
      <3> QED BY <3>1, <3>2
    <2> QED BY <1>8, <2>1, <2>2, <2>3, <2>4 DEF Delete
  <1>9. CASE Poll(p)
    <2>1. ASSUME PollAnswered(p)
          PROVE  Starts(p)
      <3>1. tx[p].held = {} /\ LockMore(p, {Period})
        BY <1>0, <2>1 DEF Works, Polls, PollAnswered, At
      <3> DEFINE new == {Period}
      <3>2. LockMore(p, new)
        BY <3>1
      <3> HIDE DEF new
      <3>3. tx'[p].held = tx[p].held
        BY <1>0, <3>2, LockMoreRows
      <3> QED BY <3>1, <3>3 DEF Starts
    <2>2. ASSUME PollLockTeams(p), ~Ends(p)
          PROVE  ThenWantsTeams(p)
      <3>1. /\ LocksFirst(p, {Period}) /\ tx[p].kind = "POLL"
            /\ LockMore(p, TeamRows(teams)) /\ teams \subseteq Teams
        BY <1>0, <2>2 DEF Works, Polls, PollLockTeams, At, EndsUnchanged, TypeOK
      <3>2. \A r \in tx[p].held, s \in TeamRows(Teams) : Before(tx[p].kind, r, s)
        <4>1. \A s \in TeamRows(Teams) : \E t \in Teams : s = Team(t)
          BY DEF TeamRows, Team
        <4> QED BY <3>1, <4>1, RowOrder DEF LocksFirst
      <3>3. tx'[p].held = tx[p].held /\ tx'[p].kind = tx[p].kind /\ tx'[p].want = TeamRows(teams)
        <4> DEFINE new == TeamRows(teams)
        <4>1. LockMore(p, new)
          BY <3>1
        <4> HIDE DEF new
        <4>2. tx'[p].held = tx[p].held /\ tx'[p].want = new /\ tx'[p].kind = tx[p].kind
          BY <1>0, <4>1, LockMoreRows
        <4> QED BY <4>2 DEF new
      <3>4. TeamRows(teams) \subseteq TeamRows(Teams)
        BY <3>1 DEF TeamRows
      <3> QED BY <3>1, <3>2, <3>3, <3>4 DEF ThenWantsTeams
    <2> QED BY <1>2, <1>4, <1>9, <2>1, <2>2 DEF Poll, PollBegin, PollFail, PollCommit, Begin
  <1>10. CASE \E t \in teams, c \in Challenges : LockOnly(p, t, c)
    BY <1>2, <1>10 DEF LockOnly, Begin
  <1>11. CASE LockOnlyEnd(p) \/ RollBack(p)
    BY <1>4, <1>11 DEF LockOnlyEnd, RollBack, EndsUnchanged
  <1> QED BY <1>1, <1>5, <1>6, <1>7, <1>8, <1>9, <1>10, <1>11 DEF Step
LEMMA StepInOrder ==
  ASSUME IInv, InOrder, NEW p \in Processes, Step(p)
  PROVE  InOrder'
  <1>1. \A q \in Processes \ {p} : tx'[q] = tx[q]
    BY StepWorks DEF Others
  <1>2. ASSUME tx'[p].kind # "DELETE", NEW r \in tx'[p].held, NEW s \in tx'[p].want
        PROVE  Before(tx'[p].kind, r, s)
    <2>1. CASE SameRows(p)
      BY <1>2, <2>1 DEF SameRows, InOrder
    <2>2. CASE ThenWantsTeams(p)
      BY <1>2, <2>2 DEF ThenWantsTeams
    <2>3. CASE tx'[p].kind = tx[p].kind /\ \E n \in tx[p].want : Grants(p, n)
      <3>1. PICK n \in tx[p].want : Grants(p, n)
        BY <2>3
      <3>2. s \in tx[p].want \ {n} /\ (r \in tx[p].held \/ r = n)
        BY <1>2, <3>1 DEF Grants
      <3>3. Before(tx[p].kind, n, s)
        BY <3>1, <3>2 DEF Grants, NextRow
      <3> QED BY <1>2, <2>3, <3>2, <3>3 DEF InOrder
    <2> QED BY <1>2, <2>1, <2>2, <2>3, StepRows DEF Starts
  <1> QED BY <1>1, <1>2 DEF InOrder

LEMMA LockInvariant == Spec => []LInv
  <1>1. Init => InOrder
    BY DEF Init, InOrder, Nothing
  <1>2. IInv /\ InOrder /\ [Next]_vars => InOrder'
    BY StepInOrder DEF Next, InOrder, vars
  <1> QED BY <1>1, <1>2, Invariant, PTL DEF Spec, LInv

\* A number that grows along the order of all but openings.
Keys    == MaxTeam + MaxChallenge + 1
Rank(r) ==
  r[2] + (IF r[1] = "period" THEN 0 ELSE IF r[1] = "state" THEN Keys
          ELSE IF r[1] = "challenge" THEN Keys + Keys ELSE Keys + Keys + Keys)
Bound   == Keys + Keys + Keys + Keys

LEMMA RankGrows ==
  /\ \A r \in Rows : Rank(r) \in Nat /\ Bound - Rank(r) \in Nat
  /\ \A r, s \in Rows : \A kind : kind # "OPEN" /\ Before(kind, r, s) => Rank(r) < Rank(s)
  <1>1. \A r \in Rows : /\ r[1] \in {"state", "team", "challenge", "period"}
                        /\ r[2] \in Nat /\ r[2] < Keys
    BY SizesAssumption DEF Rows, Period, Teams, Challenges, Keys
  <1>2. Keys \in Nat \ {0}
    BY SizesAssumption DEF Keys
  <1>3. \A r \in Rows : Rank(r) \in Nat /\ Bound - Rank(r) \in Nat
    BY <1>1, <1>2 DEF Rank, Bound
  <1>4. ASSUME NEW r \in Rows, NEW s \in Rows, NEW kind, kind # "OPEN", Before(kind, r, s)
        PROVE  Rank(r) < Rank(s)
    <2> DEFINE place == [period |-> 0, state |-> 1, challenge |-> 2, team |-> 3]
    <2>1. place[r[1]] < place[s[1]] \/ (r[1] = s[1] /\ r[2] < s[2])
      BY <1>4 DEF Before, Place
    <2>2. CASE r[1] = s[1] /\ r[2] < s[2]
      BY <1>1, <1>2, <2>2 DEF Rank
    <2>3. CASE place[r[1]] < place[s[1]]
      BY <1>1, <1>2, <2>3 DEF Rank
    <2> QED BY <2>1, <2>2, <2>3
  <1> QED BY <1>3, <1>4

\* Without deletions and openings the awaited rows ascend: there is no cycle.
LEMMA CycleHasOpening ==
  ASSUME LInv, NEW S \in SUBSET Processes, WaitCycle(S), \A p \in S : ~Deletes(p)
  PROVE  \E p \in S : Opens(p)
  <1> SUFFICES ASSUME \A p \in S : ~Opens(p)
               PROVE  FALSE
    OBVIOUS
  <1> DEFINE Awaited == {r \in Rows : \E p, q \in S : r \in tx[q].held /\ NextRow(p, r)}
             Left    == {Bound - Rank(r) : r \in Awaited}
  <1>1. \A p \in S : tx[p].held \subseteq Rows
    BY DEF LInv, IInv, TypeOK, IsTransaction
  <1>2. \A p \in S : \E q \in S : \E r \in tx[q].held : NextRow(p, r)
    BY DEF WaitCycle, WaitsFor
  <1>3. Awaited # {}
    <2>1. PICK p \in S : TRUE
      BY DEF WaitCycle
    <2> QED BY <1>1, <1>2, <2>1
  <1>4. ASSUME NEW r \in Awaited
        PROVE  \E s \in Awaited : Rank(r) < Rank(s)
    <2>1. PICK q \in S : r \in tx[q].held
      BY <1>4
    <2>2. PICK next \in S : \E s \in tx[next].held : NextRow(q, s)
      BY <1>2
    <2>3. PICK s \in tx[next].held : NextRow(q, s)
      BY <2>2
    <2>4. s \in Awaited
      BY <1>1, <2>3
    <2>5. Before(tx[q].kind, r, s)
      BY <2>1, <2>3 DEF LInv, InOrder, NextRow, Deletes
    <2>6. tx[q].kind # "OPEN"
      BY DEF Opens
    <2> QED BY <2>4, <2>5, <2>6, RankGrows
  <1>5. Left \subseteq Nat /\ Left # {}
    BY <1>3, RankGrows
  <1>6. PICK m \in Left : \A n \in Left : ~(n < m)
    <2> HIDE DEF Left
    <2>1. \E m \in Left : \A n \in Left : <<n, m>> \notin OpToRel(<, Nat)
      BY <1>5, NatLessThanWellFounded, WFMin
    <2> QED BY <1>5, <2>1 DEF OpToRel
  <1>7. PICK r \in Awaited : m = Bound - Rank(r)
    OBVIOUS
  <1>8. PICK s \in Awaited : Rank(r) < Rank(s)
    BY <1>4
  <1>9. Bound - Rank(s) \in Left /\ Bound - Rank(s) < m
    <2>1. Rank(r) \in Nat /\ Rank(s) \in Nat /\ Bound \in Nat
      BY RankGrows, SizesAssumption DEF Bound, Keys
    <2> QED BY <1>7, <1>8, <2>1
  <1> HIDE DEF Left
  <1> QED BY <1>6, <1>9

\* Two transactions that wait for each other, one of them an opening.
LEMMA OpeningInPair ==
  ASSUME LInv, NEW p \in Processes, NEW q \in Processes, WaitsFor(p, q), WaitsFor(q, p),
         Opens(p), ~Deletes(q)
  PROVE  Reopens(p)
  <1> DEFINE t == tx[p].team
             c == tx[p].challenge
  <1>1. PICK n \in tx[q].held : NextRow(p, n)
    BY DEF WaitsFor
  <1>2. PICK m \in tx[p].held : NextRow(q, m)
    BY DEF WaitsFor
  <1>3. /\ t \in Teams /\ c \in Challenges /\ LocksFirst(p, {State(t), Team(t), Challenge(c)})
        /\ tx[p].kind = "OPEN"
    BY DEF LInv, IInv, Working, Works, Opens, LocksOnly, OpenRows
  <1>4. /\ n \in {State(t), Team(t), Challenge(c)} /\ m \in {State(t), Team(t), Challenge(c)}
        /\ Before("OPEN", m, n)
    BY <1>1, <1>2, <1>3 DEF LocksFirst, NextRow, LInv, InOrder
  <1>5. Before(tx[q].kind, n, m) /\ p # q
    BY <1>1, <1>2 DEF NextRow, LInv, InOrder, Deletes, WaitsFor
  <1>6. n = Challenge(c) /\ m = Team(t) /\ tx[q].kind # "OPEN"
    <2>1. n # m
      BY <1>5 DEF LInv, IInv, Exclusive
    <2> QED BY <1>4, <1>5, <2>1, RowOrder
  <1>7. State(t) \in tx[p].held
    <2>1. t \in teams
      BY <1>2, <1>6 DEF LInv, IInv, Exclusive, Exists, Team
    <2>2. State(t) \in tx[p].held \cup tx[p].want
      BY <1>3, <2>1 DEF LocksFirst, Secured, Exists, State
    <2>3. State(t) \notin tx[p].want
      <3>1. State(t) # n /\ ~Before("OPEN", n, State(t))
        BY <1>6, RowOrder
      <3> QED BY <1>1, <1>3, <3>1 DEF NextRow
    <2> QED BY <2>2, <2>3
  <1>8. Challenge(c) \in tx[q].held /\ Team(t) \in tx[q].want /\ State(t) \notin tx[q].held
    BY <1>1, <1>2, <1>5, <1>6, <1>7 DEF NextRow, LInv, IInv, Exclusive
  <1>9. Works(q) /\ IsTransaction(tx[q])
    BY DEF LInv, IInv, Working, TypeOK
  <1>10. CASE tx[q].kind = "SUBMIT"
    <2>1. Submits(q)
      BY <1>9, <1>10 DEF Works
    <2> DEFINE u == tx[q].team
               d == tx[q].challenge
    <2>2. u \in Teams /\ d \in Challenges /\ tx[q].step > 1
      BY <1>8, <2>1, KeysOfRows DEF Submits, LocksFirst
    <2>3. /\ tx[q].held \subseteq {State(u), Challenge(d)} \cup TeamRows(Teams)
          /\ State(u) \in tx[q].held \/ ~Exists(State(u))
          /\ tx[q].want \subseteq TeamRows({u} \cup Solvers(solves, d))
      BY <2>1, <2>2 DEF Submits, LocksTeams
    <2>4. c = d
      BY <1>8, <2>3, KeysOfRows DEF TeamRows, Challenge, State
    <2>5. t = u \/ t \in Solvers(solves, d)
      BY <1>8, <2>3 DEF TeamRows, Team
    <2>6. t # u
      <3>1. t \in teams
        BY <1>2, <1>6 DEF LInv, IInv, Exclusive, Exists, Team
      <3> QED BY <1>8, <2>3, <3>1 DEF Exists, State
    <2> QED BY <1>3, <2>4, <2>5, <2>6, Sides DEF Reopens, Opens, Solve
  <1>11. CASE tx[q].kind = "REVOKE"
    <2>1. Revokes(q)
      BY <1>9, <1>11 DEF Works
    <2> DEFINE u == tx[q].team
               d == tx[q].challenge
    <2>2. d \in Challenges /\ tx[q].step > 1
      BY <1>8, <2>1, KeysOfRows DEF Revokes, LocksFirst
    <2>3. /\ tx[q].held \subseteq {State(u), Challenge(d)} \cup TeamRows(Teams)
          /\ tx[q].want \subseteq TeamRows(Solvers(solves, d))
      BY <2>1, <2>2 DEF Revokes, LocksTeams
    <2>4. c = d
      BY <1>8, <2>3, KeysOfRows DEF TeamRows, Challenge, State
    <2>5. t \in Solvers(solves, d)
      BY <1>8, <2>3 DEF TeamRows, Team
    <2> QED BY <1>3, <2>4, <2>5, Sides DEF Reopens, Opens, Solve
  <1>12. CASE tx[q].kind = "RESCORE"
    <2>1. Rescores(q)
      BY <1>9, <1>12 DEF Works
    <2> DEFINE d == tx[q].challenge
    <2>2. d \in Challenges /\ tx[q].step > 1
      BY <1>8, <2>1, KeysOfRows DEF Rescores, LocksFirst
    <2>3. /\ tx[q].held \subseteq {Challenge(d)} \cup TeamRows(Teams)
          /\ tx[q].want \subseteq TeamRows(Solvers(solves, d))
      BY <2>1, <2>2 DEF Rescores, LocksTeams
    <2>4. c = d
      BY <1>8, <2>3, KeysOfRows DEF TeamRows, Challenge
    <2>5. t \in Solvers(solves, d)
      BY <1>8, <2>3 DEF TeamRows, Team
    <2> QED BY <1>3, <2>4, <2>5, Sides DEF Reopens, Opens, Solve
  <1>13. CASE tx[q].kind = "POLL"
    <2>1. tx[q].held \subseteq {Period} \cup TeamRows(Teams)
      BY <1>9, <1>13 DEF Works, Polls, LocksFirst, LocksTeams
    <2> QED BY <1>8, <2>1 DEF Period, TeamRows, Challenge
  <1>14. CASE tx[q].kind = "ACCEPT_EXE"
    <2>1. LocksFirst(q, {Challenge(tx[q].challenge), Team(tx[q].team)})
      BY <1>9, <1>14 DEF Works, LocksOnly, AcceptRows
    <2>2. c = tx[q].challenge /\ t = tx[q].team
      BY <1>8, <2>1, KeysOfRows DEF LocksFirst
    <2> QED BY <1>3, <1>14, <2>2 DEF Reopens, Opens, Solve
  <1>15. tx[q].kind # "NONE"
    BY <1>8, <1>9 DEF Works, Nothing
  <1> QED BY <1>6, <1>9, <1>10, <1>11, <1>12, <1>13, <1>14, <1>15 DEF IsTransaction, Kinds, Deletes

\* Transactions wait for each other in a cycle only around a deletion, an
\* opening that reopens a challenge, or an opening and two others: all the rest
\* locks state, challenge and team rows in this order.
THEOREM DeadlocksAreKnown == Spec => []CyclesAreKnown
  <1>1. ASSUME LInv
        PROVE  CyclesAreKnown
    <2> SUFFICES ASSUME NEW S \in SUBSET Processes, WaitCycle(S), \A p \in S : ~Deletes(p)
                 PROVE  \E p \in S : Reopens(p) \/ (Opens(p) /\ OneOfThree(p, S))
      BY DEF CyclesAreKnown
    <2>1. PICK p \in S : Opens(p)
      BY <1>1, CycleHasOpening
    <2>2. PICK q \in S : WaitsFor(p, q)
      BY DEF WaitCycle
    <2>3. PICK r \in S : WaitsFor(q, r)
      BY DEF WaitCycle
    <2>4. CASE r = p
      BY <1>1, <2>1, <2>2, <2>3, <2>4, OpeningInPair
    <2>5. CASE r # p
      BY <2>1, <2>2, <2>3, <2>5 DEF OneOfThree, WaitsFor
    <2> QED BY <2>4, <2>5
  <1> QED BY <1>1, LockInvariant, PTL
=============================================================================
