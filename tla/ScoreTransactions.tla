-------------------------- MODULE ScoreTransactions --------------------------
(***************************************************************************)
(* The transactions that move the standings, at the level of row locks: a  *)
(* correct submission, the withdrawal of one, a change of a challenge's    *)
(* scoring, the deletion of a team, the award of a KOTH period; and two    *)
(* that only lock the same rows: opening a challenge and accepting an      *)
(* executable.                                                             *)
(*                                                                         *)
(* Processes run them one after another.  A transaction locks its rows one *)
(* at a time, computes from what is committed by then, and publishes the   *)
(* result when it commits (READ COMMITTED).  The database breaks a cycle   *)
(* of waiting transactions by rolling one of them back.                    *)
(***************************************************************************)
EXTENDS Integers, FiniteSets, Functions, DynamicScore

CONSTANTS MaxTeam, MaxChallenge,  \* teams and challenges, numbered in the order of their keys
          Processes,
          Scorings                \* values of initial_score, minimum_score and decay

Teams      == 1..MaxTeam
Challenges == 1..MaxChallenge

ASSUME SizesAssumption == MaxTeam \in Nat /\ MaxChallenge \in Nat
\* The scores have no more digits than the arithmetic (12 and 28 in the code).
ASSUME ScoringsAssumption ==
  /\ Scorings \subseteq [initial : Nat, minimum : Nat, decay : Nat \ {0}]
  /\ \A g \in Scorings : g.minimum <= g.initial /\ g.initial < TenTo[Digits]

VARIABLES
  teams,     \* the teams that exist, each with its board state
  solves,    \* pairs <<t, c>>: Solve
  scoring,   \* scoring[c]: the parameters of the dynamic score
  worth,     \* worth[c]: Challenge.current_score
  score,     \* score[t]: Team.team_score
  mileage,   \* mileage[t]: Team.mileage, in rewards of a solve
  period,    \* KothScorePeriod.status
  awards,    \* awards[t]: how often the period was added to the team's KothSolve
  tx         \* tx[p]: the transaction of process p

vars == <<teams, solves, scoring, worth, score, mileage, period, awards, tx>>

-----------------------------------------------------------------------------
(* Scores *)

\* calculate_dynamic_score of the parameters and every number of solvers.
Dynamic == [g \in Scorings |-> [count \in 0..(MaxTeam + 1) |-> calculate_dynamic_score(g, count)]]

Solvers(ss, c)  == {t \in Teams : <<t, c>> \in ss}
SolvedBy(ss, t) == {c \in Challenges : <<t, c>> \in ss}

Worth(ss, gs, c) == Dynamic[gs[c]][Cardinality(Solvers(ss, c))]

Total(ss, w, t) == SumFunction([c \in SolvedBy(ss, t) |-> w[c]])

\* What update_dynamic_score_and_team_scores writes when ss and gs are the
\* solves and parameters, w the present scores of the challenges, C the
\* challenges and S the teams it updates.
Updated(w, ss, gs, C) == [c \in Challenges |-> IF c \in C THEN Worth(ss, gs, c) ELSE w[c]]

Standings(w, ss, gs, C, S) ==
  [worth |-> [c \in C |-> Worth(ss, gs, c)],
   score |-> [t \in S |-> Total(ss, Updated(w, ss, gs, C), t)]]

-----------------------------------------------------------------------------
(* Row locks *)

State(t)     == <<"state", t>>
Team(t)      == <<"team", t>>
Challenge(c) == <<"challenge", c>>
Period       == <<"period", 0>>
Rows         == {"state", "team"} \X Teams \cup {"challenge"} \X Challenges \cup {Period}

TeamRows(S)      == {"team"} \X S
ChallengeRows(S) == {"challenge"} \X S

\* Mutant: a submission locks the challenge before the board state.
PlaceOfSubmitFirst(kind) ==
  CASE kind = "OPEN"   -> [period |-> 0, state |-> 1, team |-> 2, challenge |-> 3]
    [] kind = "SUBMIT" -> [period |-> 0, challenge |-> 1, state |-> 2, team |-> 3]
    [] OTHER           -> [period |-> 0, state |-> 1, challenge |-> 2, team |-> 3]

\* The order in which a transaction locks what it wants: table by table ("Match
\* board mutations: state precedes access and team locks"), and the rows of one
\* table by their keys (order_by("pk")).
Place(kind) ==
  IF kind = "OPEN" THEN [period |-> 0, state |-> 1, team |-> 2, challenge |-> 3]
                   ELSE [period |-> 0, state |-> 1, challenge |-> 2, team |-> 3]

Before(kind, r, s) ==
  \/ Place(kind)[r[1]] < Place(kind)[s[1]]
  \/ r[1] = s[1] /\ r[2] < s[2]

NoResult == [worth |-> <<>>, score |-> <<>>]
SomeScoring == CHOOSE g \in Scorings : TRUE
Nothing  == [kind |-> "NONE", step |-> 0, team |-> 0, challenge |-> 0, read |-> {},
             scoring |-> SomeScoring, held |-> {}, want |-> {}, new |-> NoResult]

\* Everything is typed but the numbers that scores are: sums of what Dynamic gives.
Kinds == {"NONE", "SUBMIT", "REVOKE", "RESCORE", "DELETE", "POLL", "OPEN", "ACCEPT_EXE"}

IsTransaction(x) ==
  /\ x = [kind |-> x.kind, step |-> x.step, team |-> x.team, challenge |-> x.challenge,
          read |-> x.read, scoring |-> x.scoring, held |-> x.held, want |-> x.want,
          new |-> x.new]
  /\ x.kind \in Kinds /\ x.step \in 0..4
  /\ x.team \in 0..MaxTeam /\ x.challenge \in 0..MaxChallenge
  /\ x.read \subseteq Challenges /\ x.held \subseteq Rows /\ x.want \subseteq Rows

TypeOK ==
  /\ teams \subseteq Teams
  /\ solves \subseteq Teams \X Challenges
  /\ scoring \in [Challenges -> Scorings]
  /\ DOMAIN worth = Challenges /\ DOMAIN score = Teams
  /\ mileage \in [Teams -> Int]
  /\ period \in {"PENDING", "FAILED", "APPLIED"}
  /\ awards \in [Teams -> Nat]
  /\ DOMAIN tx = Processes /\ \A p \in Processes : IsTransaction(tx[p])

Init ==
  /\ teams = Teams
  /\ solves = {}
  /\ scoring \in [Challenges -> Scorings]
  /\ worth = [c \in Challenges |-> scoring[c].initial]
  /\ score = [t \in Teams |-> 0]
  /\ mileage = [t \in Teams |-> 0]
  /\ period = "PENDING"
  /\ awards = [t \in Teams |-> 0]
  /\ tx = [p \in Processes |-> Nothing]

UnchangedData == UNCHANGED <<teams, solves, scoring, worth, score, mileage, period, awards>>

\* A transaction that is granted all rows of this step is ready for the next one.
At(p, kind, step) == tx[p].kind = kind /\ tx[p].step = step /\ tx[p].want = {}

BeginAfter(p, kind, t, c, read, rows) ==
  /\ tx[p] = Nothing
  /\ tx' = [tx EXCEPT ![p] = [kind |-> kind, step |-> 1, team |-> t, challenge |-> c,
                              read |-> read, scoring |-> SomeScoring, held |-> {}, want |-> rows,
                              new |-> NoResult]]
  /\ UnchangedData

Begin(p, kind, t, c, rows) == BeginAfter(p, kind, t, c, {}, rows)

LockMore(p, rows) ==
  /\ tx' = [tx EXCEPT ![p].step = @ + 1, ![p].want = rows]
  /\ UnchangedData

Computes(p, result) ==
  /\ tx' = [tx EXCEPT ![p].step = @ + 1, ![p].new = result]
  /\ UnchangedData

\* The transaction ends; its locks are released.
Ends(p)          == tx' = [tx EXCEPT ![p] = Nothing]
EndsUnchanged(p) == Ends(p) /\ UnchangedData

\* The values computed before become visible.
Publish(p) ==
  /\ worth' = [c \in Challenges |->
                 IF c \in DOMAIN tx[p].new.worth THEN tx[p].new.worth[c] ELSE worth[c]]
  /\ score' = [t \in Teams |->
                 IF t \in DOMAIN tx[p].new.score THEN tx[p].new.score[t] ELSE score[t]]

\* The next row is granted.  A team's rows go with the team.
Exists(r)  == r[1] \in {"state", "team"} => r[2] \in teams
Free(p, r) == \A q \in Processes \ {p} : r \notin tx[q].held

NextRow(p, r) == r \in tx[p].want /\ \A s \in tx[p].want \ {r} : Before(tx[p].kind, r, s)

Lock(p) ==
  \E r \in tx[p].want :
    /\ NextRow(p, r)
    /\ Free(p, r)
    /\ tx' = [tx EXCEPT ![p].want = @ \ {r},
                        ![p].held = IF Exists(r) THEN @ \cup {r} ELSE @]
    /\ UnchangedData

\* Processes that wait for each other, all of them.
WaitsFor(p, q) == p # q /\ \E r \in tx[q].held : NextRow(p, r)
WaitCycle(S)   == S # {} /\ \A p \in S : \E q \in S : WaitsFor(p, q)

\* The database chooses a victim.
RollBack(p) ==
  /\ \E S \in SUBSET Processes : p \in S /\ WaitCycle(S)
  /\ EndsUnchanged(p)

-----------------------------------------------------------------------------
(* ChallengeSubmitView.post, with the right flag, for a challenge the team opened *)

SubmitRows(t, c) == {State(t), Challenge(c)}

SubmitBegin(p, t, c) ==
  /\ t \in teams
  /\ Begin(p, "SUBMIT", t, c, SubmitRows(t, c))

\* The teams whose score the solve will change.
Affected(t, c) ==
  {t} \cup IF Dynamic[scoring[c]][Cardinality(Solvers(solves, c)) + 1] # worth[c]
           THEN Solvers(solves, c) ELSE {}

SubmitLockTeams(p) ==
  /\ At(p, "SUBMIT", 1)
  /\ LockMore(p, TeamRows(Affected(tx[p].team, tx[p].challenge)))

Solve(p) == <<tx[p].team, tx[p].challenge>>

\* The team is gone, or has solved the challenge: USER_HAS_NO_TEAM, ALREADY_SOLVED.
SubmitRefused(p) == tx[p].team \notin teams \/ Solve(p) \in solves

\* If the score stays, only the submitter's total is written.
SubmitRewrites(p) ==
  LET ss == solves \cup {Solve(p)}
  IN  IF Worth(ss, scoring, tx[p].challenge) = worth[tx[p].challenge]
      THEN {tx[p].team} ELSE Solvers(ss, tx[p].challenge)

SubmitResult(p) ==
  Standings(worth, solves \cup {Solve(p)}, scoring, {tx[p].challenge}, SubmitRewrites(p))

SubmitCompute(p) ==
  /\ At(p, "SUBMIT", 2)
  /\ IF SubmitRefused(p) THEN EndsUnchanged(p) ELSE Computes(p, SubmitResult(p))

SubmitCommit(p) ==
  /\ At(p, "SUBMIT", 3)
  /\ solves' = solves \cup {Solve(p)}
  /\ mileage' = [mileage EXCEPT ![tx[p].team] = @ + 1]
  /\ Publish(p)
  /\ Ends(p)
  /\ UNCHANGED <<teams, scoring, period, awards>>

Submit(p) ==
  \/ \E t \in Teams, c \in Challenges : SubmitBegin(p, t, c)
  \/ SubmitLockTeams(p) \/ SubmitCompute(p) \/ SubmitCommit(p)

-----------------------------------------------------------------------------
(* challenge_submission_delete of a correct submission *)

RevokeBegin(p, t, c) ==
  /\ <<t, c>> \in solves
  /\ Begin(p, "REVOKE", t, c, {State(t), Challenge(c)})

\* The submission may have been deleted meanwhile, or with its team.
RevokeLockTeams(p) ==
  /\ At(p, "REVOKE", 1)
  /\ IF Solve(p) \in solves
     THEN LockMore(p, TeamRows(Solvers(solves, tx[p].challenge)))
     ELSE EndsUnchanged(p)

\* _revoke_solve: the team that loses the solve is written on its own.
RevokeResult(p) ==
  Standings(worth, solves \ {Solve(p)}, scoring, {tx[p].challenge},
            Solvers(solves, tx[p].challenge))

RevokeCompute(p) == At(p, "REVOKE", 2) /\ Computes(p, RevokeResult(p))

RevokeCommit(p) ==
  /\ At(p, "REVOKE", 3)
  /\ solves' = solves \ {Solve(p)}
  /\ mileage' = [mileage EXCEPT ![tx[p].team] = @ - 1]
  /\ Publish(p)
  /\ Ends(p)
  /\ UNCHANGED <<teams, scoring, period, awards>>

Revoke(p) ==
  \/ \E t \in Teams, c \in Challenges : RevokeBegin(p, t, c)
  \/ RevokeLockTeams(p) \/ RevokeCompute(p) \/ RevokeCommit(p)

-----------------------------------------------------------------------------
(* challenge_detail, PATCH of the scoring parameters *)

RescoreBegin(p, c) == Begin(p, "RESCORE", 0, c, {Challenge(c)})

RescoreLockTeams(p) ==
  /\ At(p, "RESCORE", 1)
  /\ LockMore(p, TeamRows(Solvers(solves, tx[p].challenge)))

RescoreResult(p, g) ==
  Standings(worth, solves, [scoring EXCEPT ![tx[p].challenge] = g], {tx[p].challenge},
            Solvers(solves, tx[p].challenge))

RescoreCompute(p, g) ==
  /\ At(p, "RESCORE", 2)
  /\ g # scoring[tx[p].challenge]
  /\ tx' = [tx EXCEPT ![p].step = 3, ![p].scoring = g, ![p].new = RescoreResult(p, g)]
  /\ UnchangedData

RescoreCommit(p) ==
  /\ At(p, "RESCORE", 3)
  /\ scoring' = [scoring EXCEPT ![tx[p].challenge] = tx[p].scoring]
  /\ Publish(p)
  /\ Ends(p)
  /\ UNCHANGED <<teams, solves, mileage, period, awards>>

Rescore(p) ==
  \/ \E c \in Challenges : RescoreBegin(p, c)
  \/ RescoreLockTeams(p) \/ RescoreCommit(p)
  \/ \E g \in Scorings : RescoreCompute(p, g)

-----------------------------------------------------------------------------
(* _team_delete *)

DeleteRows(t) == ChallengeRows(SolvedBy(solves, t)) \cup {Team(t)}

\* The solved challenges are read before anything is locked.
DeleteBegin(p, t) ==
  /\ t \in teams
  /\ BeginAfter(p, "DELETE", t, 0, SolvedBy(solves, t), DeleteRows(t))

\* Mutant: what was solved since the challenges were read does not matter.
NothingNew(p) == TRUE

NoNewSolve(p) == SolvedBy(solves, tx[p].team) \subseteq tx[p].read

\* team.delete() also deletes the board state.  If the team solved another
\* challenge meanwhile everything is let go and started again.
DeleteCascade(p) ==
  /\ At(p, "DELETE", 1)
  /\ LET t == tx[p].team IN
       CASE t \notin teams  -> EndsUnchanged(p)
         [] ~NoNewSolve(p)  ->
              /\ tx' = [tx EXCEPT ![p].held = {}, ![p].read = SolvedBy(solves, t),
                                  ![p].want = DeleteRows(t)]
              /\ UnchangedData
         [] OTHER           -> LockMore(p, {State(t)})

DeleteRemaining(p) == solves \ ({tx[p].team} \X Challenges)
DeleteAffected(p)  == UNION {Solvers(DeleteRemaining(p), c) : c \in tx[p].read}

DeleteLockTeams(p) ==
  /\ At(p, "DELETE", 2)
  /\ LockMore(p, TeamRows(DeleteAffected(p)))

DeleteResult(p) ==
  Standings(worth, DeleteRemaining(p), scoring, tx[p].read, DeleteAffected(p))

DeleteCompute(p) == At(p, "DELETE", 3) /\ Computes(p, DeleteResult(p))

DeleteCommit(p) ==
  /\ At(p, "DELETE", 4)
  /\ teams' = teams \ {tx[p].team}
  /\ solves' = DeleteRemaining(p)
  /\ Publish(p)
  /\ Ends(p)
  /\ UNCHANGED <<scoring, mileage, period, awards>>

Delete(p) ==
  \/ \E t \in Teams : DeleteBegin(p, t)
  \/ DeleteCascade(p) \/ DeleteLockTeams(p) \/ DeleteCompute(p) \/ DeleteCommit(p)

-----------------------------------------------------------------------------
(* poll_challenge_period *)

\* First transaction: only an attempt is counted.  Then the score is requested.
PollBegin(p) ==
  /\ Free(p, Period)
  /\ period # "APPLIED"
  /\ Begin(p, "POLL", 0, 0, {})

\* No usable answer: FAILED, unless another poll was faster.
PollFail(p) ==
  /\ At(p, "POLL", 1)
  /\ Free(p, Period)
  /\ period' = IF period = "APPLIED" THEN period ELSE "FAILED"
  /\ Ends(p)
  /\ UNCHANGED <<teams, solves, scoring, worth, score, mileage, awards>>

PollAnswered(p) == At(p, "POLL", 1) /\ LockMore(p, {Period})

\* Mutant: the status is not read again under the lock.
StillOpenAsRead == TRUE

StillOpen == period # "APPLIED"

\* _locked_awards_and_snapshot locks all teams.
PollLockTeams(p) ==
  /\ At(p, "POLL", 2)
  /\ IF StillOpen THEN LockMore(p, TeamRows(teams)) ELSE EndsUnchanged(p)

PollCommit(p) ==
  /\ At(p, "POLL", 3)
  /\ awards' = [t \in Teams |-> IF t \in teams THEN awards[t] + 1 ELSE awards[t]]
  /\ period' = "APPLIED"
  /\ Ends(p)
  /\ UNCHANGED <<teams, solves, scoring, worth, score, mileage>>

Poll(p) ==
  PollBegin(p) \/ PollFail(p) \/ PollAnswered(p) \/ PollLockTeams(p) \/ PollCommit(p)

-----------------------------------------------------------------------------
(* Transactions that lock the same rows *)

\* open_current_cell_challenge
OpenRows(t, c) == {State(t), Team(t), Challenge(c)}

\* accept_exe
AcceptRows(t, c) == {Challenge(c), Team(t)}

LockOnly(p, t, c) ==
  \/ Begin(p, "OPEN", t, c, OpenRows(t, c))
  \/ Begin(p, "ACCEPT_EXE", t, c, AcceptRows(t, c))

LockOnlyEnd(p) == (At(p, "OPEN", 1) \/ At(p, "ACCEPT_EXE", 1)) /\ EndsUnchanged(p)

-----------------------------------------------------------------------------
Step(p) ==
  \/ Submit(p) \/ Revoke(p) \/ Rescore(p) \/ Delete(p) \/ Poll(p)
  \/ \E t \in teams, c \in Challenges : LockOnly(p, t, c)
  \/ LockOnlyEnd(p)
  \/ Lock(p)
  \/ RollBack(p)

Next == \E p \in Processes : Step(p)

Spec == Init /\ [][Next]_vars

-----------------------------------------------------------------------------
(* Properties *)

\* Whatever transactions overlap, the scores that are stored follow from the
\* solves that are stored: the dynamic score of a challenge from its number of
\* solvers, the score of a team from the present scores of what it solved, and
\* its mileage from the number of its solves.
StandingsFollowSolves ==
  /\ \A c \in Challenges : worth[c] = Worth(solves, scoring, c)
  /\ \A t \in teams : /\ score[t] = Total(solves, worth, t)
                      /\ mileage[t] = Cardinality(SolvedBy(solves, t))

\* A KOTH period is added to a team's score once, however many polls run.
PeriodAwardedOnce ==
  \A t \in Teams : awards[t] <= 1 /\ (awards[t] = 1 => period = "APPLIED")

\* Transactions wait for each other in a cycle only around the deletion of a
\* team or the opening of a challenge, which locks the team first.  An opening
\* takes two others for that, unless the team opens a challenge again that it
\* had opened before (an operator reset or changed its cell): one it solved, or
\* one it has an executable accepted for.
Deletes(p) == tx[p].kind = "DELETE"
Opens(p)   == tx[p].kind = "OPEN"
Reopens(p) ==
  /\ Opens(p)
  /\ \/ Solve(p) \in solves
     \/ \E q \in Processes : tx[q].kind = "ACCEPT_EXE" /\ Solve(q) = Solve(p)

OneOfThree(p, S) == \E q, r \in S : p # q /\ q # r /\ r # p

CyclesAreKnown ==
  \A S \in SUBSET Processes :
    WaitCycle(S) => \E p \in S : Deletes(p) \/ Reopens(p) \/ (Opens(p) /\ OneOfThree(p, S))

\* A challenge that as many teams solved as its decay says is worth its minimum
\* (ranking/tests.py, test_reaches_minimum_at_decay).
MinimumAtDecay ==
  \A c \in Challenges :
    Cardinality(Solvers(solves, c)) = scoring[c].decay => worth[c] = scoring[c].minimum
=============================================================================
