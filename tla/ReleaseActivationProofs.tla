----------------------- MODULE ReleaseActivationProofs -----------------------
(***************************************************************************)
(* Proofs about ReleaseActivation for every set of releases and any number *)
(* of preparations, decisions, attempts and lost workers: a late answer    *)
(* never undoes an operator, and automation does not trip over itself.     *)
(***************************************************************************)
EXTENDS ReleaseActivation, TLAPS

-----------------------------------------------------------------------------
(***************************************************************************)
(* The fence (generation, current release) stands for what operators       *)
(* decided: whatever was formed in the present generation was formed after *)
(* the last decision.  Publications wait across generations, because they  *)
(* are carried, but an operator's decision is never carried over.          *)
(***************************************************************************)

\* The rows that do not exist yet; a retry has its row reserved.
Rows ==
  /\ \A i \in Preps : i > made => prep[i].status = "NONE" /\ prep[i].due = "NEVER"
  /\ retry # NoRetry => retry <= made /\ made < MaxPreps

\* A row that is still called has attempts left; only claims lapse.
Attempts ==
  \A i \in Preps : /\ prep[i].due # "NEVER" => prep[i].failures < MaxAttempts
                   /\ prep[i].lapsed => prep[i].due = "CLAIMED"

\* Each claim that was taken over is a worker that died or answered too late.
Leases ==
  \A i \in Preps : /\ prep[i].lease <= faults
                   /\ prep[i].lapsed => prep[i].lease < faults
                   /\ prep[i].due = "CLAIMED" /\ ~InTime(i) => prep[i].lease < faults

\* An intent of this generation was formed after the last decision.
Intents ==
  \A i \in Preps : i <= made =>
    /\ prep[i].generation <= generation
    /\ prep[i].generation = generation => prep[i].asked = decisions

\* A publication that waits expects the present release exactly if no operator
\* decided since CI verified it.
Waiting ==
  \A r \in Releases : pub[r].state = "PENDING" =>
    /\ pub[r].generation <= generation
    /\ pub[r].asked <= decisions
    /\ StillExpected(r) <=> pub[r].asked = decisions

\* What is prepared automatically is newer than what it replaces.
Newer ==
  \A r \in Releases :
    /\ pub[r].preparation <= made
    /\ pub[r].preparation # 0 =>
         prep[pub[r].preparation].release > prep[pub[r].preparation].previous

IInv == TypeOK /\ Rows /\ Attempts /\ Leases /\ Intents /\ Waiting /\ Newer

-----------------------------------------------------------------------------
(* What the handlers make of rows, with every field in its type *)

\* A row whose call may be claimed, under the bounds that hold for it.
Sound(p) == /\ p \in Prep
            /\ p.due # "NEVER" => p.failures < MaxAttempts
            /\ p.lapsed => p.due = "CLAIMED"

\* A request that no worker has claimed.
Fresh(p) == Sound(p) /\ p.status = "PENDING" /\ p.due = "NOW" /\ ~p.lapsed /\ p.lease = 0

LEMMA RequestFacts ==
  ASSUME NEW r \in Releases, NEW g \in Nat, NEW p \in Releases, NEW since \in Nat, NEW b \in BOOLEAN
  PROVE  Fresh(Request(r, g, p, since, b))
<1> DEFINE q == Request(r, g, p, since, b)
<1>1. q = [release |-> r, status |-> "PENDING", generation |-> g, previous |-> p,
           asked |-> since, operation |-> "UNSENT", refused |-> FALSE, due |-> "NOW",
           lapsed |-> FALSE, lease |-> 0, failures |-> 0, young |-> b]
  BY DEF Request
<1>2. MaxAttempts \in Nat \ {0} /\ MaxFaults \in Nat
  BY BoundsAssumption
<1> HIDE DEF q
<1>3. q \in Prep
  BY <1>1, <1>2 DEF Prep
<1>4. q.failures = 0 /\ q.status = "PENDING" /\ q.due = "NOW" /\ ~q.lapsed /\ q.lease = 0
  BY <1>1
<1>5. Fresh(q)
  BY <1>2, <1>3, <1>4 DEF Sound, Fresh
<1>6. QED  BY <1>5 DEF q

\* A request that exists, and that workers go on with while it is pending.
Live(p) == p.status # "NONE" /\ (p.status = "PENDING" => p.due # "NEVER")

\* The fields of an intent, which no handler changes once it is formed.
SameIntent(p, q) ==
  /\ p.release = q.release /\ p.previous = q.previous
  /\ p.generation = q.generation /\ p.asked = q.asked

LEMMA OverFacts ==
  ASSUME NEW p \in Prep, NEW s \in Decided
  PROVE  /\ Sound(Over(p, s)) /\ SameIntent(Over(p, s), p)
         /\ Over(p, s).status = s /\ Over(p, s).due = "NEVER" /\ ~Over(p, s).lapsed
         /\ Over(p, s).lease = p.lease
<1>1. Over(p, s) \in Prep
  BY DEF Over, Prep, Decided
<1>2. /\ Over(p, s).status = s /\ Over(p, s).due = "NEVER" /\ ~Over(p, s).lapsed
      /\ Over(p, s).lease = p.lease
  BY DEF Over, Prep
<1>3. SameIntent(Over(p, s), p)
  BY DEF Over, Prep, SameIntent
<1>4. QED  BY <1>1, <1>2, <1>3 DEF Sound

LEMMA FailFacts ==
  ASSUME NEW p \in Prep, p.failures < MaxAttempts, NEW error
  PROVE  /\ Sound(Fail(p, error)) /\ SameIntent(Fail(p, error), p)
         /\ Fail(p, error).status = p.status /\ Fail(p, error).due \in {"NEVER", "NOW"}
         /\ ~Fail(p, error).lapsed /\ Fail(p, error).lease = p.lease
<1> DEFINE f == p.failures + IF error = "LAG" THEN 0 ELSE 1
           d == IF error = "PERMANENT" \/ f >= MaxAttempts THEN "NEVER" ELSE "NOW"
<1>1. Fail(p, error) = [p EXCEPT !.failures = f, !.lapsed = FALSE, !.due = d]
  BY DEF Fail
<1>2. MaxAttempts \in Nat /\ p.failures \in Nat
  BY BoundsAssumption DEF Prep
<1>3. f \in 0..MaxAttempts /\ d \in {"NEVER", "NOW"} /\ (d # "NEVER" => f < MaxAttempts)
  BY <1>2
<1> HIDE DEF f, d
<1>4. /\ Fail(p, error) \in Prep
      /\ Fail(p, error).failures = f /\ Fail(p, error).due = d /\ ~Fail(p, error).lapsed
      /\ Fail(p, error).status = p.status /\ Fail(p, error).lease = p.lease
      /\ Fail(p, error).release = p.release /\ Fail(p, error).previous = p.previous
      /\ Fail(p, error).generation = p.generation /\ Fail(p, error).asked = p.asked
  BY <1>1, <1>3 DEF Prep
<1>5. QED  BY <1>3, <1>4 DEF Sound, SameIntent

LEMMA RefusedFacts ==
  ASSUME NEW p, Sound(p), NEW b \in BOOLEAN
  PROVE  LET q == [p EXCEPT !.refused = b] IN
           /\ Sound(q) /\ SameIntent(q, p) /\ q.status = p.status /\ q.due = p.due
           /\ q.lapsed = p.lapsed /\ q.lease = p.lease
BY DEF Sound, SameIntent, Prep

LEMMA JudgeFacts ==
  ASSUME NEW p, Sound(p)
  PROVE  /\ Sound(Judge(p)) /\ SameIntent(Judge(p), p)
         /\ Judge(p).status = "ACTIVATED" => p.status = "ACTIVATED"
         /\ Judge(p).due \in {p.due, "NEVER"}
         /\ Judge(p).lapsed => p.lapsed
         /\ Judge(p).lease = p.lease
         /\ p.status # "NONE" => Live(Judge(p))
<1>1. CASE p.status = "PENDING" /\ (p.operation = "FAILED" \/ p.due = "NEVER")
  BY <1>1, OverFacts DEF Judge, Sound, Decided, Live
<1>2. CASE ~(p.status = "PENDING" /\ (p.operation = "FAILED" \/ p.due = "NEVER"))
  BY <1>2 DEF Judge, SameIntent, Live
<1>3. QED  BY <1>1, <1>2

ParsedRow(p, o, d) == [p EXCEPT !.operation = o, !.failures = 0, !.lapsed = FALSE, !.due = d]

LEMMA ParsedFacts ==
  ASSUME NEW p \in Prep, NEW o \in {"RUNNING"} \cup Ended, NEW d \in {"NEVER", "NOW"}
  PROVE  LET q == ParsedRow(p, o, d) IN
           /\ Sound(q) /\ SameIntent(q, p) /\ q.status = p.status /\ q.due = d
           /\ ~q.lapsed /\ q.lease = p.lease
<1> DEFINE q == ParsedRow(p, o, d)
<1>1. MaxAttempts \in Nat \ {0} /\ 0 \in 0..MaxAttempts
  BY BoundsAssumption
<1>2. q \in Prep
  BY <1>1 DEF Prep, Ended, ParsedRow
<1>3. /\ q.failures = 0 /\ q.status = p.status /\ q.due = d /\ ~q.lapsed /\ q.lease = p.lease
      /\ SameIntent(q, p)
  BY DEF Prep, SameIntent, ParsedRow
<1>4. QED  BY <1>1, <1>2, <1>3 DEF Sound

ClaimedRow(p, l) == [p EXCEPT !.due = "CLAIMED", !.lapsed = FALSE, !.lease = l]

LEMMA ClaimedFacts ==
  ASSUME NEW p, Sound(p), p.due # "NEVER", NEW l \in 0..MaxFaults
  PROVE  LET q == ClaimedRow(p, l) IN
           /\ Sound(q) /\ SameIntent(q, p) /\ q.status = p.status
           /\ q.due = "CLAIMED" /\ ~q.lapsed /\ q.lease = l
BY DEF Sound, SameIntent, Prep, ClaimedRow

RefreshedRow(p) == [p EXCEPT !.failures = 0, !.due = "NOW"]

LEMMA RefreshedFacts ==
  ASSUME NEW p, Sound(p), p.due = "NEVER"
  PROVE  /\ Sound(RefreshedRow(p)) /\ SameIntent(RefreshedRow(p), p) /\ RefreshedRow(p).status = p.status
         /\ RefreshedRow(p).due = "NOW" /\ ~RefreshedRow(p).lapsed /\ RefreshedRow(p).lease = p.lease
<1>1. MaxAttempts \in Nat \ {0} /\ 0 \in 0..MaxAttempts
  BY BoundsAssumption
<1>2. p \in Prep /\ ~p.lapsed
  BY DEF Sound, Prep
<1>3. RefreshedRow(p) \in Prep
  BY <1>1, <1>2 DEF RefreshedRow, Prep
<1>4. /\ RefreshedRow(p).status = p.status /\ RefreshedRow(p).due = "NOW" /\ ~RefreshedRow(p).lapsed
      /\ RefreshedRow(p).lease = p.lease /\ RefreshedRow(p).failures = 0 /\ SameIntent(RefreshedRow(p), p)
  BY <1>2 DEF RefreshedRow, Prep, SameIntent
<1>5. QED  BY <1>1, <1>3, <1>4 DEF Sound

LapsedRow(p) == [p EXCEPT !.lapsed = TRUE]

LEMMA LapsedFacts ==
  ASSUME NEW p, Sound(p), p.due = "CLAIMED"
  PROVE  LET q == LapsedRow(p) IN
           /\ Sound(q) /\ SameIntent(q, p) /\ q.status = p.status
           /\ q.due = "CLAIMED" /\ q.lease = p.lease
BY DEF Sound, SameIntent, Prep, LapsedRow

OldRow(p) == [p EXCEPT !.young = FALSE]

LEMMA OldFacts ==
  ASSUME NEW p, Sound(p)
  PROVE  LET q == OldRow(p) IN
           /\ Sound(q) /\ SameIntent(q, p) /\ q.status = p.status
           /\ q.due = p.due /\ q.lapsed = p.lapsed /\ q.lease = p.lease
BY DEF Sound, SameIntent, Prep, OldRow

-----------------------------------------------------------------------------
(* Kinds of steps *)

\* Bounds are natural numbers, and so are the rows.
LEMMA Numbers ==
  /\ MaxPreps \in Nat /\ MaxActs \in Nat /\ MaxFaults \in Nat /\ MaxAttempts \in Nat \ {0}
  /\ Preps = 1..MaxPreps /\ NoRetry \notin Preps
BY BoundsAssumption DEF Preps, NoRetry

\* Every row is sound between steps.
LEMMA RowsAreSound ==
  ASSUME TypeOK, Attempts, NEW i \in Preps
  PROVE  Sound(prep[i])
BY DEF TypeOK, Attempts, Sound

\* A handler writes one row that exists and leaves its intent alone.
Written(i, p) ==
  /\ i \in Preps /\ i <= made
  /\ prep' = [prep EXCEPT ![i] = p]
  /\ Sound(p) /\ SameIntent(p, prep[i])

RowStep ==
  /\ \E i \in Preps, p \in Prep :
       /\ Written(i, p)
       /\ p.status = "ACTIVATED" => prep[i].status = "ACTIVATED"
       /\ Live(prep[i]) => Live(p)
  /\ UNCHANGED <<registered, config, pub, made, retry>>

SwitchStep == \E c \in calls : Switch(c) /\ Written(c.row, Over(prep[c.row], "ACTIVATED"))

Aside == UNCHANGED <<config, prep, made>>

\* The answer to c is settled: the row is not claimed any more.
Answered(c) ==
  /\ \E p \in Prep : /\ prep' = [prep EXCEPT ![c.row] = p]
                     /\ p.due # "CLAIMED" /\ ~p.lapsed /\ p.lease = prep[c.row].lease
  /\ calls' = calls \ {c} /\ faults' = faults

BeginStep  == \E r \in Releases : pub[r].state = "PENDING" /\ ~Outdated(r) /\ Begin(r)
StagedStep == \E r \in Releases : ActivateStaged(r)
NowStep    == \E r \in Releases : ActivateNow(r)

LEMMA CallFacts ==
  ASSUME TypeOK, Rows, Attempts, NEW c \in calls, Held(c)
  PROVE  /\ c.row \in Preps /\ c.row <= made
         /\ prep[c.row] \in Prep /\ Sound(prep[c.row]) /\ prep[c.row].failures < MaxAttempts
<1>1. c.row \in Preps
  BY DEF TypeOK, Calls
<1>2. c.row <= made
  BY <1>1, Numbers DEF Rows, Held, TypeOK
<1>3. QED  BY <1>1, <1>2, RowsAreSound DEF TypeOK, Attempts, Held

LEMMA ParseStep ==
  ASSUME TypeOK, Rows, Attempts, NEW c \in calls, NEW o \in {"RUNNING"} \cup Ended, Parse(c, o)
  PROVE  RowStep /\ Answered(c)
<1> DEFINE p == prep[c.row]
           d == IF c.kind = "GET" /\ o \in Ended /\ p.status # "PENDING" THEN "NEVER" ELSE "NOW"
           q == ParsedRow(p, o, d)
<1>1. Held(c) /\ prep' = [prep EXCEPT ![c.row] = Judge(q)]
  BY DEF Parse, Settle, ParsedRow
<1>2. c.row \in Preps /\ c.row <= made /\ p \in Prep
  BY <1>1, CallFacts
<1>3. d \in {"NEVER", "NOW"}
  OBVIOUS
<1> HIDE DEF d
<1>4. /\ Sound(q) /\ SameIntent(q, p) /\ q.status = p.status
      /\ q.due # "CLAIMED" /\ ~q.lapsed /\ q.lease = p.lease
  BY <1>2, <1>3, ParsedFacts
<1> HIDE DEF q
<1>5. /\ Sound(Judge(q)) /\ SameIntent(Judge(q), q) /\ (Judge(q).status = "ACTIVATED" => q.status = "ACTIVATED")
      /\ Judge(q).due # "CLAIMED" /\ ~Judge(q).lapsed /\ Judge(q).lease = p.lease
      /\ Live(p) => Live(Judge(q))
  BY <1>4, JudgeFacts DEF Live
<1>6. SameIntent(Judge(q), p) /\ Judge(q) \in Prep
  BY <1>4, <1>5 DEF SameIntent, Sound
<1>7. UNCHANGED <<registered, config, pub, made, retry>> /\ calls' = calls \ {c} /\ faults' = faults
  BY DEF Parse, Settle, bounds
<1>8. RowStep
  BY <1>1, <1>2, <1>4, <1>5, <1>6, <1>7 DEF RowStep, Written
<1>9. Answered(c)
  BY <1>1, <1>5, <1>6, <1>7 DEF Answered
<1>10. QED  BY <1>8, <1>9

LEMMA FailsStep ==
  ASSUME TypeOK, Rows, Attempts, NEW c \in calls, CallFails(c) \/ NotReady(c)
  PROVE  RowStep /\ Answered(c)
<1> DEFINE p == prep[c.row]
<1>1. Held(c)
  BY DEF CallFails, NotReady, Query
<1>2. c.row \in Preps /\ c.row <= made /\ p \in Prep /\ p.failures < MaxAttempts
  BY <1>1, CallFacts
<1>3. PICK error, q : /\ prep' = [prep EXCEPT ![c.row] = Judge(q)]
                      /\ \/ q = Fail(p, error)
                         \/ \E b \in BOOLEAN : q = [Fail(p, error) EXCEPT !.refused = b]
  <2>1. CASE CallFails(c)
    <3>1. PICK error : prep' = [prep EXCEPT ![c.row] =
                 Judge([Fail(p, error) EXCEPT !.refused = c.kind = "POST" /\ error = "PERMANENT"])]
      BY <2>1 DEF CallFails, Settle
    <3>2. (c.kind = "POST" /\ error = "PERMANENT") \in BOOLEAN
      OBVIOUS
    <3>3. QED  BY <3>1, <3>2
  <2>2. CASE NotReady(c)
    <3>1. PICK error : prep' = [prep EXCEPT ![c.row] = Judge(Fail(p, error))]
      BY <2>2 DEF NotReady, Settle
    <3>2. QED  BY <3>1
  <2>3. QED  BY <2>1, <2>2
<1>4. /\ Sound(Fail(p, error)) /\ SameIntent(Fail(p, error), p) /\ Fail(p, error).status = p.status
      /\ Fail(p, error).due # "CLAIMED" /\ ~Fail(p, error).lapsed /\ Fail(p, error).lease = p.lease
  BY <1>2, FailFacts
<1>5. /\ Sound(q) /\ SameIntent(q, p) /\ q.status = p.status
      /\ q.due # "CLAIMED" /\ ~q.lapsed /\ q.lease = p.lease
  <2>1. CASE q = Fail(p, error)
    BY <1>4, <2>1
  <2>2. ASSUME NEW b \in BOOLEAN, q = [Fail(p, error) EXCEPT !.refused = b]
        PROVE  /\ Sound(q) /\ SameIntent(q, p) /\ q.status = p.status
               /\ q.due # "CLAIMED" /\ ~q.lapsed /\ q.lease = p.lease
    <3>1. /\ Sound(q) /\ SameIntent(q, Fail(p, error)) /\ q.status = Fail(p, error).status
          /\ q.due = Fail(p, error).due /\ q.lapsed = Fail(p, error).lapsed /\ q.lease = Fail(p, error).lease
      BY <1>4, <2>2, RefusedFacts
    <3>2. QED  BY <1>4, <3>1 DEF SameIntent
  <2>3. QED  BY <1>3, <2>1, <2>2
<1>6. /\ Sound(Judge(q)) /\ SameIntent(Judge(q), q) /\ (Judge(q).status = "ACTIVATED" => q.status = "ACTIVATED")
      /\ Judge(q).due # "CLAIMED" /\ ~Judge(q).lapsed /\ Judge(q).lease = p.lease
      /\ Live(p) => Live(Judge(q))
  BY <1>5, JudgeFacts DEF Live
<1>7. SameIntent(Judge(q), p) /\ Judge(q) \in Prep
  BY <1>5, <1>6 DEF SameIntent, Sound
<1>8. UNCHANGED <<registered, config, pub, made, retry>> /\ calls' = calls \ {c} /\ faults' = faults
  BY DEF CallFails, NotReady, Settle, bounds
<1>9. RowStep
  BY <1>2, <1>3, <1>5, <1>6, <1>7, <1>8 DEF RowStep, Written
<1>10. Answered(c)
  BY <1>3, <1>6, <1>7, <1>8 DEF Answered
<1>11. QED  BY <1>9, <1>10

LEMMA AnswerStep ==
  ASSUME TypeOK, Rows, Attempts, NEW c \in calls, Answer(c)
  PROVE  /\ (Aside /\ UNCHANGED <<registered, pub, retry>>) \/ RowStep \/ SwitchStep
         /\ (~Held(c) /\ prep' = prep /\ calls' = calls \ {c} /\ faults' = faults) \/ Answered(c)
<1>1. CASE Drop(c)
  <2>1. prep' = [prep EXCEPT ![c.row] = prep[c.row]]
    BY <1>1 DEF Drop, Settle
  <2>2. prep' = prep
    BY <2>1 DEF TypeOK
  <2>3. QED  BY <1>1, <2>2 DEF Drop, Settle, Aside, bounds
<1>2. CASE CallFails(c) \/ NotReady(c)
  BY <1>2, FailsStep
<1>3. ASSUME NEW o \in {"RUNNING"} \cup Ended, Parse(c, o)
      PROVE  RowStep /\ Answered(c)
  BY <1>3, ParseStep
<1>4. CASE Lapse(c)
  <2>1. Held(c) /\ prep' = [prep EXCEPT ![c.row] = Over(prep[c.row], "SUPERSEDED")]
    BY <1>4 DEF Lapse, Query, Settle
  <2>2. /\ Sound(Over(prep[c.row], "SUPERSEDED"))
        /\ SameIntent(Over(prep[c.row], "SUPERSEDED"), prep[c.row])
        /\ Over(prep[c.row], "SUPERSEDED").status = "SUPERSEDED"
        /\ Over(prep[c.row], "SUPERSEDED").due # "CLAIMED" /\ ~Over(prep[c.row], "SUPERSEDED").lapsed
        /\ Over(prep[c.row], "SUPERSEDED").lease = prep[c.row].lease
    BY <2>1, CallFacts, OverFacts DEF Decided
  <2>3. c.row \in Preps /\ c.row <= made /\ Over(prep[c.row], "SUPERSEDED") \in Prep
    BY <2>1, <2>2, CallFacts DEF Sound
  <2>4. RowStep
    BY <1>4, <2>1, <2>2, <2>3 DEF Lapse, Settle, RowStep, Written, Live
  <2>5. Answered(c)
    BY <1>4, <2>1, <2>2, <2>3 DEF Lapse, Settle, Answered, bounds
  <2>6. QED  BY <2>4, <2>5
<1>5. CASE Switch(c)
  <2>1. Held(c) /\ prep' = [prep EXCEPT ![c.row] = Over(prep[c.row], "ACTIVATED")]
    BY <1>5 DEF Switch, Query, Settle
  <2>2. Written(c.row, Over(prep[c.row], "ACTIVATED"))
    BY <2>1, CallFacts, OverFacts DEF Written, Decided
  <2>3. /\ Over(prep[c.row], "ACTIVATED").due # "CLAIMED" /\ ~Over(prep[c.row], "ACTIVATED").lapsed
        /\ Over(prep[c.row], "ACTIVATED").lease = prep[c.row].lease
        /\ Over(prep[c.row], "ACTIVATED") \in Prep
    BY <2>1, CallFacts, OverFacts DEF Decided, Sound
  <2>4. Answered(c)
    BY <1>5, <2>1, <2>3 DEF Switch, Settle, Answered, bounds
  <2>5. QED  BY <1>5, <2>2, <2>4 DEF SwitchStep
<1>6. QED  BY <1>1, <1>2, <1>3, <1>4, <1>5 DEF Answer

LEMMA ClaimStep ==
  ASSUME TypeOK, Rows, Attempts, Leases, NEW i \in Preps, Claim(i)
  PROVE  LET l == prep[i].lease + IF prep[i].lapsed THEN 1 ELSE 0 IN
           /\ RowStep /\ i <= made /\ l \in 0..MaxFaults /\ l <= faults
           /\ prep' = [prep EXCEPT ![i] = ClaimedRow(prep[i], l)]
           /\ calls' = calls \cup {[row |-> i, kind |-> CallFor(prep[i]), lease |-> l]}
           /\ faults' = faults
<1> DEFINE l == prep[i].lease + IF prep[i].lapsed THEN 1 ELSE 0
<1>1. /\ prep' = [prep EXCEPT ![i] = ClaimedRow(prep[i], l)]
      /\ calls' = calls \cup {[row |-> i, kind |-> CallFor(prep[i]), lease |-> l]}
      /\ UNCHANGED <<registered, config, pub, made, retry, bounds>>
  BY DEF Claim, ClaimedRow
<1>2. Sound(prep[i]) /\ prep[i].due # "NEVER"
  BY RowsAreSound DEF Claim, Claimable, Attempts
<1>3. i <= made
  BY <1>2, Numbers DEF Rows, TypeOK
<1>4. prep[i].lease \in Nat /\ faults \in 0..MaxFaults /\ MaxFaults \in Nat
  BY <1>2, Numbers DEF TypeOK, Sound, Prep
<1>5. l \in 0..MaxFaults /\ l <= faults
  BY <1>4 DEF Leases
<1> HIDE DEF l
<1>6. LET q == ClaimedRow(prep[i], l) IN
        Sound(q) /\ SameIntent(q, prep[i]) /\ q.status = prep[i].status /\ q.due = "CLAIMED"
  BY <1>2, <1>5, ClaimedFacts
<1>7. RowStep
  BY <1>1, <1>3, <1>6 DEF RowStep, Written, Sound, Live
<1>8. QED  BY <1>1, <1>3, <1>5, <1>7 DEF bounds, l

LEMMA RefuseStep ==
  ASSUME TypeOK, Rows, Attempts, NEW i \in Preps, ConfigRefuses(i)
  PROVE  RowStep
<1> DEFINE s == IF prep[i].status = "PENDING" THEN "FAILED" ELSE prep[i].status
           q == Over(prep[i], s)
<1>1. prep' = [prep EXCEPT ![i] = q] /\ UNCHANGED <<registered, config, pub, made, retry>>
  BY DEF ConfigRefuses
<1>2. Sound(prep[i]) /\ prep[i].due # "NEVER"
  BY RowsAreSound DEF ConfigRefuses, Claimable, Attempts
<1>3. i <= made /\ prep[i] \in Prep
  BY <1>2, Numbers DEF Rows, TypeOK
<1>4. CASE prep[i].status = "NONE"
  <2>1. q = Over(prep[i], "NONE")
    BY <1>4
  <2>2. Sound(q) /\ SameIntent(q, prep[i]) /\ q.status = "NONE"
    BY <1>3, <2>1, ZenonT(60) DEF Over, Prep, Sound, SameIntent
  <2>3. QED  BY <1>1, <1>3, <1>4, <2>2 DEF RowStep, Written, Sound, Live
<1>5. CASE prep[i].status # "NONE"
  <2>1. s \in Decided /\ (s = "ACTIVATED" => prep[i].status = "ACTIVATED")
    BY <1>3, <1>5 DEF Prep, Decided
  <2> HIDE DEF s
  <2>2. Sound(q) /\ SameIntent(q, prep[i]) /\ q.status = s
    BY <1>3, <2>1, OverFacts
  <2>3. QED  BY <1>1, <1>3, <2>1, <2>2 DEF RowStep, Written, Sound, Live, Decided
<1>6. QED  BY <1>4, <1>5

LEMMA OtherRowStep ==
  ASSUME TypeOK, Rows, Attempts, Newer, NEW i \in Preps, Refresh(i) \/ LeaseEnds(i) \/ GrowOld(i)
  PROVE  RowStep
<1>1. CASE Refresh(i)
  <2>1. prep' = [prep EXCEPT ![i] = RefreshedRow(prep[i])] /\ prep[i].due = "NEVER" /\ prep[i].status = "FAILED"
    BY <1>1 DEF Refresh, RefreshedRow
  <2>2. i <= made
    BY <2>1, Numbers DEF Rows, TypeOK
  <2>3. LET q == RefreshedRow(prep[i]) IN Sound(q) /\ SameIntent(q, prep[i]) /\ q.status = prep[i].status
    BY <2>1, RowsAreSound, RefreshedFacts
  <2>4. QED  BY <1>1, <2>1, <2>2, <2>3 DEF Refresh, RowStep, Written, Sound, Live
<1>2. CASE LeaseEnds(i)
  <2>1. prep' = [prep EXCEPT ![i] = LapsedRow(prep[i])] /\ prep[i].due = "CLAIMED"
    BY <1>2 DEF LeaseEnds, LapsedRow
  <2>2. i <= made
    BY <2>1, Numbers DEF Rows, TypeOK
  <2>3. LET q == LapsedRow(prep[i]) IN
          Sound(q) /\ SameIntent(q, prep[i]) /\ q.status = prep[i].status /\ q.due = "CLAIMED"
    BY <2>1, RowsAreSound, LapsedFacts
  <2>4. QED  BY <1>2, <2>1, <2>2, <2>3 DEF LeaseEnds, RowStep, Written, Sound, Live
<1>3. CASE GrowOld(i)
  <2>1. prep' = [prep EXCEPT ![i] = OldRow(prep[i])]
    BY <1>3 DEF GrowOld, OldRow
  <2>2. i <= made
    BY <1>3 DEF GrowOld, PolicyPending, Newer
  <2>3. LET q == OldRow(prep[i]) IN
          Sound(q) /\ SameIntent(q, prep[i]) /\ q.status = prep[i].status /\ q.due = prep[i].due
    BY RowsAreSound, OldFacts
  <2>4. QED  BY <1>3, <2>1, <2>2, <2>3 DEF GrowOld, RowStep, Written, Sound, Live
<1>4. QED  BY <1>1, <1>2, <1>3

\* Every step is of one of these kinds.
LEMMA StepKinds ==
  ASSUME TypeOK, Rows, Attempts, Leases, Newer, [Next]_vars
  PROVE  \/ Aside \/ RowStep \/ SwitchStep \/ BeginStep \/ StagedStep \/ NowStep \/ RetryCreate
<1>1. ASSUME NEW r \in Releases, Register(r) \/ Record(r) \/ Follow(r)
      PROVE  Aside
  BY <1>1 DEF Register, Record, Follow, Aside
<1>2. ASSUME NEW r \in Releases, Process(r)
      PROVE  Aside \/ BeginStep
  BY <1>2 DEF Process, Close, Aside, BeginStep
<1>3. ASSUME NEW r \in Releases, ActivateStaged(r) \/ ActivateNow(r)
      PROVE  StagedStep \/ NowStep
  BY <1>3 DEF StagedStep, NowStep
<1>4. ASSUME NEW i \in Preps, RetryRead(i)
      PROVE  Aside
  BY <1>4 DEF RetryRead, Aside
<1>5. ASSUME NEW i \in Preps, Refresh(i) \/ LeaseEnds(i) \/ GrowOld(i)
      PROVE  RowStep
  BY <1>5, OtherRowStep
<1>6. ASSUME NEW i \in Preps, Claim(i)
      PROVE  RowStep
  BY <1>6, ClaimStep
<1>7. ASSUME NEW i \in Preps, ConfigRefuses(i)
      PROVE  RowStep
  BY <1>7, RefuseStep
<1>8. ASSUME NEW c \in calls, Answer(c)
      PROVE  Aside \/ RowStep \/ SwitchStep
  BY <1>8, AnswerStep
<1>9. ASSUME NEW c \in calls, Die(c)
      PROVE  Aside
  BY <1>9 DEF Die, Aside
<1>10. CASE UNCHANGED vars
  BY <1>10 DEF vars, Aside
<1>11. QED
  BY <1>1, <1>2, <1>3, <1>4, <1>5, <1>6, <1>7, <1>8, <1>9, <1>10 DEF Next

\* Superseding rows leaves their intents, their leases and their calls.
LEMMA SupersedeFacts ==
  ASSUME TypeOK, Attempts, NEW i \in Preps
  PROVE  LET q == Supersede(prep)[i] IN
           /\ Sound(q) /\ SameIntent(q, prep[i])
           /\ q.status = "ACTIVATED" => prep[i].status = "ACTIVATED"
           /\ prep[i].status = "NONE" => q = prep[i]
           /\ q.due \in {prep[i].due, "NEVER"} /\ (q.lapsed => prep[i].lapsed)
           /\ q.lease = prep[i].lease
           /\ Live(prep[i]) => Live(q)
<1> DEFINE q == Supersede(prep)[i]
<1>1. Sound(prep[i]) /\ prep[i] \in Prep
  BY RowsAreSound DEF TypeOK
<1>2. CASE prep[i].status = "PENDING"
  <2>1. q = Over(prep[i], "SUPERSEDED")
    BY <1>2 DEF Supersede
  <2> HIDE DEF q
  <2>2. /\ Sound(q) /\ SameIntent(q, prep[i]) /\ q.status = "SUPERSEDED" /\ q.due = "NEVER" /\ ~q.lapsed
        /\ q.lease = prep[i].lease
    BY <1>1, <2>1, OverFacts DEF Decided
  <2>3. QED  BY <1>2, <2>2 DEF q, Live
<1>3. CASE prep[i].status # "PENDING"
  <2>1. q = prep[i]
    BY <1>3 DEF Supersede
  <2>2. QED  BY <1>1, <2>1 DEF SameIntent
<1>4. QED  BY <1>2, <1>3

\* A request is added to the rows, be they superseded or not.
Created(rows, p) ==
  /\ rows \in {prep, Supersede(prep)}
  /\ made + 1 \in Preps /\ made' = made + 1
  /\ prep' = [rows EXCEPT ![made + 1] = p]
  /\ Fresh(p)

LEMMA RoomFacts ==
  ASSUME TypeOK, Room
  PROVE  made + 1 \in Preps /\ (retry # NoRetry => made + 1 < MaxPreps)
BY Numbers DEF TypeOK, Room

LEMMA BeginCreates ==
  ASSUME TypeOK, NEW r \in Releases, Begin(r)
  PROVE  Created(Supersede(prep), Request(r, generation + 1, current, pub[r].asked, TRUE))
<1>1. generation + 1 \in Nat /\ current \in Releases /\ pub[r].asked \in Nat
  BY DEF TypeOK, Publication
<1> DEFINE q == Request(r, generation + 1, current, pub[r].asked, TRUE)
<1>2. Fresh(q)
  BY <1>1, RequestFacts
<1>3. prep' = [Supersede(prep) EXCEPT ![made + 1] = q] /\ made' = made + 1
  BY DEF Begin
<1> HIDE DEF q
<1>4. Created(Supersede(prep), q)
  BY <1>2, <1>3, RoomFacts DEF Created, Begin
<1>5. QED  BY <1>4 DEF q

LEMMA StagedCreates ==
  ASSUME TypeOK, NEW r \in Releases, ActivateStaged(r)
  PROVE  Created(Supersede(prep), Request(r, generation + 1, current, decisions + 1, FALSE))
<1>1. generation + 1 \in Nat /\ current \in Releases /\ decisions + 1 \in Nat
  BY DEF TypeOK
<1> DEFINE q == Request(r, generation + 1, current, decisions + 1, FALSE)
<1>2. Fresh(q)
  BY <1>1, RequestFacts
<1>3. prep' = [Supersede(prep) EXCEPT ![made + 1] = q] /\ made' = made + 1
  BY DEF ActivateStaged
<1> HIDE DEF q
<1>4. Created(Supersede(prep), q)
  BY <1>2, <1>3, RoomFacts DEF Created, ActivateStaged
<1>5. QED  BY <1>4 DEF q

LEMMA RetryCreates ==
  ASSUME TypeOK, Rows, RetryCreate
  PROVE  /\ retry \in Preps /\ retry <= made
         /\ Created(prep, Request(prep[retry].release, prep[retry].generation, prep[retry].previous,
                                  prep[retry].asked, FALSE))
<1>1. retry \in Preps /\ retry <= made /\ made + 1 \in Preps
  BY Numbers DEF RetryCreate, Rows, TypeOK
<1>2. /\ prep[retry].release \in Releases /\ prep[retry].generation \in Nat
      /\ prep[retry].previous \in Releases /\ prep[retry].asked \in Nat
  BY <1>1 DEF TypeOK, Prep
<1> DEFINE q == Request(prep[retry].release, prep[retry].generation, prep[retry].previous,
                          prep[retry].asked, FALSE)
<1>3. Fresh(q)
  BY <1>2, RequestFacts
<1>4. prep' = [prep EXCEPT ![made + 1] = q] /\ made' = made + 1
  BY DEF RetryCreate
<1> HIDE DEF q
<1>5. Created(prep, q)
  BY <1>1, <1>3, <1>4 DEF Created
<1>6. QED  BY <1>1, <1>5 DEF q

\* What a step makes of the rows, whatever its kind.
LEMMA CreatedFacts ==
  ASSUME TypeOK, Attempts, NEW rows, NEW p, Created(rows, p)
  PROVE  /\ prep' \in [Preps -> Prep]
         /\ prep'[made + 1] = p
         /\ \A i \in Preps : i # made + 1 => prep'[i] = rows[i]
         /\ \A i \in Preps : Sound(prep'[i])
         /\ \A i \in Preps : i # made + 1 => SameIntent(prep'[i], prep[i])
         /\ \A i \in Preps : i # made + 1 /\ Live(prep[i]) => Live(prep'[i])
<1>1. /\ rows \in [Preps -> Prep]
      /\ \A i \in Preps : /\ Sound(rows[i]) /\ SameIntent(rows[i], prep[i])
                          /\ Live(prep[i]) => Live(rows[i])
  <2>1. CASE rows = prep
    BY <2>1, RowsAreSound DEF TypeOK, SameIntent
  <2>2. CASE rows = Supersede(prep)
    <3>1. \A i \in Preps : Supersede(prep)[i] \in Prep
      BY SupersedeFacts DEF Sound
    <3>2. Supersede(prep) \in [Preps -> Prep]
      BY <3>1 DEF Supersede
    <3>3. QED  BY <2>2, <3>2, SupersedeFacts
  <2>3. QED  BY <2>1, <2>2 DEF Created
<1>2. p \in Prep /\ made + 1 \in Preps /\ prep' = [rows EXCEPT ![made + 1] = p] /\ Sound(p)
  BY DEF Created, Sound, Fresh
<1>3. prep' \in [Preps -> Prep] /\ prep'[made + 1] = p /\ \A i \in Preps : i # made + 1 => prep'[i] = rows[i]
  BY <1>1, <1>2
<1>4. QED  BY <1>1, <1>2, <1>3

LEMMA WrittenFacts ==
  ASSUME TypeOK, Attempts, NEW i \in Preps, NEW p, Written(i, p)
  PROVE  /\ prep' \in [Preps -> Prep]
         /\ prep'[i] = p
         /\ \A j \in Preps : j # i => prep'[j] = prep[j]
         /\ \A j \in Preps : Sound(prep'[j]) /\ SameIntent(prep'[j], prep[j])
<1>1. prep' \in [Preps -> Prep] /\ prep'[i] = p /\ \A j \in Preps : j # i => prep'[j] = prep[j]
  BY DEF Written, Sound, TypeOK
<1>2. \A j \in Preps : Sound(prep[j]) /\ SameIntent(prep[j], prep[j])
  BY RowsAreSound DEF SameIntent
<1>3. QED  BY <1>1, <1>2 DEF Written

LEMMA NowFacts ==
  ASSUME TypeOK, Attempts, NEW r \in Releases, ActivateNow(r)
  PROVE  /\ prep' \in [Preps -> Prep]
         /\ \A i \in Preps : Sound(prep'[i]) /\ SameIntent(prep'[i], prep[i])
<1>1. prep' = Supersede(prep)
  BY DEF ActivateNow
<1>2. \A i \in Preps : Supersede(prep)[i] \in Prep
  BY SupersedeFacts DEF Sound
<1>3. Supersede(prep) \in [Preps -> Prep]
  BY <1>2 DEF Supersede
<1>4. QED  BY <1>1, <1>3, SupersedeFacts

\* Rows keep their intents for ever, and are sound; at most one is added.
LEMMA IntentsStay ==
  ASSUME TypeOK, Rows, Attempts, Leases, Newer, [Next]_vars
  PROVE  /\ prep' \in [Preps -> Prep] /\ made' \in 0..MaxPreps /\ made <= made'
         /\ \A i \in Preps : Sound(prep'[i])
         /\ \A i \in Preps : i <= made => SameIntent(prep'[i], prep[i])
<1> DEFINE Goal == /\ prep' \in [Preps -> Prep] /\ made' \in 0..MaxPreps /\ made <= made'
                   /\ \A i \in Preps : Sound(prep'[i])
                   /\ \A i \in Preps : i <= made => SameIntent(prep'[i], prep[i])
<1>1. CASE Aside
  BY <1>1, RowsAreSound DEF Aside, TypeOK, SameIntent
<1>2. ASSUME NEW i \in Preps, NEW p, Written(i, p), made' = made
      PROVE  Goal
  BY <1>2, WrittenFacts DEF TypeOK
<1>3. CASE RowStep
  BY <1>2, <1>3 DEF RowStep
<1>4. CASE SwitchStep
  <2>1. PICK c \in calls : Switch(c) /\ Written(c.row, Over(prep[c.row], "ACTIVATED"))
    BY <1>4 DEF SwitchStep
  <2>2. c.row \in Preps /\ made' = made
    BY <2>1 DEF Written, Switch, Settle
  <2>3. QED  BY <1>2, <2>1, <2>2
<1>5. ASSUME NEW r \in Releases, ActivateNow(r)
      PROVE  Goal
  BY <1>5, NowFacts DEF ActivateNow, TypeOK
<1>6. ASSUME NEW rows, NEW p, Created(rows, p)
      PROVE  Goal
  <2>1. made + 1 \in Preps /\ made' = made + 1 /\ made \in 0..MaxPreps
    BY <1>6 DEF Created, TypeOK
  <2>2. made' \in 0..MaxPreps /\ made <= made' /\ \A i \in Preps : i <= made => i # made + 1
    BY <2>1, Numbers
  <2>3. QED  BY <1>6, <2>2, CreatedFacts
<1>7. CASE BeginStep \/ StagedStep \/ RetryCreate
  BY <1>6, <1>7, BeginCreates, StagedCreates, RetryCreates DEF BeginStep, StagedStep
<1>8. QED
  BY <1>1, <1>3, <1>4, <1>5, <1>7, StepKinds DEF NowStep

-----------------------------------------------------------------------------
(* What a step makes of the publications and of the fence *)

Waits(p, release, g, asked) ==
  p.state = "PENDING" /\ p.release = release /\ p.generation = g /\ p.asked = asked

\* No transition: publications are followed, closed or recorded.
StandsStep ==
  /\ UNCHANGED config
  /\ pub' \in [Releases -> Publication]
  /\ \A r \in Releases : \/ pub'[r] = pub[r]
                         \/ pub'[r].state # "PENDING" /\ pub'[r].preparation = pub[r].preparation
                         \/ Waits(pub'[r], current, generation, decisions) /\ pub'[r].preparation = 0

\* An automatic transition: what waits is carried.
CarryStep ==
  /\ current' \in Releases /\ generation' = generation + 1 /\ decisions' = decisions
  /\ pub' \in [Releases -> Publication]
  /\ \A r \in Releases : pub'[r].state = "PENDING" => pub'[r] = Carry(current', {})[r]

\* An operator's decision.
DecisionStep ==
  /\ current' \in Releases /\ generation' = generation + 1 /\ decisions' = decisions + 1
  /\ UNCHANGED pub

LEMMA CarryFacts ==
  ASSUME TypeOK, NEW new \in Releases, NEW begun
  PROVE  /\ Carry(new, begun) \in [Releases -> Publication]
         /\ \A r \in Releases : /\ Carry(new, begun)[r].preparation = pub[r].preparation
                                /\ Carry(new, begun)[r].state = pub[r].state
<1>1. generation + 1 \in Nat
  BY DEF TypeOK
<1>2. ASSUME NEW r \in Releases
      PROVE  /\ Carry(new, begun)[r] \in Publication
             /\ Carry(new, begun)[r].preparation = pub[r].preparation
             /\ Carry(new, begun)[r].state = pub[r].state
  <2>1. pub[r] \in Publication
    BY DEF TypeOK
  <2> DEFINE moved == [pub[r] EXCEPT !.release = new, !.generation = generation + 1]
  <2>2. moved \in Publication /\ moved.preparation = pub[r].preparation /\ moved.state = pub[r].state
    BY <1>1, <2>1 DEF Publication
  <2>3. Carry(new, begun)[r] \in {moved, pub[r]}
    BY DEF Carry
  <2> HIDE DEF moved
  <2>4. QED  BY <2>1, <2>2, <2>3
<1>3. Carry(new, begun) = [r \in Releases |-> Carry(new, begun)[r]]
  BY DEF Carry
<1>4. QED  BY <1>2, <1>3

LEMMA StandsFacts ==
  ASSUME TypeOK, NEW r \in Releases, NEW p \in Publication, UNCHANGED config,
         pub' = [pub EXCEPT ![r] = p],
         \/ p.state # "PENDING" /\ p.preparation = pub[r].preparation
         \/ Waits(p, current, generation, decisions) /\ p.preparation = 0
  PROVE  StandsStep
<1>1. pub' \in [Releases -> Publication] /\ pub'[r] = p /\ \A q \in Releases : q # r => pub'[q] = pub[q]
  BY DEF TypeOK
<1>2. QED  BY <1>1 DEF StandsStep

WithState(p, s) == [p EXCEPT !.state = s]

LEMMA WithStateFacts ==
  ASSUME NEW p \in Publication, NEW s \in {"PREPARING", "HELD"} \cup Decided
  PROVE  /\ WithState(p, s) \in Publication /\ WithState(p, s).state = s
         /\ WithState(p, s).preparation = p.preparation /\ s # "PENDING"
BY DEF WithState, Publication, Decided

LEMMA RecordStands ==
  ASSUME TypeOK, NEW r \in Releases, Record(r)
  PROVE  StandsStep
<1> DEFINE p == [state |-> "PENDING", release |-> current, generation |-> generation,
                 preparation |-> 0, asked |-> decisions]
<1>1. 0 \in 0..MaxPreps
  BY Numbers
<1>2. p \in Publication
  BY <1>1 DEF Publication, TypeOK
<1>3. Waits(p, current, generation, decisions) /\ p.preparation = 0
  BY DEF Waits
<1>4. pub' = [pub EXCEPT ![r] = p] /\ UNCHANGED config
  BY DEF Record
<1> HIDE DEF p
<1>5. QED  BY <1>2, <1>3, <1>4, StandsFacts

LEMMA StateStands ==
  ASSUME TypeOK, NEW r \in Releases, NEW s \in {"PREPARING", "HELD"} \cup Decided,
         pub' = [pub EXCEPT ![r].state = s], UNCHANGED config
  PROVE  StandsStep
<1>1. pub' = [pub EXCEPT ![r] = WithState(pub[r], s)]
  BY DEF WithState
<1>2. pub[r] \in Publication
  BY DEF TypeOK
<1>3. /\ WithState(pub[r], s) \in Publication
      /\ WithState(pub[r], s).state # "PENDING" /\ WithState(pub[r], s).preparation = pub[r].preparation
  BY <1>2, WithStateFacts
<1>4. QED  BY <1>1, <1>3, StandsFacts

BegunBy(p, i) == [p EXCEPT !.state = "PREPARING", !.preparation = i]

LEMMA BegunFacts ==
  ASSUME NEW p \in Publication, NEW i \in 0..MaxPreps
  PROVE  /\ BegunBy(p, i) \in Publication
         /\ BegunBy(p, i).state = "PREPARING" /\ BegunBy(p, i).preparation = i
BY DEF BegunBy, Publication

LEMMA BeginCarries ==
  ASSUME TypeOK, NEW r \in Releases, Begin(r)
  PROVE  /\ CarryStep /\ pub'[r].preparation = made + 1 /\ pub'[r].state = "PREPARING"
         /\ \A q \in Releases : q # r => /\ pub'[q].preparation = pub[q].preparation
                                         /\ pub'[q].state = pub[q].state
<1> DEFINE k == Carry(current, {r})
           p == BegunBy(k[r], made + 1)
<1>1. /\ current' = current /\ generation' = generation + 1 /\ decisions' = decisions
      /\ pub' = [Carry(current, {r}) EXCEPT ![r].state = "PREPARING", ![r].preparation = made + 1]
  BY DEF Begin
<1>2. /\ k \in [Releases -> Publication]
      /\ \A q \in Releases : k[q].preparation = pub[q].preparation /\ k[q].state = pub[q].state
  BY CarryFacts DEF TypeOK
<1>3. \A q \in Releases : q # r => k[q] = Carry(current, {})[q]
  BY DEF Carry
<1>4. made + 1 \in 0..MaxPreps
  BY RoomFacts, Numbers DEF Begin
<1> HIDE DEF k
<1>5. pub' = [k EXCEPT ![r] = p]
  BY <1>1, <1>2 DEF k, BegunBy
<1>6. p \in Publication /\ p.state = "PREPARING" /\ p.preparation = made + 1
  BY <1>2, <1>4, BegunFacts
<1> HIDE DEF p
<1>7. pub' \in [Releases -> Publication] /\ pub'[r] = p /\ \A q \in Releases : q # r => pub'[q] = k[q]
  BY <1>2, <1>5, <1>6
<1>8. CarryStep
  BY <1>1, <1>3, <1>6, <1>7 DEF CarryStep, TypeOK
<1>9. QED  BY <1>2, <1>6, <1>7, <1>8

LEMMA SwitchTransition ==
  ASSUME TypeOK, NEW c \in calls, Switch(c)
  PROVE  /\ IF Automatic(c.row) THEN CarryStep ELSE DecisionStep
         /\ \A r \in Releases : pub'[r].preparation = pub[r].preparation
<1>1. c.row \in Preps
  BY DEF TypeOK, Calls
<1>2. current' \in Releases /\ generation' = generation + 1
  BY <1>1 DEF TypeOK, Switch, Prep
<1>3. CASE Automatic(c.row)
  <2>1. pub' = Carry(current', {}) /\ decisions' = decisions
    BY <1>3 DEF Switch
  <2>2. QED  BY <1>2, <1>3, <2>1, CarryFacts DEF CarryStep
<1>4. CASE ~Automatic(c.row)
  BY <1>2, <1>4 DEF Switch, DecisionStep
<1>5. QED  BY <1>3, <1>4

\* Only four kinds of steps are transitions.
LEMMA TransitionKinds ==
  ASSUME TypeOK, Rows, Attempts, Leases, Newer, [Next]_vars
  PROVE  StandsStep \/ BeginStep \/ StagedStep \/ NowStep \/ SwitchStep
<1>1. ASSUME UNCHANGED <<config, pub>>
      PROVE  StandsStep
  BY <1>1 DEF StandsStep, TypeOK
<1>2. ASSUME NEW r \in Releases, Record(r)
      PROVE  StandsStep
  BY <1>2, RecordStands
<1>3. ASSUME NEW r \in Releases, Follow(r)
      PROVE  StandsStep
  <2>1. /\ pub' = [pub EXCEPT ![r].state = prep[pub[r].preparation].status]
        /\ prep[pub[r].preparation].status \in Decided /\ UNCHANGED config
    BY <1>3 DEF Follow
  <2>2. QED  BY <2>1, StateStands
<1>4. ASSUME NEW r \in Releases, Process(r)
      PROVE  StandsStep \/ BeginStep
  <2>1. ASSUME NEW s \in {"SUPERSEDED", "HELD"}, Close(r, s)
        PROVE  StandsStep
    <3>1. pub' = [pub EXCEPT ![r].state = s] /\ s \in {"PREPARING", "HELD"} \cup Decided /\ UNCHANGED config
      BY <2>1 DEF Close, Decided
    <3>2. QED  BY <3>1, StateStands
  <2>2. QED  BY <1>4, <2>1 DEF Process, BeginStep
<1>5. ASSUME NEW r \in Releases, Register(r)
      PROVE  UNCHANGED <<config, pub>>
  BY <1>5 DEF Register
<1>6. ASSUME NEW i \in Preps, RetryRead(i)
      PROVE  UNCHANGED <<config, pub>>
  BY <1>6 DEF RetryRead
<1>7. ASSUME NEW i \in Preps, Refresh(i) \/ Claim(i) \/ ConfigRefuses(i) \/ LeaseEnds(i) \/ GrowOld(i)
      PROVE  UNCHANGED <<config, pub>>
  BY <1>7 DEF Refresh, Claim, ConfigRefuses, LeaseEnds, GrowOld
<1>8. ASSUME NEW c \in calls, Answer(c)
      PROVE  UNCHANGED <<config, pub>> \/ SwitchStep
  BY <1>8, AnswerStep DEF RowStep, Aside
<1>9. ASSUME NEW c \in calls, Die(c)
      PROVE  UNCHANGED <<config, pub>>
  BY <1>9 DEF Die
<1>10. ASSUME RetryCreate
       PROVE  UNCHANGED <<config, pub>>
  BY <1>10 DEF RetryCreate
<1>11. ASSUME UNCHANGED vars
       PROVE  UNCHANGED <<config, pub>>
  BY <1>11 DEF vars
<1>12. QED
  BY <1>1, <1>2, <1>3, <1>4, <1>5, <1>6, <1>7, <1>8, <1>9, <1>10, <1>11
     DEF Next, StagedStep, NowStep

LEMMA OperatorDecides ==
  ASSUME TypeOK, StagedStep \/ NowStep
  PROVE  DecisionStep
BY DEF StagedStep, NowStep, ActivateStaged, ActivateNow, DecisionStep, TypeOK

LEMMA FenceMoves ==
  ASSUME TypeOK, Rows, Attempts, Leases, Newer, [Next]_vars
  PROVE  StandsStep \/ CarryStep \/ DecisionStep
<1>1. CASE BeginStep
  BY <1>1, BeginCarries DEF BeginStep
<1>2. CASE SwitchStep
  BY <1>2, SwitchTransition DEF SwitchStep
<1>3. QED  BY <1>1, <1>2, TransitionKinds, OperatorDecides

-----------------------------------------------------------------------------
(* The invariant is inductive *)

LEMMA RowsStep ==
  ASSUME TypeOK, Rows, Attempts, Leases, Newer, [Next]_vars
  PROVE  Rows'
<1> DEFINE Unmade == \A i \in Preps : i > made' => prep'[i].status = "NONE" /\ prep'[i].due = "NEVER"
<1>1. made \in 0..MaxPreps /\ MaxPreps \in Nat /\ Preps = 1..MaxPreps /\ NoRetry = 0
  BY Numbers DEF TypeOK, NoRetry
<1>2. Unmade
  <2>1. CASE Aside
    BY <2>1 DEF Aside, Rows
  <2>2. ASSUME NEW i \in Preps, NEW p, Written(i, p), made' = made
        PROVE  Unmade
    <3>1. i <= made /\ \A j \in Preps : j # i => prep'[j] = prep[j]
      BY <2>2, WrittenFacts DEF Written
    <3>2. QED  BY <1>1, <2>2, <3>1 DEF Rows
  <2>3. CASE RowStep
    BY <2>2, <2>3 DEF RowStep
  <2>4. CASE SwitchStep
    <3>1. PICK c \in calls : Switch(c) /\ Written(c.row, Over(prep[c.row], "ACTIVATED"))
      BY <2>4 DEF SwitchStep
    <3>2. c.row \in Preps /\ made' = made
      BY <3>1 DEF Written, Switch, Settle
    <3>3. QED  BY <2>2, <3>1, <3>2
  <2>5. ASSUME NEW i \in Preps, i > made
        PROVE  Supersede(prep)[i].status = "NONE" /\ Supersede(prep)[i].due = "NEVER"
    BY <2>5, SupersedeFacts DEF Rows
  <2>6. ASSUME NEW rows, NEW p, Created(rows, p)
        PROVE  Unmade
    <3>1. made' = made + 1 /\ rows \in {prep, Supersede(prep)}
      BY <2>6 DEF Created
    <3>2. \A i \in Preps : i # made + 1 => prep'[i] = rows[i]
      BY <2>6, CreatedFacts
    <3>3. \A i \in Preps : i > made => rows[i].status = "NONE" /\ rows[i].due = "NEVER"
      BY <2>5, <3>1 DEF Rows
    <3>4. \A i \in Preps : i > made + 1 => i > made /\ i # made + 1
      BY <1>1
    <3>5. QED  BY <3>1, <3>2, <3>3, <3>4
  <2>7. CASE BeginStep \/ StagedStep \/ RetryCreate
    BY <2>6, <2>7, BeginCreates, StagedCreates, RetryCreates DEF BeginStep, StagedStep
  <2>8. CASE NowStep
    BY <2>5, <2>8 DEF NowStep, ActivateNow
  <2>9. QED  BY <2>1, <2>3, <2>4, <2>7, <2>8, StepKinds
<1>3. retry' # NoRetry => retry' <= made' /\ made' < MaxPreps
  <2>1. ASSUME NEW i \in Preps, RetryRead(i)
        PROVE  retry' <= made' /\ made' < MaxPreps
    <3>1. prep[i].status # "NONE" /\ retry = NoRetry /\ Room /\ retry' = i /\ made' = made
      BY <2>1 DEF RetryRead
    <3>2. QED  BY <1>1, <3>1 DEF Rows, Room
  <2>2. ASSUME UNCHANGED <<made, retry>>
        PROVE  retry' # NoRetry => retry' <= made' /\ made' < MaxPreps
    BY <2>2 DEF Rows
  <2>3. ASSUME Room, made' = made + 1, retry' = retry
        PROVE  retry' # NoRetry => retry' <= made' /\ made' < MaxPreps
    BY <1>1, <2>3, RoomFacts DEF Rows, TypeOK
  <2>4. ASSUME NEW r \in Releases, Process(r) \/ Register(r) \/ Record(r) \/ Follow(r)
        PROVE  UNCHANGED <<made, retry>> \/ (Room /\ made' = made + 1 /\ retry' = retry)
    BY <2>4 DEF Process, Close, Begin, Register, Record, Follow
  <2>5. ASSUME NEW r \in Releases, ActivateStaged(r) \/ ActivateNow(r)
        PROVE  UNCHANGED <<made, retry>> \/ (Room /\ made' = made + 1 /\ retry' = retry)
    BY <2>5 DEF ActivateStaged, ActivateNow
  <2>6. ASSUME NEW i \in Preps, Refresh(i) \/ Claim(i) \/ ConfigRefuses(i) \/ LeaseEnds(i) \/ GrowOld(i)
        PROVE  UNCHANGED <<made, retry>>
    BY <2>6 DEF Refresh, Claim, ConfigRefuses, LeaseEnds, GrowOld
  <2>7. ASSUME NEW c \in calls, Answer(c)
        PROVE  UNCHANGED <<made, retry>>
    BY <2>7, AnswerStep DEF Aside, RowStep, SwitchStep, Switch, Settle
  <2>8. ASSUME NEW c \in calls, Die(c)
        PROVE  UNCHANGED <<made, retry>>
    BY <2>8 DEF Die
  <2>9. RetryCreate => retry' = NoRetry
    BY DEF RetryCreate
  <2>10. UNCHANGED vars => UNCHANGED <<made, retry>>
    BY DEF vars
  <2>11. QED
    BY <2>1, <2>2, <2>3, <2>4, <2>5, <2>6, <2>7, <2>8, <2>9, <2>10 DEF Next
<1>4. QED  BY <1>2, <1>3 DEF Rows

LEMMA AttemptsStep ==
  ASSUME TypeOK, Rows, Attempts, Leases, Newer, [Next]_vars
  PROVE  Attempts'
BY IntentsStay DEF Attempts, Sound

LEMMA IntentsStep ==
  ASSUME IInv, [Next]_vars
  PROVE  Intents'
<1>1. TypeOK /\ Rows /\ Attempts /\ Leases /\ Intents /\ Waiting /\ Newer
  BY DEF IInv
<1>2. /\ made \in 0..MaxPreps /\ MaxPreps \in Nat /\ Preps = 1..MaxPreps /\ generation \in Nat
      /\ decisions \in Nat /\ current \in Releases
  BY <1>1, Numbers DEF TypeOK
<1> DEFINE Ok(i) == /\ prep'[i].generation <= generation'
                    /\ prep'[i].generation = generation' => prep'[i].asked = decisions'
<1>3. ASSUME NEW i \in Preps, i <= made
      PROVE  Ok(i)
  <2>1. prep'[i].generation = prep[i].generation /\ prep'[i].asked = prep[i].asked
    BY <1>1, <1>3, IntentsStay DEF SameIntent
  <2>2. /\ prep[i].generation <= generation /\ prep[i].generation \in Nat
        /\ prep[i].generation = generation => prep[i].asked = decisions
    BY <1>1, <1>3 DEF Intents, TypeOK, Prep
  <2>3. CASE StandsStep
    BY <2>1, <2>2, <2>3 DEF StandsStep, config
  <2>4. CASE CarryStep \/ DecisionStep
    <3>1. generation' = generation + 1
      BY <2>4 DEF CarryStep, DecisionStep
    <3>2. QED  BY <1>2, <2>1, <2>2, <3>1
  <2>5. QED  BY <1>1, <2>3, <2>4, FenceMoves
<1>4. ASSUME BeginStep
      PROVE  Ok(made + 1)
  <2>1. PICK r \in Releases : pub[r].state = "PENDING" /\ ~Outdated(r) /\ Begin(r)
    BY <1>4 DEF BeginStep
  <2>2. pub[r].asked = decisions
    BY <1>1, <2>1 DEF Outdated, Waiting
  <2>3. prep'[made + 1] = Request(r, generation + 1, current, pub[r].asked, TRUE)
    BY <1>1, <2>1, BeginCreates, CreatedFacts
  <2>4. prep'[made + 1].generation = generation + 1 /\ prep'[made + 1].asked = pub[r].asked
    BY <2>3 DEF Request
  <2>5. generation' = generation + 1 /\ decisions' = decisions
    BY <2>1 DEF Begin
  <2>6. QED  BY <1>2, <2>2, <2>4, <2>5
<1>5. ASSUME StagedStep
      PROVE  Ok(made + 1)
  <2>1. PICK r \in Releases : ActivateStaged(r)
    BY <1>5 DEF StagedStep
  <2>2. prep'[made + 1] = Request(r, generation + 1, current, decisions + 1, FALSE)
    BY <1>1, <2>1, StagedCreates, CreatedFacts
  <2>3. prep'[made + 1].generation = generation + 1 /\ prep'[made + 1].asked = decisions + 1
    BY <2>2 DEF Request
  <2>4. generation' = generation + 1 /\ decisions' = decisions + 1
    BY <2>1 DEF ActivateStaged
  <2>5. QED  BY <1>2, <2>3, <2>4
<1>6. ASSUME RetryCreate
      PROVE  Ok(made + 1)
  <2>1. /\ retry \in Preps /\ retry <= made
        /\ prep'[made + 1] = Request(prep[retry].release, prep[retry].generation, prep[retry].previous,
                                     prep[retry].asked, FALSE)
    BY <1>1, <1>6, RetryCreates, CreatedFacts
  <2>2. prep'[made + 1].generation = prep[retry].generation /\ prep'[made + 1].asked = prep[retry].asked
    BY <2>1 DEF Request
  <2>3. generation' = generation /\ decisions' = decisions
    BY <1>6 DEF RetryCreate, config
  <2>4. QED  BY <1>1, <2>1, <2>2, <2>3 DEF Intents
<1>7. made' = made \/ (made' = made + 1 /\ (BeginStep \/ StagedStep \/ RetryCreate))
  BY <1>1, StepKinds
     DEF Aside, RowStep, SwitchStep, Switch, Settle, BeginStep, Begin, StagedStep, ActivateStaged,
         NowStep, ActivateNow, RetryCreate
<1>8. ASSUME NEW i \in Preps, i <= made'
      PROVE  Ok(i)
  <2>1. CASE i <= made
    BY <1>3, <2>1
  <2>2. CASE ~(i <= made)
    <3>1. i = made + 1 /\ (BeginStep \/ StagedStep \/ RetryCreate)
      BY <1>2, <1>7, <1>8, <2>2
    <3>2. QED  BY <1>4, <1>5, <1>6, <3>1
  <2>3. QED  BY <2>1, <2>2
<1>9. QED  BY <1>8 DEF Intents

LEMMA WaitingStep ==
  ASSUME IInv, [Next]_vars
  PROVE  Waiting'
<1>1. TypeOK /\ Rows /\ Attempts /\ Leases /\ Waiting /\ Newer
  BY DEF IInv
<1>2. generation \in Nat /\ decisions \in Nat /\ current \in Releases
  BY <1>1 DEF TypeOK
<1> DEFINE Ok(r) == /\ pub'[r].generation <= generation' /\ pub'[r].asked <= decisions'
                    /\ (pub'[r].generation = generation' /\ pub'[r].release = current')
                         <=> pub'[r].asked = decisions'
<1>3. ASSUME NEW r \in Releases, pub'[r].state = "PENDING"
      PROVE  Ok(r)
  <2>1. pub[r].generation \in Nat /\ pub[r].asked \in Nat
    BY <1>1 DEF TypeOK, Publication
  <2>2. CASE StandsStep
    <3>1. generation' = generation /\ decisions' = decisions /\ current' = current
      BY <2>2 DEF StandsStep, config
    <3>2. CASE pub'[r] = pub[r]
      BY <1>1, <1>3, <3>1, <3>2 DEF Waiting, StillExpected
    <3>3. CASE Waits(pub'[r], current, generation, decisions)
      BY <1>2, <3>1, <3>3 DEF Waits
    <3>4. QED  BY <1>3, <2>2, <3>2, <3>3 DEF StandsStep
  <2>3. CASE CarryStep
    <3>1. /\ generation' = generation + 1 /\ decisions' = decisions /\ current' \in Releases
          /\ pub'[r] = Carry(current', {})[r]
      BY <1>3, <2>3 DEF CarryStep
    <3>2. pub[r].state = "PENDING"
      BY <1>1, <1>3, <3>1, CarryFacts
    <3>3. CASE StillExpected(r)
      <4>1. pub'[r] = [pub[r] EXCEPT !.release = current', !.generation = generation + 1]
        BY <3>1, <3>2, <3>3 DEF Carry
      <4>2. pub[r] \in Publication
        BY <1>1 DEF TypeOK
      <4>3. pub'[r].release = current' /\ pub'[r].generation = generation + 1 /\ pub'[r].asked = pub[r].asked
        BY <4>1, <4>2 DEF Publication
      <4>4. pub[r].asked = decisions
        BY <1>1, <3>2, <3>3 DEF Waiting
      <4>5. QED  BY <1>2, <3>1, <4>3, <4>4
    <3>4. CASE ~StillExpected(r)
      <4>1. pub'[r] = pub[r]
        BY <3>1, <3>4 DEF Carry
      <4>2. pub[r].generation <= generation /\ pub[r].asked <= decisions /\ pub[r].asked # decisions
        BY <1>1, <3>2, <3>4 DEF Waiting
      <4>3. QED  BY <1>2, <2>1, <3>1, <4>1, <4>2
    <3>5. QED  BY <3>3, <3>4
  <2>4. CASE DecisionStep
    <3>1. generation' = generation + 1 /\ decisions' = decisions + 1 /\ pub'[r] = pub[r]
      BY <2>4 DEF DecisionStep
    <3>2. pub[r].generation <= generation /\ pub[r].asked <= decisions
      BY <1>1, <1>3, <3>1 DEF Waiting
    <3>3. QED  BY <1>2, <2>1, <3>1, <3>2
  <2>5. QED  BY <1>1, <2>2, <2>3, <2>4, FenceMoves
<1>4. QED  BY <1>3 DEF Waiting, StillExpected

LEMMA NewerStep ==
  ASSUME TypeOK, Rows, Attempts, Leases, Newer, ReleasesAssumption, [Next]_vars
  PROVE  Newer'
<1>1. made \in 0..MaxPreps /\ MaxPreps \in Nat /\ Preps = 1..MaxPreps
  BY Numbers DEF TypeOK
<1> DEFINE Ok(r) == /\ pub'[r].preparation <= made'
                    /\ pub'[r].preparation # 0 =>
                         prep'[pub'[r].preparation].release > prep'[pub'[r].preparation].previous
<1>2. ASSUME NEW r \in Releases, pub'[r].preparation = pub[r].preparation
      PROVE  Ok(r)
  <2>1. pub[r].preparation \in 0..MaxPreps /\ pub[r].preparation <= made
    BY DEF TypeOK, Publication, Newer
  <2>2. made <= made' /\ made' \in Nat
    BY <1>1, IntentsStay
  <2>3. ASSUME pub[r].preparation # 0
        PROVE  SameIntent(prep'[pub[r].preparation], prep[pub[r].preparation])
    BY <1>1, <2>1, <2>3, IntentsStay
  <2> DEFINE k == pub[r].preparation
  <2>4. pub'[r].preparation = k /\ k \in Nat /\ k <= made
    BY <1>1, <1>2, <2>1
  <2>5. k # 0 => prep[k].release > prep[k].previous
    BY DEF Newer
  <2>6. k # 0 => prep'[k].release = prep[k].release /\ prep'[k].previous = prep[k].previous
    BY <2>3 DEF SameIntent
  <2> HIDE DEF k
  <2>7. k <= made'
    BY <1>1, <2>2, <2>4
  <2>8. QED  BY <2>4, <2>5, <2>6, <2>7
<1>3. ASSUME StandsStep, NEW r \in Releases
      PROVE  Ok(r)
  <2>1. pub'[r].preparation = pub[r].preparation \/ pub'[r].preparation = 0
    BY <1>3 DEF StandsStep
  <2>2. made' \in Nat
    BY <1>1, IntentsStay
  <2>3. CASE pub'[r].preparation = 0
    <3>1. 0 <= made'
      BY <2>2
    <3>2. QED  BY <2>3, <3>1
  <2> HIDE DEF Ok
  <2>4. QED  BY <1>2, <2>1, <2>3
<1>4. ASSUME BeginStep, NEW r \in Releases
      PROVE  Ok(r)
  <2>1. PICK q \in Releases : ~Outdated(q) /\ Begin(q)
    BY <1>4 DEF BeginStep
  <2>2. CASE r # q
    <3>1. pub'[r].preparation = pub[r].preparation
      BY <2>1, <2>2, BeginCarries
    <3> HIDE DEF Ok
    <3>2. QED  BY <1>2, <3>1
  <2>3. CASE r = q
    <3>1. pub'[q].preparation = made + 1 /\ made' = made + 1
      BY <2>1, BeginCarries DEF Begin
    <3>2. prep'[made + 1] = Request(q, generation + 1, current, pub[q].asked, TRUE)
      BY <2>1, BeginCreates, CreatedFacts
    <3>3. prep'[made + 1].release = q /\ prep'[made + 1].previous = current
      BY <3>2 DEF Request
    <3>4. q > current
      BY <2>1 DEF Outdated, ReleasesAssumption, TypeOK
    <3>5. QED  BY <1>1, <2>3, <3>1, <3>3, <3>4
  <2>4. QED  BY <2>2, <2>3
<1>5. ASSUME StagedStep \/ NowStep \/ SwitchStep, NEW r \in Releases
      PROVE  pub'[r].preparation = pub[r].preparation
  BY <1>5, OperatorDecides, SwitchTransition DEF DecisionStep, SwitchStep
<1>6. QED  BY <1>2, <1>3, <1>4, <1>5, TransitionKinds DEF Newer

\* The lease of a row counts the workers it was lost by.
Leased(i) == /\ prep[i].lease <= faults
             /\ prep[i].lapsed => prep[i].lease < faults
             /\ prep[i].due = "CLAIMED" /\ ~InTime(i) => prep[i].lease < faults

LEMMA LeaseStays ==
  ASSUME TypeOK, Leases, NEW i \in Preps, faults' \in Nat, faults <= faults',
         prep'[i].lease = prep[i].lease, prep'[i].lapsed => prep[i].lapsed,
         prep'[i].due = "CLAIMED" => prep[i].due = "CLAIMED",
         prep[i].due = "CLAIMED" => \A c \in calls : c.row = i /\ c.lease = prep[i].lease => c \in calls'
  PROVE  Leased(i)'
<1>1. faults \in Nat /\ prep[i].lease \in Nat
  BY Numbers DEF TypeOK, Prep
<1>2. Leased(i)
  BY DEF Leases, Leased
<1>3. prep'[i].due = "CLAIMED" /\ InTime(i) => InTime(i)'
  BY DEF InTime
<1>4. QED  BY <1>1, <1>2, <1>3 DEF Leased

LEMMA NewRowsLeased ==
  ASSUME TypeOK, Attempts, Leases, NEW rows, NEW p, Created(rows, p), UNCHANGED <<calls, faults>>,
         NEW i \in Preps
  PROVE  Leased(i)'
<1>1. faults \in Nat
  BY Numbers DEF TypeOK
<1>2. CASE i = made + 1
  <2>1. prep'[i] = p /\ p.lease = 0 /\ p.due = "NOW" /\ ~p.lapsed
    BY <1>2, CreatedFacts DEF Created, Fresh
  <2>2. QED  BY <1>1, <2>1 DEF Leased
<1>3. CASE i # made + 1
  <2>1. prep'[i] = rows[i] /\ rows \in {prep, Supersede(prep)}
    BY <1>3, CreatedFacts DEF Created
  <2>2. /\ prep'[i].lease = prep[i].lease /\ (prep'[i].lapsed => prep[i].lapsed)
        /\ prep'[i].due \in {prep[i].due, "NEVER"}
    BY <2>1, SupersedeFacts
  <2>3. QED  BY <1>1, <2>2, LeaseStays
<1>4. QED  BY <1>2, <1>3

LEMMA LeasesStep ==
  ASSUME TypeOK, Rows, Attempts, Leases, Newer, [Next]_vars
  PROVE  Leases' /\ faults' \in Nat
<1>1. faults \in Nat /\ (faults + 1) \in Nat /\ faults <= faults + 1
  BY Numbers DEF TypeOK
<1>2. ASSUME UNCHANGED <<prep, calls, faults>>
      PROVE  \A i \in Preps : Leased(i)'
  BY <1>1, <1>2 DEF Leases, Leased, InTime
<1>3. ASSUME BeginStep \/ StagedStep \/ RetryCreate, NEW i \in Preps
      PROVE  Leased(i)' /\ faults' = faults
  <2>1. UNCHANGED <<calls, faults>>
    BY <1>3 DEF BeginStep, Begin, StagedStep, ActivateStaged, Operator, RetryCreate, bounds
  <2>2. \E rows, p : Created(rows, p)
    BY <1>3, BeginCreates, StagedCreates, RetryCreates DEF BeginStep, StagedStep
  <2>3. QED  BY <2>1, <2>2, NewRowsLeased
<1>4. ASSUME NowStep, NEW i \in Preps
      PROVE  Leased(i)' /\ faults' = faults
  <2>1. prep' = Supersede(prep) /\ UNCHANGED <<calls, faults>>
    BY <1>4 DEF NowStep, ActivateNow, Operator
  <2>2. QED  BY <1>1, <2>1, SupersedeFacts, LeaseStays
<1>5. ASSUME NEW j \in Preps, Refresh(j) \/ GrowOld(j) \/ ConfigRefuses(j), NEW i \in Preps
      PROVE  Leased(i)' /\ faults' = faults
  <2>1. UNCHANGED <<calls, faults>>
    BY <1>5 DEF Refresh, GrowOld, ConfigRefuses, Operator, bounds
  <2>2. /\ prep'[i].lease = prep[i].lease /\ (prep'[i].lapsed => prep[i].lapsed)
        /\ prep'[i].due = "CLAIMED" => prep[i].due = "CLAIMED"
    <3>1. CASE Refresh(j)
      BY <3>1 DEF Refresh, TypeOK, Prep
    <3>2. CASE GrowOld(j)
      BY <3>2 DEF GrowOld, TypeOK, Prep
    <3>3. CASE ConfigRefuses(j)
      BY <3>3 DEF ConfigRefuses, Over, TypeOK, Prep
    <3>4. QED  BY <1>5, <3>1, <3>2, <3>3
  <2>3. QED  BY <1>1, <2>1, <2>2, LeaseStays
<1>6. ASSUME NEW j \in Preps, LeaseEnds(j), NEW i \in Preps
      PROVE  Leased(i)' /\ faults' \in Nat
  <2>1. /\ prep[j].due = "CLAIMED" /\ ~prep[j].lapsed /\ calls' = calls
        /\ IF InTime(j) THEN faults' = faults + 1 ELSE faults' = faults
        /\ prep' = [prep EXCEPT ![j] = LapsedRow(prep[j])]
    BY <1>6 DEF LeaseEnds, LapsedRow
  <2>2. faults' \in Nat /\ faults <= faults'
    BY <1>1, <2>1
  <2>3. CASE i # j
    <3>1. prep'[i] = prep[i]
      BY <2>1, <2>3 DEF TypeOK
    <3>2. QED  BY <2>1, <2>2, <3>1, LeaseStays
  <2>4. CASE i = j
    <3>1. prep'[i].lease = prep[i].lease
      BY <2>1, <2>4, LapsedFacts, RowsAreSound DEF TypeOK
    <3>2. prep[i].lease <= faults /\ (~InTime(i) => prep[i].lease < faults) /\ prep[i].lease \in Nat
      BY <2>1, <2>4, Numbers DEF Leases, TypeOK, Prep
    <3>3. prep[i].lease < faults'
      BY <1>1, <2>1, <2>4, <3>2
    <3>4. QED  BY <2>2, <3>1, <3>2, <3>3 DEF Leased
  <2>5. QED  BY <2>2, <2>3, <2>4
<1>7. ASSUME NEW j \in Preps, Claim(j), NEW i \in Preps
      PROVE  Leased(i)' /\ faults' = faults
  <2> DEFINE l == prep[j].lease + IF prep[j].lapsed THEN 1 ELSE 0
             call == [row |-> j, kind |-> CallFor(prep[j]), lease |-> l]
  <2>1. /\ l \in 0..MaxFaults /\ l <= faults /\ faults' = faults
        /\ prep' = [prep EXCEPT ![j] = ClaimedRow(prep[j], l)]
        /\ calls' = calls \cup {call}
    BY <1>7, ClaimStep
  <2>2. call.row = j /\ call.lease = l
    OBVIOUS
  <2> HIDE DEF l, call
  <2>3. CASE i # j
    <3>1. prep'[i] = prep[i]
      BY <2>1, <2>3 DEF TypeOK
    <3>2. QED  BY <1>1, <2>1, <3>1, LeaseStays
  <2>4. CASE i = j
    <3>1. prep[j].due # "NEVER" /\ Sound(prep[j])
      BY <1>7, RowsAreSound DEF Claim, Claimable, Attempts
    <3>2. ClaimedRow(prep[j], l).lease = l /\ ~ClaimedRow(prep[j], l).lapsed
      BY <2>1, <3>1, ClaimedFacts
    <3>3. prep'[i].lease = l /\ ~prep'[i].lapsed
      BY <2>1, <2>4, <3>2 DEF TypeOK
    <3>4. InTime(i)'
      BY <2>1, <2>2, <2>4, <3>3 DEF InTime
    <3>5. QED  BY <2>1, <3>3, <3>4 DEF Leased
  <2>5. QED  BY <2>1, <2>3, <2>4
<1>8. ASSUME NEW c \in calls, Answer(c), NEW i \in Preps
      PROVE  Leased(i)' /\ faults' = faults
  <2>1. CASE ~Held(c) /\ prep' = prep /\ calls' = calls \ {c} /\ faults' = faults
    BY <1>1, <2>1, LeaseStays DEF Held
  <2>2. CASE Answered(c)
    <3>1. PICK p \in Prep : /\ prep' = [prep EXCEPT ![c.row] = p]
                            /\ p.due # "CLAIMED" /\ ~p.lapsed /\ p.lease = prep[c.row].lease
      BY <2>2 DEF Answered
    <3>2. calls' = calls \ {c} /\ faults' = faults
      BY <2>2 DEF Answered
    <3>3. CASE i = c.row
      <4>1. prep'[i] = p
        BY <3>1, <3>3 DEF TypeOK
      <4>2. prep[i].lease <= faults
        BY DEF Leases
      <4>3. QED  BY <3>1, <3>2, <3>3, <4>1, <4>2 DEF Leased
    <3>4. CASE i # c.row
      <4>1. prep'[i] = prep[i]
        BY <3>1, <3>4 DEF TypeOK
      <4>2. \A d \in calls : d.row = i => d \in calls'
        BY <3>2, <3>4
      <4>3. QED  BY <1>1, <3>2, <4>1, <4>2, LeaseStays
    <3>5. QED  BY <3>2, <3>3, <3>4
  <2>3. QED  BY <1>8, <2>1, <2>2, AnswerStep
<1>9. ASSUME NEW c \in calls, Die(c), NEW i \in Preps
      PROVE  Leased(i)' /\ faults' \in Nat
  <2>1. prep' = prep /\ faults' = faults + 1
    BY <1>9 DEF Die
  <2>2. prep[i].lease <= faults /\ prep[i].lease \in Nat
    BY Numbers DEF Leases, TypeOK, Prep
  <2>3. QED  BY <1>1, <2>1, <2>2 DEF Leased
<1>10. ASSUME NEW r \in Releases, Register(r) \/ Record(r) \/ Follow(r)
       PROVE  UNCHANGED <<prep, calls, faults>>
  BY <1>10 DEF Register, Record, Follow, bounds
<1>11. ASSUME NEW r \in Releases, Process(r)
       PROVE  UNCHANGED <<prep, calls, faults>> \/ BeginStep
  BY <1>11 DEF Process, Close, BeginStep, bounds
<1>12. ASSUME NEW i \in Preps, RetryRead(i)
       PROVE  UNCHANGED <<prep, calls, faults>>
  BY <1>12 DEF RetryRead, bounds
<1>13. UNCHANGED vars => UNCHANGED <<prep, calls, faults>>
  BY DEF vars, bounds
<1>14. faults' \in Nat
  <2>1. ASSUME NEW r \in Releases, ActivateStaged(r) \/ ActivateNow(r) \/ Begin(r)
        PROVE  faults' = faults
    BY <2>1 DEF ActivateStaged, ActivateNow, Begin, Operator, bounds
  <2>2. ASSUME NEW j \in Preps, Refresh(j) \/ GrowOld(j) \/ ConfigRefuses(j) \/ Claim(j)
        PROVE  faults' = faults
    BY <2>2 DEF Refresh, GrowOld, ConfigRefuses, Claim, Operator, bounds
  <2>3. ASSUME NEW j \in Preps, LeaseEnds(j)
        PROVE  faults' \in {faults, faults + 1}
    BY <2>3 DEF LeaseEnds
  <2>4. ASSUME NEW c \in calls, Answer(c)
        PROVE  faults' = faults
    BY <2>4, AnswerStep DEF Answered
  <2>5. ASSUME NEW c \in calls, Die(c)
        PROVE  faults' = faults + 1
    BY <2>5 DEF Die
  <2>6. RetryCreate => faults' = faults
    BY DEF RetryCreate, bounds
  <2>7. QED
    BY <1>1, <1>10, <1>11, <1>12, <1>13, <2>1, <2>2, <2>3, <2>4, <2>5, <2>6 DEF Next, BeginStep
<1>15. \A i \in Preps : Leased(i)'
  BY <1>2, <1>3, <1>4, <1>5, <1>6, <1>7, <1>8, <1>9, <1>10, <1>11, <1>12, <1>13
     DEF Next, NowStep, StagedStep
<1>16. QED  BY <1>14, <1>15 DEF Leases, Leased

LEMMA TypeStep ==
  ASSUME TypeOK, Rows, Attempts, Leases, Newer, [Next]_vars
  PROVE  TypeOK'
<1>1. prep' \in [Preps -> Prep] /\ made' \in 0..MaxPreps
  BY IntentsStay
<1>2. /\ pub' \in [Releases -> Publication]
      /\ current' \in Releases /\ generation' \in Nat /\ decisions' \in Nat
  BY FenceMoves DEF StandsStep, CarryStep, DecisionStep, config, TypeOK
<1>3. calls' \subseteq Calls
  <2>1. ASSUME NEW i \in Preps, Claim(i)
        PROVE  calls' \subseteq Calls
    <3> DEFINE l == prep[i].lease + IF prep[i].lapsed THEN 1 ELSE 0
    <3>1. l \in 0..MaxFaults /\ calls' = calls \cup {[row |-> i, kind |-> CallFor(prep[i]), lease |-> l]}
      BY <2>1, ClaimStep
    <3>2. CallFor(prep[i]) \in {"POST", "GET", "QUERY"}
      BY DEF CallFor
    <3> HIDE DEF l
    <3>3. QED  BY <3>1, <3>2 DEF Calls, TypeOK
  <2>2. ASSUME NEW c \in calls, Answer(c) \/ Die(c)
        PROVE  calls' \subseteq calls
    BY <2>2, AnswerStep DEF Answered, Die
  <2>3. ASSUME NEW r \in Releases, \/ Register(r) \/ Record(r) \/ Follow(r) \/ Process(r)
                                   \/ ActivateStaged(r) \/ ActivateNow(r)
        PROVE  calls' = calls
    BY <2>3 DEF Register, Record, Follow, Process, Close, Begin, ActivateStaged, ActivateNow
  <2>4. ASSUME NEW i \in Preps, RetryRead(i) \/ Refresh(i) \/ ConfigRefuses(i) \/ LeaseEnds(i) \/ GrowOld(i)
        PROVE  calls' = calls
    BY <2>4 DEF RetryRead, Refresh, ConfigRefuses, LeaseEnds, GrowOld
  <2>5. RetryCreate \/ UNCHANGED vars => calls' = calls
    BY DEF RetryCreate, vars
  <2>6. QED  BY <2>1, <2>2, <2>3, <2>4, <2>5 DEF Next, TypeOK
<1>4. /\ registered' \subseteq Releases /\ retry' \in Preps \cup {NoRetry}
      /\ acts' \in 0..MaxActs /\ faults' \in 0..MaxFaults
  <2>1. MaxActs \in Nat /\ MaxFaults \in Nat /\ acts \in 0..MaxActs /\ faults \in 0..MaxFaults
    BY Numbers DEF TypeOK
  <2> DEFINE Ok == /\ registered' \subseteq Releases /\ retry' \in Preps \cup {NoRetry}
                   /\ acts' \in 0..MaxActs /\ faults' \in 0..MaxFaults
  <2>2. ASSUME UNCHANGED <<registered, retry, faults>>, acts' \in {acts} \cup {x \in {acts + 1} : acts < MaxActs}
        PROVE  Ok
    BY <2>1, <2>2 DEF TypeOK
  <2>3. ASSUME UNCHANGED <<registered, retry, acts>>, \/ faults' = faults
                                                      \/ faults < MaxFaults /\ faults' = faults + 1
        PROVE  Ok
    BY <2>1, <2>3 DEF TypeOK
  <2>4. ASSUME NEW r \in Releases, Register(r)
        PROVE  Ok
    BY <2>1, <2>4 DEF Register, TypeOK, bounds
  <2>5. ASSUME NEW r \in Releases, Record(r) \/ Follow(r) \/ Process(r)
        PROVE  Ok
    BY <2>2, <2>5 DEF Record, Follow, Process, Close, Begin, bounds
  <2>6. ASSUME NEW r \in Releases, ActivateStaged(r) \/ ActivateNow(r)
        PROVE  Ok
    BY <2>2, <2>6 DEF ActivateStaged, ActivateNow, Operator
  <2>7. ASSUME NEW i \in Preps, RetryRead(i)
        PROVE  Ok
    BY <2>1, <2>7 DEF RetryRead, TypeOK, bounds
  <2>8. ASSUME NEW i \in Preps, Refresh(i)
        PROVE  Ok
    BY <2>2, <2>8 DEF Refresh, Operator
  <2>9. ASSUME NEW i \in Preps, Claim(i) \/ ConfigRefuses(i) \/ GrowOld(i)
        PROVE  Ok
    BY <2>2, <2>9 DEF Claim, ConfigRefuses, GrowOld, bounds
  <2>10. ASSUME NEW i \in Preps, LeaseEnds(i)
         PROVE  Ok
    BY <2>3, <2>10 DEF LeaseEnds
  <2>11. RetryCreate => Ok
    BY <2>1 DEF RetryCreate, TypeOK, bounds
  <2>12. ASSUME NEW c \in calls, Answer(c)
         PROVE  Ok
    <3>1. UNCHANGED <<registered, retry, bounds>>
      BY <2>12 DEF Answer, Drop, CallFails, Lapse, Switch, NotReady, Parse, Settle
    <3>2. QED  BY <2>2, <3>1 DEF bounds
  <2>13. ASSUME NEW c \in calls, Die(c)
         PROVE  Ok
    BY <2>3, <2>13 DEF Die
  <2>14. UNCHANGED vars => Ok
    BY <2>2 DEF vars, bounds
  <2>15. QED
    BY <2>4, <2>5, <2>6, <2>7, <2>8, <2>9, <2>10, <2>11, <2>12, <2>13, <2>14 DEF Next
<1>5. QED  BY <1>1, <1>2, <1>3, <1>4 DEF TypeOK

Unborn(p) == [p EXCEPT !.status = "NONE", !.due = "NEVER"]

LEMMA UnbornFacts ==
  ASSUME NEW p \in Prep
  PROVE  /\ Unborn(p) \in Prep /\ Unborn(p).status = "NONE" /\ Unborn(p).due = "NEVER"
         /\ Unborn(p).lapsed = p.lapsed /\ Unborn(p).lease = p.lease
         /\ Unborn(p).generation = p.generation /\ Unborn(p).asked = p.asked
BY DEF Unborn, Prep

LEMMA InitInv == Init => IInv
<1> SUFFICES ASSUME Init
             PROVE  IInv
  OBVIOUS
<1>1. /\ MaxPreps \in Nat /\ MaxActs \in Nat /\ MaxFaults \in Nat /\ MaxAttempts \in Nat \ {0}
      /\ First \in Releases /\ Preps = 1..MaxPreps
  BY Numbers, ReleasesAssumption
<1> DEFINE first == Request(First, 0, First, 0, FALSE)
           none == Unborn(first)
           unborn == [state |-> "NONE", release |-> First, generation |-> 0, preparation |-> 0, asked |-> 0]
<1>2. first \in Prep /\ first.lapsed = FALSE /\ first.lease = 0 /\ first.generation = 0 /\ first.asked = 0
  <2>1. Fresh(first)
    BY <1>1, RequestFacts
  <2>2. first.generation = 0 /\ first.asked = 0
    BY DEF Request
  <2> HIDE DEF first
  <2>3. first.lapsed \in BOOLEAN
    BY <2>1 DEF Fresh, Sound, Prep
  <2>4. QED  BY <2>1, <2>2, <2>3 DEF Fresh, Sound
<1>3. prep = [i \in Preps |-> none] /\ pub = [r \in Releases |-> unborn] /\ faults = 0 /\ made = 0
  BY DEF Init, Unborn
<1>4. unborn \in Publication /\ unborn.state = "NONE" /\ unborn.preparation = 0
  BY <1>1 DEF Publication
<1> HIDE DEF first, none, unborn
<1>5. /\ none \in Prep /\ none.status = "NONE" /\ none.due = "NEVER" /\ ~none.lapsed /\ none.lease = 0
      /\ none.generation = 0 /\ none.asked = 0
  BY <1>2, UnbornFacts DEF none
<1>6. TypeOK
  BY <1>1, <1>3, <1>4, <1>5 DEF Init, TypeOK
<1>7. Rows
  BY <1>3, <1>5 DEF Init, Rows
<1>8. Attempts
  BY <1>3, <1>5 DEF Attempts
<1>9. Leases
  BY <1>3, <1>5 DEF Leases
<1>10. Intents
  BY <1>1, <1>3, <1>5 DEF Intents, Init
<1>11. Waiting
  BY <1>3, <1>4 DEF Waiting
<1>12. Newer
  BY <1>3, <1>4 DEF Newer
<1>13. QED  BY <1>6, <1>7, <1>8, <1>9, <1>10, <1>11, <1>12 DEF IInv

LEMMA InvStep == IInv /\ [Next]_vars => IInv'
<1> SUFFICES ASSUME IInv, [Next]_vars
             PROVE  IInv'
  OBVIOUS
<1>1. TypeOK /\ Rows /\ Attempts /\ Leases /\ Newer
  BY DEF IInv
<1>2. TypeOK' /\ Rows' /\ Attempts' /\ Leases' /\ Newer'
  BY <1>1, ReleasesAssumption, TypeStep, RowsStep, AttemptsStep, LeasesStep, NewerStep
<1>3. Intents' /\ Waiting'
  BY IntentsStep, WaitingStep
<1>4. QED  BY <1>2, <1>3 DEF IInv

LEMMA Invariance == Spec => []IInv
BY InitInv, InvStep, PTL DEF Spec

-----------------------------------------------------------------------------
(* What follows from it *)

\* Every value keeps its type: the lease of a claim never passes the number of
\* workers that were lost, and a row is never called without attempts left.
THEOREM TypeCorrect == Spec => []TypeOK
<1>1. IInv => TypeOK
  BY DEF IInv
<1>2. QED  BY <1>1, Invariance, PTL

LEMMA SwitchIsLast ==
  ASSUME IInv, [Next]_vars, NEW i \in Preps, prep[i].status = "PENDING", prep'[i].status = "ACTIVATED"
  PROVE  prep[i].asked = decisions /\ (Automatic(i) => current' > current)
<1>1. TypeOK /\ Rows /\ Attempts /\ Leases /\ Intents /\ Newer
  BY DEF IInv
<1>2. ASSUME NEW rows, NEW p, Created(rows, p)
      PROVE  prep'[i].status # "ACTIVATED"
  <2>1. CASE i = made + 1
    BY <1>1, <1>2, <2>1, CreatedFacts DEF Created, Fresh
  <2>2. CASE i # made + 1
    BY <1>1, <1>2, <2>2, CreatedFacts, SupersedeFacts DEF Created
  <2>3. QED  BY <2>1, <2>2
<1>3. ~(BeginStep \/ StagedStep \/ RetryCreate)
  BY <1>1, <1>2, BeginCreates, StagedCreates, RetryCreates DEF BeginStep, StagedStep
<1>4. ~NowStep
  BY <1>1, SupersedeFacts DEF NowStep, ActivateNow
<1>5. ~Aside
  BY DEF Aside
<1>6. ~RowStep
  <2>1. ASSUME NEW j \in Preps, NEW p \in Prep, Written(j, p), p.status = "ACTIVATED" => prep[j].status = "ACTIVATED"
        PROVE  FALSE
    BY <1>1, <2>1, WrittenFacts
  <2>2. QED  BY <2>1 DEF RowStep
<1>7. SwitchStep
  BY <1>1, <1>3, <1>4, <1>5, <1>6, StepKinds
<1>8. PICK c \in calls : Switch(c) /\ Written(c.row, Over(prep[c.row], "ACTIVATED"))
  BY <1>7 DEF SwitchStep
<1>9. c.row = i /\ i <= made
  BY <1>1, <1>8, WrittenFacts DEF Written
<1>10. /\ prep[i].generation = generation /\ prep[i].previous = current /\ current' = prep[i].release
  BY <1>8, <1>9 DEF Switch, Fits
<1>11. prep[i].asked = decisions
  BY <1>1, <1>9, <1>10 DEF Intents
<1>12. ASSUME Automatic(i)
       PROVE  current' > current
  <2>1. PICK r \in Releases : pub[r].preparation = i
    BY <1>12 DEF Automatic
  <2>2. i # 0
    BY Numbers
  <2>3. prep[i].release > prep[i].previous
    BY <1>1, <2>1, <2>2 DEF Newer
  <2>4. QED  BY <1>10, <2>3
<1>13. QED  BY <1>11, <1>12

\* However late an answer comes, it never undoes an operator, and automation
\* never moves back: a prepared release becomes current only if no operator
\* switched since it was asked for (or verified by CI), and automatically only
\* if it is newer.  (_complete_activation)
THEOREM LaterDecisions == Spec => LaterDecisionWins
<1> DEFINE A == \A i \in Preps :
                  prep[i].status = "PENDING" /\ prep'[i].status = "ACTIVATED" =>
                    /\ prep[i].asked = decisions
                    /\ Automatic(i) => current' > current
<1>1. IInv /\ [Next]_vars => [A]_vars
  BY SwitchIsLast
<1> HIDE DEF A
<1>2. Spec => [][A]_vars
  BY <1>1, Invariance, PTL DEF Spec
<1>3. QED  BY <1>2 DEF A, LaterDecisionWins

LEMMA GivenUp ==
  ASSUME IInv, [Next]_vars, NEW r \in Releases, pub[r].state = "PENDING", pub'[r].state = "SUPERSEDED"
  PROVE  \/ \E new \in registered : new > r
         \/ r <= current
         \/ pub[r].asked # decisions
<1>1. TypeOK /\ Rows /\ Attempts /\ Leases /\ Waiting /\ Newer
  BY DEF IInv
<1>2. ASSUME Outdated(r)
      PROVE  \/ \E new \in registered : new > r
             \/ r <= current
             \/ pub[r].asked # decisions
  BY <1>1, <1>2 DEF Outdated, Waiting
<1>3. ASSUME NEW q \in Releases, Process(q)
      PROVE  Outdated(r)
  <2>1. CASE q = r
    <3>1. CASE Outdated(q)
      BY <2>1, <3>1
    <3>2. CASE Close(q, "HELD")
      BY <1>1, <2>1, <3>2 DEF Close, TypeOK, Publication
    <3>3. CASE Begin(q)
      BY <1>1, <2>1, <3>3, BeginCarries
    <3>4. QED  BY <1>3, <3>1, <3>2, <3>3 DEF Process
  <2>2. CASE q # r
    <3>1. ASSUME NEW s, Close(q, s)
          PROVE  FALSE
      BY <1>1, <2>2, <3>1 DEF Close, TypeOK
    <3>2. CASE Begin(q)
      BY <1>1, <2>2, <3>2, BeginCarries
    <3>3. QED  BY <1>3, <3>1, <3>2 DEF Process
  <2>3. QED  BY <2>1, <2>2
<1>4. ASSUME NEW q \in Releases, Record(q) \/ Follow(q)
      PROVE  FALSE
  BY <1>1, <1>4 DEF Record, Follow, TypeOK
<1>5. ASSUME NEW c \in calls, Answer(c)
      PROVE  FALSE
  <2>1. SwitchStep
    BY <1>1, <1>5, AnswerStep DEF Aside, RowStep
  <2>2. PICK d \in calls : Switch(d)
    BY <2>1 DEF SwitchStep
  <2>3. pub' = pub \/ (pub' = Carry(current', {}) /\ current' = prep[d.row].release)
    BY <2>2 DEF Switch
  <2>4. d.row \in Preps /\ prep[d.row].release \in Releases
    BY <1>1 DEF TypeOK, Calls, Prep
  <2>5. QED  BY <1>1, <2>3, <2>4, CarryFacts
<1>6. ASSUME NEW q \in Releases, Register(q) \/ ActivateStaged(q) \/ ActivateNow(q)
      PROVE  FALSE
  BY <1>6 DEF Register, ActivateStaged, ActivateNow
<1>7. ASSUME NEW i \in Preps, \/ RetryRead(i) \/ Refresh(i) \/ Claim(i) \/ ConfigRefuses(i)
                              \/ LeaseEnds(i) \/ GrowOld(i)
      PROVE  FALSE
  BY <1>7 DEF RetryRead, Refresh, Claim, ConfigRefuses, LeaseEnds, GrowOld
<1>8. ASSUME NEW c \in calls, Die(c)
      PROVE  FALSE
  BY <1>8 DEF Die
<1>9. ~RetryCreate /\ ~UNCHANGED vars
  BY DEF RetryCreate, vars
<1>10. QED
  BY <1>2, <1>3, <1>4, <1>5, <1>6, <1>7, <1>8, <1>9 DEF Next

\* Automation does not trip over itself: a publication that CI verified is
\* given up only for a newer release, for one that is current already or for
\* an operator's switch.  (carry_pending_intents)
THEOREM NewestSurvives == Spec => NewestPublicationSurvives
<1> DEFINE A == \A r \in Releases :
                  pub[r].state = "PENDING" /\ pub'[r].state = "SUPERSEDED" =>
                    \/ \E new \in registered : new > r
                    \/ r <= current
                    \/ pub[r].asked # decisions
<1>1. IInv /\ [Next]_vars => [A]_vars
  BY GivenUp
<1> HIDE DEF A
<1>2. Spec => [][A]_vars
  BY <1>1, Invariance, PTL DEF Spec
<1>3. QED  BY <1>2 DEF A, NewestPublicationSurvives

-----------------------------------------------------------------------------
(***************************************************************************)
(* The safety half of PublicationsAreDecided: as long as something is      *)
(* being prepared, a step that Fairness asks for is open.                  *)
(***************************************************************************)

\* A request that was created is live.
Served == \A i \in Preps : i <= made => Live(prep[i])

\* A publication in progress has its request.
Preparing == \A r \in Releases : pub[r].state = "PREPARING" => pub[r].preparation # 0

\* For every pending request a worker can claim it, or waits for an answer that
\* will count, or is gone and its claim can end; and a publication in progress
\* has a request that is pending or whose end it can follow.
PreparationsGoOn ==
  /\ \A i \in Pending :
       \/ Claimable(i)
       \/ \E c \in calls : c.row = i /\ Held(c)
       \/ prep[i].due = "CLAIMED" /\ ~prep[i].lapsed /\ ~InTime(i)
  /\ \A r \in Releases : pub[r].state = "PREPARING" =>
       \E i \in Preps : pub[r].preparation = i /\ prep[i].status \in {"PENDING"} \cup Decided

\* No answer, failure, claim or retry takes a pending request from the workers:
\* whatever ends its calls ends its intent in the same transaction.
LEMMA ServedStep ==
  ASSUME TypeOK, Rows, Attempts, Leases, Newer, Served, [Next]_vars
  PROVE  Served'
<1>0. made \in Nat
  BY Numbers DEF TypeOK
<1>1. CASE Aside
  BY <1>1 DEF Aside, Served
<1>2. CASE RowStep
  <2>1. PICK i \in Preps, p \in Prep : Written(i, p) /\ (Live(prep[i]) => Live(p))
    BY <1>2 DEF RowStep
  <2>2. prep'[i] = p /\ \A j \in Preps : j # i => prep'[j] = prep[j]
    BY <2>1, WrittenFacts
  <2>3. i <= made /\ made' = made
    BY <1>2, <2>1 DEF RowStep, Written
  <2>4. QED  BY <2>1, <2>2, <2>3 DEF Served
<1>3. CASE SwitchStep
  <2>1. PICK c \in calls : Switch(c) /\ Written(c.row, Over(prep[c.row], "ACTIVATED"))
    BY <1>3 DEF SwitchStep
  <2>2. c.row \in Preps /\ prep[c.row] \in Prep
    BY <2>1 DEF Written, TypeOK
  <2>3. Over(prep[c.row], "ACTIVATED").status = "ACTIVATED"
    BY <2>2, OverFacts DEF Decided
  <2>4. /\ prep'[c.row].status = "ACTIVATED"
        /\ \A j \in Preps : j # c.row => prep'[j] = prep[j]
    BY <2>1, <2>2, <2>3, WrittenFacts
  <2>5. made' = made
    BY <2>1 DEF Switch, Settle
  <2>6. QED  BY <2>4, <2>5 DEF Served, Live
<1>4. ASSUME NEW rows, NEW p, Created(rows, p)
      PROVE  Served'
  <2>1. Live(p) /\ made' = made + 1
    BY <1>4 DEF Created, Fresh, Live
  <2>2. /\ prep'[made + 1] = p
        /\ \A i \in Preps : i # made + 1 /\ Live(prep[i]) => Live(prep'[i])
    BY <1>4, CreatedFacts
  <2>3. \A i \in Preps : i <= made + 1 => i = made + 1 \/ i <= made
    BY <1>0, Numbers
  <2>4. QED  BY <2>1, <2>2, <2>3 DEF Served
<1>5. CASE BeginStep \/ StagedStep \/ RetryCreate
  BY <1>4, <1>5, BeginCreates, StagedCreates, RetryCreates DEF BeginStep, StagedStep
<1>6. CASE NowStep
  <2>1. prep' = Supersede(prep) /\ made' = made
    BY <1>6 DEF NowStep, ActivateNow
  <2>2. QED  BY <2>1, SupersedeFacts DEF Served
<1>7. QED  BY <1>1, <1>2, <1>3, <1>5, <1>6, StepKinds

\* A publication is in progress from the moment its request is created.
LEMMA PreparingStep ==
  ASSUME TypeOK, Rows, Attempts, Preparing, [Next]_vars
  PROVE  Preparing'
<1>1. CASE pub' = pub
  BY <1>1 DEF Preparing
<1>2. ASSUME NEW r \in Releases, Record(r)
      PROVE  Preparing'
  BY <1>2 DEF Record, Preparing, TypeOK
<1>3. ASSUME NEW r \in Releases, NEW s, pub' = [pub EXCEPT ![r].state = s], s # "PREPARING"
      PROVE  Preparing'
  BY <1>3 DEF Preparing, TypeOK, Publication
<1>4. ASSUME NEW r \in Releases, Begin(r)
      PROVE  Preparing'
  <2>1. made + 1 # 0
    BY Numbers DEF TypeOK
  <2>2. QED  BY <1>4, <2>1, BeginCarries DEF Preparing
<1>5. ASSUME NEW r \in Releases, Follow(r) \/ Process(r)
      PROVE  Preparing'
  BY <1>3, <1>4, <1>5 DEF Follow, Process, Close, Decided
<1>6. ASSUME NEW c \in calls, Answer(c)
      PROVE  Preparing'
  <2>1. CASE SwitchStep
    <3>1. PICK d \in calls : Switch(d)
      BY <2>1 DEF SwitchStep
    <3>2. pub' = pub \/ (pub' = Carry(current', {}) /\ current' = prep[d.row].release)
      BY <3>1 DEF Switch
    <3>3. d.row \in Preps /\ prep[d.row].release \in Releases
      BY DEF TypeOK, Calls, Prep
    <3>4. QED  BY <1>1, <3>2, <3>3, CarryFacts DEF Preparing
  <2>2. CASE pub' = pub
    BY <1>1, <2>2
  <2>3. QED  BY <1>6, <2>1, <2>2, AnswerStep DEF RowStep
<1>7. QED
  BY <1>1, <1>2, <1>5, <1>6
     DEF Next, vars, Register, ActivateStaged, ActivateNow, RetryRead, Refresh, Claim,
         ConfigRefuses, LeaseEnds, GrowOld, RetryCreate, Die

\* Whatever answers are lost and workers die, no request is left pending with
\* nobody to go on with it, so that none blocks the publications of a challenge
\* (ManualInProgress) for ever; and no publication waits for a request that does
\* not exist or was never formed.
THEOREM NothingHangs == Spec => []PreparationsGoOn
<1> DEFINE Inv == IInv /\ Served /\ Preparing
<1>1. Init => Inv
  <2>1. Init => Served
    BY Numbers DEF Init, Served
  <2>2. Init => Preparing
    BY DEF Init, Preparing
  <2>3. QED  BY <2>1, <2>2, InitInv
<1>2. Inv /\ [Next]_vars => Inv'
  BY InvStep, ServedStep, PreparingStep DEF IInv
<1>3. Inv => PreparationsGoOn
  <2> SUFFICES ASSUME Inv PROVE PreparationsGoOn
    OBVIOUS
  <2>0. made \in 0..MaxPreps /\ Served /\ Preparing
    BY DEF IInv, TypeOK
  <2>1. ASSUME NEW i \in Pending
        PROVE  \/ Claimable(i)
               \/ \E c \in calls : c.row = i /\ Held(c)
               \/ prep[i].due = "CLAIMED" /\ ~prep[i].lapsed /\ ~InTime(i)
    <3>1. i \in Preps /\ i <= made /\ prep[i].status = "PENDING"
      BY <2>0, Numbers DEF Pending, IInv, Rows
    <3>2. prep[i].due \in {"NOW", "CLAIMED"}
      BY <2>0, <3>1 DEF Served, Live, IInv, TypeOK, Prep
    <3>3. QED  BY <3>1, <3>2 DEF Claimable, InTime, Held
  <2>2. ASSUME NEW r \in Releases, pub[r].state = "PREPARING"
        PROVE  \E i \in Preps : /\ pub[r].preparation = i
                                /\ prep[i].status \in {"PENDING"} \cup Decided
    <3>1. pub[r].preparation \in Preps /\ pub[r].preparation <= made
      <4>1. pub[r] \in Publication
        BY DEF IInv, TypeOK
      <4>2. pub[r].preparation \in 0..MaxPreps
        BY <4>1 DEF Publication
      <4>3. pub[r].preparation # 0 /\ pub[r].preparation <= made
        BY <2>0, <2>2 DEF Preparing, IInv, Newer
      <4>4. QED  BY <4>2, <4>3, Numbers
    <3>2. prep[pub[r].preparation].status \in {"PENDING"} \cup Decided
      BY <2>0, <3>1 DEF Served, Live, IInv, TypeOK, Prep
    <3>3. QED  BY <3>1, <3>2
  <2>3. QED  BY <2>1, <2>2 DEF PreparationsGoOn
<1>4. QED
  <2> HIDE DEF Inv
  <2>1. QED  BY <1>1, <1>2, <1>3, PTL DEF Spec
=============================================================================
