-------------------------- MODULE ReleaseActivation --------------------------
(***************************************************************************)
(* How the current release of one challenge is switched: by an operator,   *)
(* at once or after its images are prepared on all nodes, and by the       *)
(* automatic publication of what CI verified.  automatic_publications.py,  *)
(* image_preparations.py, ReleaseActivateView.                             *)
(*                                                                         *)
(* Every transition runs under the locks of challenge and runtime config.  *)
(* What is not atomic is the worker: it claims a request under a lease,    *)
(* calls the Runtime outside of any transaction and settles the answer     *)
(* later; and the operator's retry, which reads the config without a lock. *)
(* The fence between them is the pair (generation, current release).       *)
(* Releases are named by their registry revision.  Left out is what has no *)
(* effect on an intent: requests that only prepare images, their retries,  *)
(* and the rest of a preparation whose intent was superseded.              *)
(***************************************************************************)
EXTENDS Naturals, FiniteSets

CONSTANTS Releases,     \* registry revisions
          First,        \* the release that is current at first
          MaxAttempts,  \* IMAGE_PREPARATION_MAX_ATTEMPTS
          MaxPreps,     \* bound on the preparation requests that are created
          MaxActs,      \* bound on the switches and refreshes of operators
          MaxFaults     \* bound on dead workers and calls that outlive their lease

Preps == 1..MaxPreps    \* rows of ImagePreparationRequest, in their order of creation

ASSUME ReleasesAssumption == Releases \subseteq Nat /\ First \in Releases
ASSUME BoundsAssumption == /\ {MaxPreps, MaxActs, MaxFaults} \subseteq Nat
                           /\ MaxAttempts \in Nat \ {0}

VARIABLES
  registered,  \* the releases the poller has registered
  current,     \* ChallengeRuntimeConfig.current_release
  generation,  \* ChallengeRuntimeConfig.activation_generation
  pub,         \* pub[r]: the AutomaticPublication of release r
  prep,        \* prep[i]: the ImagePreparationRequest i
  made,        \* how many were created
  retry,       \* the request whose retry has read the config
  calls,       \* the calls that workers wait for
  decisions,   \* history: transitions made by operators
  acts, faults \* what was used of MaxActs and MaxFaults

config == <<current, generation, decisions>>
bounds == <<acts, faults>>
vars   == <<registered, config, pub, prep, made, retry, calls, bounds>>

-----------------------------------------------------------------------------
Decided == {"ACTIVATED", "SUPERSEDED", "FAILED"}
Ended   == {"SUCCEEDED", "FAILED"}   \* FAILED stands for PARTIAL, too

\* asked: the decisions made when the publication was verified.
Publication ==
  [state : {"NONE", "PENDING", "PREPARING", "HELD"} \cup Decided,
   release : Releases, generation : Nat, preparation : 0..MaxPreps, asked : Nat]

\* status, generation, previous: the intent (activation_*); asked: the
\* decisions made when it was formed.  operation: what is known of the
\* Runtime's operation; refused: delivery_status is REJECTED or CONFLICT.
\* due: next_attempt_at is null, passed, or the claim of a call (SENDING);
\* lapsed: that claim is over; lease numbers the claims that took over others.
\* young: an automatic request, created within 30 minutes.
Prep ==
  [release : Releases, status : {"NONE", "PENDING"} \cup Decided,
   generation : Nat, previous : Releases, asked : Nat,
   operation : {"UNSENT", "RUNNING"} \cup Ended, refused : BOOLEAN,
   due : {"NEVER", "NOW", "CLAIMED"}, lapsed : BOOLEAN, lease : 0..MaxFaults,
   failures : 0..MaxAttempts, young : BOOLEAN]

Request(r, g, p, since, automatic) ==
  [release |-> r, status |-> "PENDING", generation |-> g, previous |-> p,
   asked |-> since, operation |-> "UNSENT", refused |-> FALSE, due |-> "NOW",
   lapsed |-> FALSE, lease |-> 0, failures |-> 0, young |-> automatic]

Calls == [row : Preps, kind : {"POST", "GET", "QUERY"}, lease : 0..MaxFaults]

NoRetry == 0
TypeOK ==
  /\ registered \subseteq Releases
  /\ current \in Releases /\ generation \in Nat /\ decisions \in Nat
  /\ pub \in [Releases -> Publication]
  /\ prep \in [Preps -> Prep] /\ made \in 0..MaxPreps
  /\ retry \in Preps \cup {NoRetry}
  /\ calls \subseteq Calls
  /\ acts \in 0..MaxActs /\ faults \in 0..MaxFaults

Init ==
  /\ registered = {First}
  /\ current = First /\ generation = 0 /\ decisions = 0
  /\ pub = [r \in Releases |-> [state |-> "NONE", release |-> First, generation |-> 0,
                                preparation |-> 0, asked |-> 0]]
  /\ prep = [i \in Preps |-> [Request(First, 0, First, 0, FALSE) EXCEPT !.status = "NONE", !.due = "NEVER"]]
  /\ made = 0 /\ retry = NoRetry
  /\ calls = {}
  /\ acts = 0 /\ faults = 0

-----------------------------------------------------------------------------
Room == made + (IF retry = NoRetry THEN 0 ELSE 1) < MaxPreps

Pending      == {i \in Preps : prep[i].status = "PENDING"}
Automatic(i) == \E r \in Releases : pub[r].preparation = i

\* Mutant: the generation is not compared.
FitsCurrent(i) == prep[i].previous = current

\* The fences: of an intent, and of a publication that waits.
Fits(i) == prep[i].generation = generation /\ prep[i].previous = current
StillExpected(r) == pub[r].generation = generation /\ pub[r].release = current

\* pending.update(activation_status="SUPERSEDED").  What is known of the
\* operation is kept for a retry; of a superseded intent it is forgotten.
Over(p, status) ==
  [p EXCEPT !.status = status, !.due = "NEVER", !.lapsed = FALSE,
            !.operation = IF status = "SUPERSEDED" THEN "UNSENT" ELSE @]
Supersede(rows) ==
  [i \in Preps |-> IF rows[i].status = "PENDING" THEN Over(rows[i], "SUPERSEDED") ELSE rows[i]]

\* Mutant: nothing is carried.
CarryNothing(new, begun) == pub

\* carry_pending_intents, for an automatic transition to the release new; not
\* of a publication whose preparation is begun.
Carry(new, begun) ==
  [r \in Releases |->
     IF r \notin begun /\ pub[r].state = "PENDING" /\ StillExpected(r)
     THEN [pub[r] EXCEPT !.release = new, !.generation = generation + 1]
     ELSE pub[r]]

-----------------------------------------------------------------------------
\* The poller registers a release, then records that CI verified it.
Register(r) ==
  /\ r \notin registered
  /\ registered' = registered \cup {r}
  /\ UNCHANGED <<config, pub, prep, made, retry, calls, bounds>>

Record(r) ==
  /\ r \in registered \ {First} /\ pub[r].state = "NONE"
  /\ pub' = [pub EXCEPT ![r] = [state |-> "PENDING", release |-> current, generation |-> generation,
                                preparation |-> 0, asked |-> decisions]]
  /\ UNCHANGED <<registered, config, prep, made, retry, calls, bounds>>

\* process_automatic_publications, one row: a preparation in progress ...
Follow(r) ==
  /\ pub[r].state = "PREPARING"
  /\ prep[pub[r].preparation].status \in Decided
  /\ pub' = [pub EXCEPT ![r].state = prep[pub[r].preparation].status]
  /\ UNCHANGED <<registered, config, prep, made, retry, calls, bounds>>

\* ... or one to begin, unless it is outdated or must be held.
Outdated(r) == ~StillExpected(r) \/ r <= current \/ \E new \in registered : new > r
ManualInProgress == \E i \in Pending : ~Automatic(i)

Close(r, state) ==
  /\ pub' = [pub EXCEPT ![r].state = state]
  /\ UNCHANGED <<registered, config, prep, made, retry, calls, bounds>>

Begin(r) ==
  /\ Room
  /\ made' = made + 1
  /\ prep' = [Supersede(prep) EXCEPT ![made + 1] = Request(r, generation + 1, current, pub[r].asked, TRUE)]
  /\ generation' = generation + 1
  /\ pub' = [Carry(current, {r}) EXCEPT ![r].state = "PREPARING", ![r].preparation = made + 1]
  /\ UNCHANGED <<registered, current, decisions, retry, calls, bounds>>

\* Held at any time, too: another execution profile, a missing environment;
\* and it waits while the files of the participants are missing.
Process(r) ==
  /\ pub[r].state = "PENDING"
  /\ \/ Outdated(r) /\ Close(r, "SUPERSEDED")
     \/ ~Outdated(r) /\ Close(r, "HELD")
     \/ ~Outdated(r) /\ ~ManualInProgress /\ Begin(r)

-----------------------------------------------------------------------------
\* ReleaseActivateView.  A release is switched to after its preparation, or
\* at once: the current one, a Docker one, or when nothing is staged.  The
\* request for a release that is being prepared already changes nothing.
Operator == acts < MaxActs /\ acts' = acts + 1 /\ UNCHANGED faults

ActivateStaged(r) ==
  /\ Operator
  /\ r \in registered \ {current}
  /\ ~\E i \in Pending : prep[i].release = r /\ prep[i].generation = generation
  /\ Room
  /\ made' = made + 1
  /\ generation' = generation + 1
  /\ decisions' = decisions + 1
  /\ prep' = [Supersede(prep) EXCEPT ![made + 1] = Request(r, generation', current, decisions', FALSE)]
  /\ UNCHANGED <<registered, current, pub, retry, calls>>

ActivateNow(r) ==
  /\ Operator
  /\ r \in registered
  /\ current' = r
  /\ generation' = generation + 1
  /\ decisions' = decisions + 1
  /\ prep' = Supersede(prep)
  /\ UNCHANGED <<registered, pub, made, retry, calls>>

\* queue_retry holds the lock of the parent, not that of the config.
RetryRead(i) ==
  /\ Room /\ retry = NoRetry
  /\ prep[i].status = "FAILED" /\ prep[i].operation = "FAILED" /\ Fits(i)
  /\ retry' = i
  /\ UNCHANGED <<registered, config, pub, prep, made, calls, bounds>>

RetryCreate ==
  /\ retry # NoRetry
  /\ retry' = NoRetry
  /\ made' = made + 1
  /\ LET parent == prep[retry] IN
     prep' = [prep EXCEPT ![made + 1] = Request(parent.release, parent.generation, parent.previous,
                                                parent.asked, FALSE)]
  /\ UNCHANGED <<registered, config, pub, calls, bounds>>

\* schedule_refresh.
Refresh(i) ==
  /\ Operator
  /\ prep[i].status = "FAILED" /\ prep[i].due = "NEVER"
  /\ ~prep[i].refused /\ prep[i].operation \notin Ended
  /\ prep' = [prep EXCEPT ![i].failures = 0, ![i].due = "NOW"]
  /\ UNCHANGED <<registered, config, pub, made, retry, calls>>

-----------------------------------------------------------------------------
\* Mutant: the claim of a dead worker is never taken over.
ClaimableNow(i) == prep[i].due = "NOW"

\* process_preparation: the claim, in a transaction of its own.
Claimable(i) == prep[i].due = "NOW" \/ prep[i].lapsed

CallFor(p) ==
  IF p.operation = "UNSENT" THEN "POST"
  ELSE IF p.operation = "SUCCEEDED" THEN "QUERY" ELSE "GET"

Claim(i) ==
  /\ Claimable(i)
  /\ LET lease == prep[i].lease + IF prep[i].lapsed THEN 1 ELSE 0 IN
     /\ prep' = [prep EXCEPT ![i].due = "CLAIMED", ![i].lapsed = FALSE, ![i].lease = lease]
     /\ calls' = calls \cup {[row |-> i, kind |-> CallFor(prep[i]), lease |-> lease]}
  /\ UNCHANGED <<registered, config, pub, made, retry, bounds>>

\* The settings changed under the request.
ConfigRefuses(i) ==
  /\ Claimable(i)
  /\ prep' = [prep EXCEPT ![i] = Over(@, IF @.status = "PENDING" THEN "FAILED" ELSE @.status)]
  /\ UNCHANGED <<registered, config, pub, made, retry, calls, bounds>>

\* The answer to c counts only while its claim is held.
Held(c) == prep[c.row].due = "CLAIMED" /\ prep[c.row].lease = c.lease

\* The step that settles the call c and leaves the request as p.
Settle(c, p) ==
  /\ calls' = calls \ {c}
  /\ prep' = [prep EXCEPT ![c.row] = p]
  /\ UNCHANGED <<registered, made, retry, bounds>>

Drop(c) == ~Held(c) /\ Settle(c, prep[c.row]) /\ UNCHANGED <<config, pub>>

\* LAG is RUNTIME_POLICY_PENDING, a 422 that is not counted for a young
\* automatic publication; PERMANENT any other 4xx or a change of settings.
PolicyPending(i) == prep[i].young /\ \E r \in Releases : pub[r].preparation = i /\ pub[r].state = "PREPARING"
Errors(i) == {"TRANSIENT", "PERMANENT"} \cup (IF PolicyPending(i) THEN {"LAG"} ELSE {})

Fail(p, error) ==
  LET failures == p.failures + IF error = "LAG" THEN 0 ELSE 1
  IN  [p EXCEPT !.failures = failures, !.lapsed = FALSE,
                !.due = IF error = "PERMANENT" \/ failures >= MaxAttempts THEN "NEVER" ELSE "NOW"]

\* An intent fails with its operation, or with the end of its attempts.
Judge(p) ==
  IF p.status = "PENDING" /\ (p.operation = "FAILED" \/ p.due = "NEVER")
  THEN Over(p, "FAILED") ELSE p

Parse(c, operation) ==
  LET p == prep[c.row]
      stops == c.kind = "GET" /\ operation \in Ended /\ p.status # "PENDING"
  IN  /\ Held(c) /\ c.kind \in {"POST", "GET"}
      /\ c.kind = "POST" => operation = "RUNNING"
      /\ Settle(c, Judge([p EXCEPT !.operation = operation, !.failures = 0, !.lapsed = FALSE,
                                   !.due = IF stops THEN "NEVER" ELSE "NOW"]))
      /\ UNCHANGED <<config, pub>>

CallFails(c) ==
  /\ Held(c) /\ c.kind \in {"POST", "GET"}
  /\ \E error \in Errors(c.row) :
       Settle(c, Judge([Fail(prep[c.row], error) EXCEPT
                          !.refused = c.kind = "POST" /\ error = "PERMANENT"]))
  /\ UNCHANGED <<config, pub>>

\* _complete_activation: the answer about the present readiness.
Query(c) == Held(c) /\ c.kind = "QUERY"

Lapse(c) ==
  /\ Query(c) /\ ~Fits(c.row)
  /\ Settle(c, Over(prep[c.row], "SUPERSEDED"))
  /\ UNCHANGED <<config, pub>>

Switch(c) ==
  /\ Query(c) /\ Fits(c.row)
  /\ current' = prep[c.row].release
  /\ generation' = generation + 1
  /\ IF Automatic(c.row) THEN pub' = Carry(current', {}) /\ UNCHANGED decisions
                         ELSE decisions' = decisions + 1 /\ UNCHANGED pub
  /\ Settle(c, Over(prep[c.row], "ACTIVATED"))

NotReady(c) ==
  /\ Query(c) /\ Fits(c.row)
  /\ \E error \in Errors(c.row) : Settle(c, Judge(Fail(prep[c.row], error)))
  /\ UNCHANGED <<config, pub>>

Answer(c) ==
  \/ Drop(c) \/ CallFails(c) \/ Lapse(c) \/ Switch(c) \/ NotReady(c)
  \/ \E operation \in {"RUNNING"} \cup Ended : Parse(c, operation)

-----------------------------------------------------------------------------
\* A worker dies; a claim ends, in time or under a call that is still out; a
\* request becomes 30 minutes old.
Die(c) ==
  /\ faults < MaxFaults /\ faults' = faults + 1
  /\ calls' = calls \ {c}
  /\ UNCHANGED <<registered, config, pub, prep, made, retry, acts>>

InTime(i) == \E c \in calls : c.row = i /\ c.lease = prep[i].lease

LeaseEnds(i) ==
  /\ prep[i].due = "CLAIMED" /\ ~prep[i].lapsed
  /\ IF InTime(i) THEN faults < MaxFaults /\ faults' = faults + 1 ELSE UNCHANGED faults
  /\ prep' = [prep EXCEPT ![i].lapsed = TRUE]
  /\ UNCHANGED <<registered, config, pub, made, retry, calls, acts>>

GrowOld(i) ==
  /\ PolicyPending(i)
  /\ prep' = [prep EXCEPT ![i].young = FALSE]
  /\ UNCHANGED <<registered, config, pub, made, retry, calls, bounds>>

Next ==
  \/ \E r \in Releases : \/ Register(r) \/ Record(r)
                         \/ Follow(r) \/ Process(r)
                         \/ ActivateStaged(r) \/ ActivateNow(r)
  \/ \E i \in Preps : RetryRead(i) \/ Refresh(i) \/ Claim(i) \/ ConfigRefuses(i) \/ LeaseEnds(i) \/ GrowOld(i)
  \/ RetryCreate
  \/ \E c \in calls : Answer(c) \/ Die(c)

Spec == Init /\ [][Next]_vars

\* The timer runs the commands again and again, and calls end.  Of the
\* Runtime it is assumed that an operation that is asked for again and again
\* is found to have ended at last.
Fairness ==
  /\ \A r \in Releases : WF_vars(Follow(r))
  /\ WF_vars(\E c \in calls : Answer(c))
  /\ \A i \in Preps :
       /\ WF_vars(Claim(i))
       /\ SF_vars(\E c \in calls, operation \in Ended : c.row = i /\ Parse(c, operation))
       /\ WF_vars(~InTime(i) /\ LeaseEnds(i))
       /\ WF_vars(GrowOld(i))

FairSpec == Spec /\ Fairness

-----------------------------------------------------------------------------
\* Whatever comes late, it never undoes an operator: a prepared release
\* becomes current only if no operator switched since it was asked for or,
\* when CI published it, since CI verified it; and automation never moves back
\* to an older release.  (_complete_activation, deploy/AUTOMATIC_PUBLICATIONS.md)
LaterDecisionWins ==
  [][\A i \in Preps :
       prep[i].status = "PENDING" /\ prep'[i].status = "ACTIVATED" =>
         /\ prep[i].asked = decisions
         /\ Automatic(i) => current' > current]_vars

\* Automation does not trip over itself: a verified publication is given up
\* for a newer release, for one that is current already or for an operator's
\* switch, never because an older publication was begun or activated
\* meanwhile.  (carry_pending_intents)
NewestPublicationSurvives ==
  [][\A r \in Releases :
       pub[r].state = "PENDING" /\ pub'[r].state = "SUPERSEDED" =>
         \/ \E new \in registered : new > r
         \/ r <= current
         \/ pub[r].asked # decisions]_vars

\* No publication is being prepared for ever, whatever answers are lost.
PublicationsAreDecided ==
  []<>(\A r \in Releases : pub[r].state # "PREPARING")
=============================================================================
