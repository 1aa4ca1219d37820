---------------------------- MODULE ExeSubmission ----------------------------
(***************************************************************************)
(* Executables that participants upload: the backend accepts one, hands it *)
(* to an external checker (the Runtime, with its pool of VMs), applies the *)
(* events the checker reports, and closes the submission once the VM was   *)
(* restored.  exe_submissions.py, checker_dispatch.py, checker_events.py.  *)
(*                                                                         *)
(* accept_exe rechecks everything under the locks of challenge, team and   *)
(* user; every other transaction locks the row of the submission.  What is *)
(* not atomic is a step of its own: the call to the checker between the    *)
(* two transactions of dispatch_submission, the stored file, the events.   *)
(* Rows of the former assignment mode are left out: no code touches them.  *)
(***************************************************************************)
EXTENDS Naturals, FiniteSets, Functions

CONSTANTS Teams, Users,
          Home,      \* the team of all users at first
          MaxSubs,   \* bound on the rows that are created
          MaxKeys,   \* bound on the keys that clients draw
          MaxCalls,  \* bound on the processes that dispatch at the same time
          MaxMoves,  \* bound on changes of membership
          MaxFaults, \* bound on lost commits, dead workers, forgotten jobs, failed restores
          None

Subs == 1..MaxSubs   \* rows, in the order of their creation
Keys == 1..MaxKeys   \* idempotency keys, in the order of their first use

ASSUME BoundsAssumption == /\ {MaxSubs, MaxKeys, MaxCalls, MaxMoves, MaxFaults} \subseteq Nat
                           /\ Home \in Teams
ASSUME NoneAssumption == \A t \in Teams, u \in Users, k \in Keys :
                           None # [team |-> t, user |-> u, key |-> k]

VARIABLES
  membership,  \* membership[u]: User.team
  moves,       \* changes of membership so far
  faults,      \* faults so far
  row,         \* row[s]: the ExeSubmission row s, its file and its events
  posts,       \* history: how often the submission was POSTed
  calls,       \* calls[s]: the processes that wait for an answer about s
  job,         \* job[s]: the checker's job for the submission
  sent         \* sent[s]: the events the checker reports until they are accepted

vars == <<membership, moves, faults, row, posts, calls, job, sent>>

-----------------------------------------------------------------------------
Active   == {"ASSIGNED", "RUNNING"}
\* ENDED stands for COMPLETED, CRASH, TIMEOUT and INFRA_ERROR, which no
\* transition tells apart.
Statuses == {"NONE", "ENDED", "START_UNKNOWN"} \cup Active

StartedEvent        == [kind |-> "STARTED"]
ResultEvent(known)  == [kind |-> "RESULT", started |-> known]
CleanupEvent(done)  == [kind |-> "CLEANUP", done |-> done]

\* validate_event: the program was started, was not, or nobody knows.
Results == {ResultEvent(known) : known \in {"YES", "NO", "UNKNOWN"}}
Events  == {StartedEvent} \cup Results \cup {CleanupEvent(d) : d \in BOOLEAN}

Owners == [team : Teams, user : Users, key : Keys]

\* fresh: dispatch_started_at is less than 30 seconds ago; job: checker_job_id
\* is set; started, released: the time is set; cleanup: cleanup_complete, with
\* cleanup_confirmed_at when DONE; stored: the payload is in the storage.
Rows ==
  [owner : Owners \cup {None}, status : Statuses,
   attempt : {"RESERVED", "USED", "RELEASED"},
   dispatch : {"PENDING", "SENDING", "CONFIRMED", "UNKNOWN"},
   fresh : BOOLEAN, job : BOOLEAN, started : BOOLEAN,
   cleanup : {"UNKNOWN", "FAILED", "DONE"},
   released : BOOLEAN, stored : BOOLEAN, recorded : SUBSET Events]

NoRow ==
  [owner |-> None, status |-> "NONE", attempt |-> "RESERVED", dispatch |-> "PENDING",
   fresh |-> FALSE, job |-> FALSE, started |-> FALSE, cleanup |-> "UNKNOWN",
   released |-> FALSE, stored |-> FALSE, recorded |-> {}]

Jobs == {"NONE", "QUEUED", "RUNNING", "RAN", "NOT_RUN"}

TypeOK ==
  /\ membership \in [Users -> Teams]
  /\ moves \in 0..MaxMoves /\ faults \in 0..MaxFaults
  /\ row \in [Subs -> Rows]
  /\ posts \in [Subs -> Nat]
  /\ calls \in [Subs -> Nat]
  /\ job \in [Subs -> Jobs]
  /\ sent \in [Subs -> SUBSET Events]

Init ==
  /\ membership = [u \in Users |-> Home]
  /\ moves = 0 /\ faults = 0
  /\ row = [s \in Subs |-> NoRow]
  /\ posts = [s \in Subs |-> 0]
  /\ calls = [s \in Subs |-> 0]
  /\ job = [s \in Subs |-> "NONE"]
  /\ sent = [s \in Subs |-> {}]

Created == {s \in Subs : row[s].owner # None}

\* A client repeats a key, or draws the next one.
Sendable == {k \in Keys : 1..(k - 1) \subseteq {row[s].owner.key : s \in Created}}

RowsOf(t) == {s \in Created : row[s].owner.team = t}

\* finished_at is set by the RESULT event only.
Finished(s) == row[s].status \in {"ENDED", "START_UNKNOWN"}

\* Something goes wrong that the code has to live with.
Fault == faults < MaxFaults /\ faults' = faults + 1

-----------------------------------------------------------------------------
(* Acceptance *)

\* Mutant: a result of unknown fate frees the team.
SlotFreeUnlessActive(t) == \A s \in RowsOf(t) : row[s].status \notin Active

\* All rows of a team share one slot.  A result ends it, whether or not the
\* VM was restored; START_UNKNOWN does not.
SlotFree(t) == \A s \in RowsOf(t) : row[s].status \notin Active \cup {"START_UNKNOWN"}

\* The key is new to the team, and this user did not use it in another one
\* (TEAM_CHANGED).  Otherwise the earlier row is the answer, or a refusal:
\* no state changes.
UnusedKey(u, k) ==
  \A s \in Created :
    row[s].owner.key = k => row[s].owner.team # membership[u] /\ row[s].owner.user # u

\* accept_exe.  The file is saved first; if the outcome of the commit is lost
\* the file is deleted, though the row may exist.
Accept(s, u, k, commitSeen) ==
  /\ Created = 1..(s - 1)
  /\ UnusedKey(u, k)
  /\ SlotFree(membership[u])
  /\ row' = [row EXCEPT ![s].owner  = [team |-> membership[u], user |-> u, key |-> k],
                        ![s].status = "ASSIGNED",
                        ![s].stored = commitSeen]
  /\ IF commitSeen THEN UNCHANGED faults ELSE Fault
  /\ UNCHANGED <<membership, moves, posts, calls, job, sent>>

\* An operator moves a member to another team.
MoveMember(u, t) ==
  /\ moves < MaxMoves
  /\ membership[u] # t
  /\ membership' = [membership EXCEPT ![u] = t]
  /\ moves' = moves + 1
  /\ UNCHANGED <<faults, row, posts, calls, job, sent>>

-----------------------------------------------------------------------------
(* Dispatch *)

\* Mutant: a request of unknown fate is sent again.
MethodAgain(s) == IF row[s].dispatch \in {"PENDING", "UNKNOWN"} THEN "POST" ELSE "GET"

\* "Always reconcile a previously sent request. A restarted worker cannot
\* POST it again."
Method(s) == IF row[s].dispatch = "PENDING" THEN "POST" ELSE "GET"

\* The processes that wait for an answer of the checker.
Waiting == FoldFunction(+, 0, calls)

\* First transaction of dispatch_submission.  A participant's view does the
\* same for queue_only, under a stronger condition and with GET only.
DispatchBegin(s) ==
  /\ Waiting < MaxCalls
  /\ row[s].status = "ASSIGNED"
  /\ ~row[s].released
  /\ ~(row[s].dispatch = "SENDING" /\ row[s].fresh)
  /\ row' = [row EXCEPT ![s].dispatch = "SENDING", ![s].fresh = TRUE]
  /\ calls' = [calls EXCEPT ![s] = @ + 1]
  /\ IF Method(s) = "POST"
     THEN posts' = [posts EXCEPT ![s] = @ + 1]
     ELSE UNCHANGED posts
  /\ UNCHANGED <<membership, moves, faults, job, sent>>

\* Second transaction: the answer names the job, or no usable answer came
\* (a time-out, a 404, a refusal: CHECKER_RESPONSE_UNKNOWN).  An event may
\* have been applied in between.
DispatchEnd(s, answered) ==
  /\ calls[s] > 0
  /\ answered => job[s] # "NONE"
  /\ IF row[s].status = "ASSIGNED"
     THEN row' = [row EXCEPT
            ![s].job      = @ \/ answered,
            ![s].dispatch = IF answered \/ row[s].job THEN "CONFIRMED" ELSE "UNKNOWN",
            ![s].fresh    = FALSE]
     ELSE UNCHANGED row
  /\ calls' = [calls EXCEPT ![s] = @ - 1]
  /\ UNCHANGED <<membership, moves, faults, posts, job, sent>>

\* The process dies while it waits; what it sent may still arrive.
DispatchCrash(s) ==
  /\ calls[s] > 0
  /\ Fault
  /\ calls' = [calls EXCEPT ![s] = @ - 1]
  /\ UNCHANGED <<membership, moves, row, posts, job, sent>>

\* Thirty seconds pass.  (The age matters, and is kept, while SENDING.)
GrowOld(s) ==
  /\ row[s].fresh
  /\ row' = [row EXCEPT ![s].fresh = FALSE]
  /\ UNCHANGED <<membership, moves, faults, posts, calls, job, sent>>

-----------------------------------------------------------------------------
(* Events of the checker *)

\* apply_event, common part.  A recorded event is only acknowledged; a new one
\* is taken while the lease is held, and proves that the checker has the job.
Receivable(s, e) == e \in sent[s] \ row[s].recorded /\ ~row[s].released

Receive(s, e, changed) ==
  /\ row' = [row EXCEPT ![s] = [changed EXCEPT !.dispatch = "CONFIRMED", !.fresh = FALSE,
                                               !.recorded = @ \cup {e}]]
  /\ UNCHANGED <<membership, moves, faults, posts, calls, job, sent>>

\* STARTED, unless the result or the clean-up overtook it.
ApplyStarted(s) ==
  /\ Receivable(s, StartedEvent)
  /\ row[s].status \in Active
  /\ row[s].cleanup # "DONE"
  /\ Receive(s, StartedEvent,
             [row[s] EXCEPT !.status = "RUNNING", !.attempt = "USED", !.started = TRUE])

\* Mutant: no start means not started.
AttemptAfterFalsy(e) == IF e.started = "YES" THEN "USED" ELSE "RELEASED"

\* True, false and null of the event's "started".
AttemptAfter(e) ==
  CASE e.started = "YES" -> "USED"
    [] e.started = "NO"  -> "RELEASED"
    [] OTHER             -> "RESERVED"

\* Mutant: a result is taken whatever is known about the start.
AgreesAlways(s, e) == TRUE

\* A result may not deny a start that is known.
Agrees(s, e) == row[s].started => e.started = "YES"

\* RESULT: the first one is final.  Without a known start the row becomes
\* START_UNKNOWN, whatever was reported.
ApplyResult(s, e) ==
  /\ e \in Results
  /\ Receivable(s, e)
  /\ row[s].status \in Active
  /\ Agrees(s, e)
  /\ Receive(s, e,
       [row[s] EXCEPT
          !.status  = IF e.started = "UNKNOWN" THEN "START_UNKNOWN" ELSE "ENDED",
          !.attempt = AttemptAfter(e),
          !.started = e.started = "YES"])

\* CLEANUP: a confirmed clean-up is never taken back.
ApplyCleanup(s, done) ==
  /\ Receivable(s, CleanupEvent(done))
  /\ row[s].cleanup = "DONE" => done
  /\ Receive(s, CleanupEvent(done),
             [row[s] EXCEPT !.cleanup = IF done THEN "DONE" ELSE "FAILED"])

-----------------------------------------------------------------------------
(* Closing *)

\* Mutant: the clean-up alone closes the submission.
ResolvedByCleanup(s) == row[s].cleanup = "DONE"

\* What close_exe_submission requires before it gives the lease up.
Resolved(s) ==
  /\ row[s].status = "ENDED"
  /\ row[s].attempt # "RESERVED"
  /\ row[s].cleanup = "DONE"

\* close_exe_submission and purge_released_payload: the lease is released and
\* the file deleted; a file that could not be deleted is tried again.
Close(s, deleted) ==
  /\ IF row[s].released THEN row[s].stored /\ deleted ELSE Resolved(s)
  /\ row' = [row EXCEPT ![s].released = TRUE, ![s].stored = @ /\ ~deleted]
  /\ UNCHANGED <<membership, moves, faults, posts, calls, job, sent>>

-----------------------------------------------------------------------------
(***************************************************************************)
(* The checker.  It runs a job at most once.  After a restart it may no    *)
(* longer know what became of a job; the VM may still be busy with it.     *)
(***************************************************************************)
Reports(s, e) == sent' = [sent EXCEPT ![s] = @ \cup {e}]

\* A POST arrives: the job is queued.
Arrive(s) ==
  /\ posts[s] > 0 /\ job[s] = "NONE"
  /\ job' = [job EXCEPT ![s] = "QUEUED"]
  /\ UNCHANGED <<membership, moves, faults, row, posts, calls, sent>>

\* CheckerPayloadView: the file is served while the submission is open.
Served(s) ==
  /\ row[s].stored /\ ~row[s].released
  /\ row[s].cleanup # "DONE"
  /\ row[s].status \in Active

Run(s) ==
  /\ job[s] = "QUEUED"
  /\ Served(s)
  /\ job' = [job EXCEPT ![s] = "RUNNING"]
  /\ Reports(s, StartedEvent)
  /\ UNCHANGED <<membership, moves, faults, row, posts, calls>>

GiveUp(s) ==
  /\ job[s] = "QUEUED"
  /\ job' = [job EXCEPT ![s] = "NOT_RUN"]
  /\ Reports(s, ResultEvent("NO"))
  /\ UNCHANGED <<membership, moves, faults, row, posts, calls>>

End(s) ==
  /\ job[s] = "RUNNING"
  /\ job' = [job EXCEPT ![s] = "RAN"]
  /\ Reports(s, ResultEvent("YES"))
  /\ UNCHANGED <<membership, moves, faults, row, posts, calls>>

Forgotten == ResultEvent("UNKNOWN")

Forget(s) ==
  /\ job[s] \in {"RUNNING", "RAN"}
  /\ Forgotten \notin sent[s]
  /\ Fault
  /\ Reports(s, Forgotten)
  /\ UNCHANGED <<membership, moves, row, posts, calls, job>>

\* The broker restored the VM, or could not yet.
Restore(s, done) ==
  /\ job[s] \in {"RAN", "NOT_RUN"}
  /\ {CleanupEvent(TRUE), CleanupEvent(done)} \cap sent[s] = {}
  /\ IF done THEN UNCHANGED faults ELSE Fault
  /\ Reports(s, CleanupEvent(done))
  /\ UNCHANGED <<membership, moves, row, posts, calls, job>>

-----------------------------------------------------------------------------
Request ==
  \/ \E s \in Subs, u \in Users, k \in Sendable, seen \in BOOLEAN : Accept(s, u, k, seen)
  \/ \E u \in Users, t \in Teams : MoveMember(u, t)

Dispatching(s) ==
  \/ DispatchBegin(s)
  \/ \E answered \in BOOLEAN : DispatchEnd(s, answered)
  \/ DispatchCrash(s)

Apply(s) ==
  \/ ApplyStarted(s)
  \/ \E e \in Results : ApplyResult(s, e)
  \/ \E done \in BOOLEAN : ApplyCleanup(s, done)

Checker(s) ==
  \/ Arrive(s) \/ Run(s) \/ GiveUp(s) \/ End(s) \/ Forget(s)
  \/ \E done \in BOOLEAN : Restore(s, done)

Next ==
  \/ Request
  \/ \E s \in Subs :
       \/ Dispatching(s)
       \/ GrowOld(s)
       \/ Apply(s)
       \/ \E deleted \in BOOLEAN : Close(s, deleted)
       \/ Checker(s)

Spec == Init /\ [][Next]_vars

\* The worker closes what it can; the checker gets on with its jobs, repeats its
\* events until they are accepted, and its broker restores the VMs.  Nothing is
\* assumed of the calls to the checker: they may be lost.
Fairness ==
  \A s \in Subs :
    /\ WF_vars(Close(s, TRUE))
    /\ WF_vars(Run(s) \/ GiveUp(s) \/ End(s))
    /\ WF_vars(Restore(s, TRUE))
    /\ WF_vars(\E e \in Results : ApplyResult(s, e))
    /\ WF_vars(ApplyCleanup(s, TRUE))

FairSpec == Spec /\ Fairness

-----------------------------------------------------------------------------
(* Properties *)

\* However results are lost, late or unknown, a team never has two programs
\* running on VMs at once: the slot of accept_exe is held until a result says
\* that the program ended or never began.
OneRunPerTeam ==
  \A t \in Teams : Cardinality({s \in RowsOf(t) : job[s] = "RUNNING"}) <= 1

\* No request of a participant runs twice: a submission is POSTed once in its
\* life, across lost answers, dead and concurrent workers, and a retry with
\* the same key makes no second row, even if the user was moved to another
\* team in between.
RequestsRunOnce ==
  /\ \A s \in Subs : posts[s] <= 1
  /\ \A s, z \in Created :
       s # z /\ row[s].owner.key = row[z].owner.key =>
         row[s].owner.team # row[z].owner.team /\ row[s].owner.user # row[z].owner.user

\* What the backend counts is what happened: an attempt is used up only by a
\* program that was started, and given back only if it never will be.
AttemptsAreTrue ==
  \A s \in Subs :
    /\ row[s].attempt = "USED" => job[s] \in {"RUNNING", "RAN"}
    /\ row[s].attempt = "RELEASED" => job[s] = "NOT_RUN"

\* The events of a submission, in whatever order they come, write its verdict
\* once; a start that was seen is never denied.
VerdictOf(s) ==
  IF ~Finished(s)
  THEN IF row[s].started THEN "started" ELSE "open"
  ELSE CASE row[s].attempt = "USED"     -> "ran"
         [] row[s].attempt = "RELEASED" -> "not_run"
         [] OTHER                       -> "unknown"
verdicts == [s \in Subs |-> VerdictOf(s)]
Register == INSTANCE Verdicts WITH Runs <- Subs, verdict <- verdicts
WritesOneVerdict == Register!Spec

\* Every submission that reached the checker is carried through to the end, even
\* if the backend never had an answer: its verdict is written, its lease
\* released and its file deleted.  The exception is a job whose fate the checker
\* forgot, which waits for an operator.
SubmissionsAreSettled ==
  \A s \in Subs :
    job[s] # "NONE" ~>
      \/ Finished(s) /\ row[s].released /\ ~row[s].stored
      \/ Forgotten \in sent[s]
=============================================================================
