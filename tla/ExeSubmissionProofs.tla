------------------------ MODULE ExeSubmissionProofs ------------------------
(***************************************************************************)
(* Proofs about ExeSubmission for every number of teams, users, rows, keys *)
(* and faults.                                                             *)
(***************************************************************************)
EXTENDS ExeSubmission, FiniteSetTheorems, TLAPS

-----------------------------------------------------------------------------
(***************************************************************************)
(* The properties are not inductive.  That a team runs one program rests   *)
(* on the checker's reports being true, on the backend believing nothing   *)
(* but reports, and on a slot that stays taken until a report frees it.    *)
(***************************************************************************)

Began == {"RUNNING", "RAN"}

\* A program runs only for a row that was POSTed, and what the checker reports
\* is true of the job.
ReportsTrue ==
  \A s \in Subs :
    /\ job[s] # "NONE" => posts[s] > 0
    /\ posts[s] > 0 => row[s].status # "NONE"
    /\ StartedEvent \in sent[s] => job[s] \in Began
    /\ Forgotten \in sent[s] => job[s] \in Began
    /\ ResultEvent("YES") \in sent[s] => job[s] = "RAN"
    /\ ResultEvent("NO") \in sent[s] => job[s] = "NOT_RUN"

\* The backend knows nothing but what was reported.
RowsTrue ==
  \A s \in Subs :
    /\ row[s].started => job[s] \in Began
    /\ row[s].attempt = "USED" => job[s] \in Began
    /\ row[s].attempt = "RELEASED" => job[s] = "NOT_RUN"
    /\ row[s].status = "ENDED" => job[s] \in {"RAN", "NOT_RUN"} /\ row[s].attempt # "RESERVED"
    /\ row[s].status = "START_UNKNOWN" => row[s].attempt = "RESERVED"

\* A row that waits for its first dispatch was not POSTed.
PostedOnce ==
  \A s \in Subs :
    /\ posts[s] <= 1
    /\ row[s].dispatch = "PENDING" => posts[s] = 0
    /\ row[s].owner = None <=> row[s].status = "NONE"

Holding == {"ASSIGNED", "RUNNING", "START_UNKNOWN"}

\* At most one row of a team holds its slot.
SlotTaken ==
  \A s, z \in Created :
    /\ row[s].status \in Holding /\ row[z].status \in Holding
    /\ row[s].owner.team = row[z].owner.team
    => s = z

\* A key makes one row for a team and for a user.
KeysOnce ==
  \A s, z \in Created :
    s # z /\ row[s].owner.key = row[z].owner.key =>
      row[s].owner.team # row[z].owner.team /\ row[s].owner.user # row[z].owner.user

IInv == TypeOK /\ ReportsTrue /\ RowsTrue /\ PostedOnce /\ SlotTaken /\ KeysOnce

-----------------------------------------------------------------------------
\* Events of different kinds, or with different contents, differ.
LEMMA EventsDiffer ==
  /\ \A k \in {"YES", "NO", "UNKNOWN"} : StartedEvent # ResultEvent(k)
  /\ \A k \in {"YES", "NO", "UNKNOWN"}, d \in BOOLEAN : CleanupEvent(d) # ResultEvent(k)
  /\ \A d \in BOOLEAN : CleanupEvent(d) # StartedEvent
  /\ ResultEvent("YES") # ResultEvent("NO")
  /\ Forgotten # ResultEvent("YES") /\ Forgotten # ResultEvent("NO")
<1>1. /\ StartedEvent.kind = "STARTED"
      /\ \A k : ResultEvent(k).kind = "RESULT" /\ ResultEvent(k).started = k
      /\ \A d : CleanupEvent(d).kind = "CLEANUP"
  BY DEF StartedEvent, ResultEvent, CleanupEvent
<1>2. QED  BY <1>1 DEF Forgotten

\* Nothing was accepted yet.
LEMMA InitInv == Init => IInv
<1> SUFFICES ASSUME Init PROVE IInv
  OBVIOUS
<1> USE DEF Init, NoRow
<1>1. TypeOK
  BY BoundsAssumption DEF TypeOK, Rows, Statuses, Active, Jobs
<1>2. ReportsTrue /\ RowsTrue /\ PostedOnce
  BY DEF ReportsTrue, RowsTrue, PostedOnce
<1>3. SlotTaken /\ KeysOnce
  BY DEF SlotTaken, KeysOnce, Created
<1>4. QED  BY <1>1, <1>2, <1>3 DEF IInv

-----------------------------------------------------------------------------
(* Types *)

\* What the transactions make of a row has the type of a row.
LEMMA RowTypes ==
  ASSUME NEW r \in Rows
  PROVE  /\ \A o \in Owners, b \in BOOLEAN :
              [r EXCEPT !.owner = o, !.status = "ASSIGNED", !.stored = b] \in Rows
         /\ \A status \in Statuses, attempt \in {"RESERVED", "USED", "RELEASED"}, b \in BOOLEAN :
              [r EXCEPT !.status = status, !.attempt = attempt, !.started = b] \in Rows
         /\ \A cleanup \in {"UNKNOWN", "FAILED", "DONE"} : [r EXCEPT !.cleanup = cleanup] \in Rows
         /\ [r EXCEPT !.fresh = FALSE] \in Rows
         /\ [r EXCEPT !.dispatch = "SENDING", !.fresh = TRUE] \in Rows
         /\ \A b \in BOOLEAN : [r EXCEPT !.released = TRUE, !.stored = b] \in Rows
<1> USE DEF Rows
<1>1. ASSUME NEW o \in Owners, NEW b \in BOOLEAN
      PROVE  [r EXCEPT !.owner = o, !.status = "ASSIGNED", !.stored = b] \in Rows
  BY DEF Statuses, Active
<1>2. ASSUME NEW status \in Statuses, NEW attempt \in {"RESERVED", "USED", "RELEASED"},
             NEW b \in BOOLEAN
      PROVE  [r EXCEPT !.status = status, !.attempt = attempt, !.started = b] \in Rows
  OBVIOUS
<1>3. ASSUME NEW cleanup \in {"UNKNOWN", "FAILED", "DONE"}
      PROVE  [r EXCEPT !.cleanup = cleanup] \in Rows
  OBVIOUS
<1>4. /\ [r EXCEPT !.fresh = FALSE] \in Rows
      /\ [r EXCEPT !.dispatch = "SENDING", !.fresh = TRUE] \in Rows
  OBVIOUS
<1>5. ASSUME NEW b \in BOOLEAN
      PROVE  [r EXCEPT !.released = TRUE, !.stored = b] \in Rows
  OBVIOUS
<1> HIDE DEF Rows
<1>6. QED  BY <1>1, <1>2, <1>3, <1>4, <1>5

\* A received event leaves a row of the right type.
LEMMA ReceiveTypes ==
  ASSUME TypeOK, NEW s \in Subs, NEW e \in Events, NEW changed \in Rows, Receive(s, e, changed)
  PROVE  TypeOK'
<1>1. [changed EXCEPT !.dispatch = "CONFIRMED", !.fresh = FALSE, !.recorded = @ \cup {e}] \in Rows
  BY DEF Rows
<1>2. row' \in [Subs -> Rows]
  BY <1>1 DEF TypeOK, Receive
<1>3. QED  BY <1>2 DEF TypeOK, Receive

LEMMA EventTypes ==
  /\ StartedEvent \in Events
  /\ \A e \in Results : e \in Events /\ e.started \in {"YES", "NO", "UNKNOWN"}
  /\ \A k \in {"YES", "NO", "UNKNOWN"} : ResultEvent(k) \in Events
  /\ \A d \in BOOLEAN : CleanupEvent(d) \in Events
  /\ Forgotten \in Events
BY DEF Events, Results, ResultEvent, Forgotten

LEMMA TypeStep == TypeOK /\ [Next]_vars => TypeOK'
<1> SUFFICES ASSUME TypeOK, [Next]_vars PROVE TypeOK'
  OBVIOUS
<1> USE DEF TypeOK
<1>1. ASSUME NEW s \in Subs, NEW u \in Users, NEW k \in Sendable, NEW seen \in BOOLEAN,
             Accept(s, u, k, seen)
      PROVE  TypeOK'
  <2> DEFINE owner == [team |-> membership[u], user |-> u, key |-> k]
  <2>1. owner \in Owners
    BY DEF Owners, Sendable
  <2>2. [row[s] EXCEPT !.owner = owner, !.status = "ASSIGNED", !.stored = seen] \in Rows
    BY <2>1, RowTypes
  <2>3. row' = [row EXCEPT ![s] =
                  [row[s] EXCEPT !.owner = owner, !.status = "ASSIGNED", !.stored = seen]]
    BY <1>1 DEF Accept
  <2>4. row' \in [Subs -> Rows]
    BY <2>2, <2>3
  <2>5. QED  BY <1>1, <2>4, BoundsAssumption DEF Accept, Fault
<1>2. ASSUME NEW u \in Users, NEW t \in Teams, MoveMember(u, t)
      PROVE  TypeOK'
  BY <1>2, BoundsAssumption DEF MoveMember
<1>3. ASSUME NEW s \in Subs, DispatchBegin(s)
      PROVE  TypeOK'
  <2>1. row' \in [Subs -> Rows]
    BY <1>3, RowTypes DEF DispatchBegin
  <2>2. calls' \in [Subs -> Nat]
    <3>1. calls' = [calls EXCEPT ![s] = @ + 1]
      BY <1>3 DEF DispatchBegin
    <3>2. QED  BY <3>1
  <2>3. posts' \in [Subs -> Nat]
    <3>1. posts' = [posts EXCEPT ![s] = @ + 1] \/ posts' = posts
      BY <1>3 DEF DispatchBegin
    <3>2. QED  BY <3>1
  <2>4. QED  BY <1>3, <2>1, <2>2, <2>3 DEF DispatchBegin
<1>4. ASSUME NEW s \in Subs, NEW answered \in BOOLEAN, DispatchEnd(s, answered)
      PROVE  TypeOK'
  <2>1. row' \in [Subs -> Rows]
    BY <1>4, SMTT(30) DEF DispatchEnd, Rows
  <2>2. calls' \in [Subs -> Nat]
    BY <1>4 DEF DispatchEnd
  <2>3. QED  BY <1>4, <2>1, <2>2 DEF DispatchEnd
<1>5. ASSUME NEW s \in Subs, DispatchCrash(s)
      PROVE  TypeOK'
  <2>1. calls' \in [Subs -> Nat]
    BY <1>5 DEF DispatchCrash
  <2>2. QED  BY <1>5, <2>1, BoundsAssumption DEF DispatchCrash, Fault
<1>6. ASSUME NEW s \in Subs, GrowOld(s)
      PROVE  TypeOK'
  <2>1. row' \in [Subs -> Rows]
    BY <1>6, RowTypes DEF GrowOld
  <2>2. QED  BY <1>6, <2>1 DEF GrowOld
<1>7. ASSUME NEW s \in Subs, ApplyStarted(s)
      PROVE  TypeOK'
  <2>1. [row[s] EXCEPT !.status = "RUNNING", !.attempt = "USED", !.started = TRUE] \in Rows
    BY RowTypes DEF Statuses, Active
  <2>2. QED  BY <1>7, <2>1, ReceiveTypes, EventTypes DEF ApplyStarted
<1>8. ASSUME NEW s \in Subs, NEW e \in Results, ApplyResult(s, e)
      PROVE  TypeOK'
  <2>1. AttemptAfter(e) \in {"RESERVED", "USED", "RELEASED"}
    BY DEF AttemptAfter
  <2>2. [row[s] EXCEPT !.status  = IF e.started = "UNKNOWN" THEN "START_UNKNOWN" ELSE "ENDED",
                       !.attempt = AttemptAfter(e),
                       !.started = e.started = "YES"] \in Rows
    BY <2>1, RowTypes DEF Statuses
  <2>3. QED  BY <1>8, <2>2, ReceiveTypes, EventTypes DEF ApplyResult
<1>9. ASSUME NEW s \in Subs, NEW done \in BOOLEAN, ApplyCleanup(s, done)
      PROVE  TypeOK'
  <2>1. [row[s] EXCEPT !.cleanup = IF done THEN "DONE" ELSE "FAILED"] \in Rows
    BY RowTypes
  <2>2. QED  BY <1>9, <2>1, ReceiveTypes, EventTypes DEF ApplyCleanup
<1>10. ASSUME NEW s \in Subs, NEW deleted \in BOOLEAN, Close(s, deleted)
       PROVE  TypeOK'
  <2>1. row' = [row EXCEPT ![s] =
                  [row[s] EXCEPT !.released = TRUE, !.stored = row[s].stored /\ ~deleted]]
    BY <1>10 DEF Close
  <2>2. row' \in [Subs -> Rows]
    BY <2>1, RowTypes
  <2>3. QED  BY <1>10, <2>2 DEF Close
<1>11. ASSUME NEW s \in Subs, Checker(s)
       PROVE  TypeOK'
  <2>1. CASE Arrive(s)
    BY <2>1 DEF Arrive, Jobs
  <2>2. CASE Run(s) \/ GiveUp(s) \/ End(s)
    BY <2>2, EventTypes DEF Run, GiveUp, End, Reports, Jobs
  <2>3. CASE Forget(s)
    BY <2>3, EventTypes, BoundsAssumption DEF Forget, Fault, Reports
  <2>4. ASSUME NEW done \in BOOLEAN, Restore(s, done)
        PROVE  TypeOK'
    BY <2>4, EventTypes, BoundsAssumption DEF Restore, Fault, Reports
  <2>5. QED  BY <1>11, <2>1, <2>2, <2>3, <2>4 DEF Checker
<1>12. CASE UNCHANGED vars
  BY <1>12 DEF vars
<1>13. QED
  BY <1>1, <1>2, <1>3, <1>4, <1>5, <1>6, <1>7, <1>8, <1>9, <1>10, <1>11, <1>12
     DEF Next, Request, Dispatching, Apply

-----------------------------------------------------------------------------
(* What a step does to the rows and to the jobs *)

\* The step neither accepts a submission nor writes what became of one.
Untouched ==
  \A z \in Subs :
    /\ row'[z].owner = row[z].owner
    /\ row'[z].status = row[z].status
    /\ row'[z].attempt = row[z].attempt
    /\ row'[z].started = row[z].started
    /\ row'[z].dispatch = "PENDING" => row[z].dispatch = "PENDING"

AcceptStep == \E s \in Subs, u \in Users, k \in Sendable, seen \in BOOLEAN : Accept(s, u, k, seen)
ResultStep == \E s \in Subs, e \in Results : ApplyResult(s, e)
StartStep  == \E s \in Subs : ApplyStarted(s)

\* The checker, its jobs and what was sent to it stay as they are.
Idle == posts' = posts /\ job' = job /\ sent' = sent

LEMMA RowSteps ==
  ASSUME TypeOK, [Next]_vars
  PROVE  AcceptStep \/ StartStep \/ ResultStep \/ Untouched
<1>1. ASSUME NEW u \in Users, NEW t \in Teams, MoveMember(u, t)
      PROVE  Untouched
  BY <1>1 DEF MoveMember, Untouched
<1>2. ASSUME NEW s \in Subs, DispatchBegin(s)
      PROVE  Untouched
  BY <1>2 DEF DispatchBegin, Untouched, TypeOK, Rows
<1>3. ASSUME NEW s \in Subs, NEW answered \in BOOLEAN, DispatchEnd(s, answered)
      PROVE  Untouched
  BY <1>3 DEF DispatchEnd, Untouched, TypeOK, Rows
<1>4. ASSUME NEW s \in Subs, DispatchCrash(s)
      PROVE  Untouched
  BY <1>4 DEF DispatchCrash, Untouched
<1>5. ASSUME NEW s \in Subs, GrowOld(s)
      PROVE  Untouched
  BY <1>5 DEF GrowOld, Untouched, TypeOK, Rows
<1>6. ASSUME NEW s \in Subs, NEW done \in BOOLEAN, ApplyCleanup(s, done)
      PROVE  Untouched
  BY <1>6 DEF ApplyCleanup, Receive, Untouched, TypeOK, Rows
<1>7. ASSUME NEW s \in Subs, NEW deleted \in BOOLEAN, Close(s, deleted)
      PROVE  Untouched
  BY <1>7 DEF Close, Untouched, TypeOK, Rows
<1>8. ASSUME NEW s \in Subs, Checker(s)
      PROVE  Untouched
  <2>1. row' = row
    BY <1>8 DEF Checker, Arrive, Run, GiveUp, End, Forget, Restore
  <2>2. QED  BY <2>1 DEF Untouched
<1>9. CASE UNCHANGED vars
  BY <1>9 DEF vars, Untouched
<1>10. QED
  BY <1>1, <1>2, <1>3, <1>4, <1>5, <1>6, <1>7, <1>8, <1>9
     DEF Next, Request, Dispatching, Apply, AcceptStep, StartStep, ResultStep

LEMMA JobSteps ==
  ASSUME [Next]_vars
  PROVE  Idle \/ \E s \in Subs : DispatchBegin(s) \/ Checker(s)
<1>1. ASSUME NEW s \in Subs, NEW u \in Users, NEW k \in Sendable, NEW seen \in BOOLEAN,
             Accept(s, u, k, seen)
      PROVE  Idle
  BY <1>1 DEF Accept, Idle
<1>2. ASSUME NEW u \in Users, NEW t \in Teams, MoveMember(u, t)
      PROVE  Idle
  BY <1>2 DEF MoveMember, Idle
<1>3. ASSUME NEW s \in Subs, NEW answered \in BOOLEAN, DispatchEnd(s, answered)
      PROVE  Idle
  BY <1>3 DEF DispatchEnd, Idle
<1>4. ASSUME NEW s \in Subs, DispatchCrash(s) \/ GrowOld(s)
      PROVE  Idle
  BY <1>4 DEF DispatchCrash, GrowOld, Idle
<1>5. ASSUME NEW s \in Subs, Apply(s)
      PROVE  Idle
  BY <1>5 DEF Apply, ApplyStarted, ApplyResult, ApplyCleanup, Receive, Idle
<1>6. ASSUME NEW s \in Subs, NEW deleted \in BOOLEAN, Close(s, deleted)
      PROVE  Idle
  BY <1>6 DEF Close, Idle
<1>7. CASE UNCHANGED vars
  BY <1>7 DEF vars, Idle
<1>8. QED  BY <1>1, <1>2, <1>3, <1>4, <1>5, <1>6, <1>7 DEF Next, Request, Dispatching

\* A job that began has begun for good, and how it ended is final.
LEMMA JobsProgress ==
  ASSUME TypeOK, [Next]_vars, NEW z \in Subs
  PROVE  /\ job[z] \in Began => job'[z] \in Began
         /\ job[z] \in {"RAN", "NOT_RUN"} => job'[z] = job[z]
<1> USE DEF Began, TypeOK
<1>1. CASE Idle
  BY <1>1 DEF Idle
<1>2. ASSUME NEW s \in Subs, DispatchBegin(s)
      PROVE  job' = job
  BY <1>2 DEF DispatchBegin
<1>3. ASSUME NEW s \in Subs, Checker(s)
      PROVE  \/ job' = job
             \/ job' = [job EXCEPT ![s] = "QUEUED"] /\ job[s] = "NONE"
             \/ job' = [job EXCEPT ![s] = "RUNNING"] /\ job[s] = "QUEUED"
             \/ job' = [job EXCEPT ![s] = "NOT_RUN"] /\ job[s] = "QUEUED"
             \/ job' = [job EXCEPT ![s] = "RAN"] /\ job[s] = "RUNNING"
  BY <1>3 DEF Checker, Arrive, Run, GiveUp, End, Forget, Restore
<1>4. QED  BY <1>1, <1>2, <1>3, JobSteps

-----------------------------------------------------------------------------
(* The reports of the checker *)

LEMMA StatusStays ==
  ASSUME TypeOK, [Next]_vars, NEW z \in Subs, row[z].status # "NONE"
  PROVE  row'[z].status # "NONE"
<1>1. CASE AcceptStep
  BY <1>1 DEF AcceptStep, Accept, TypeOK, Rows
<1>2. CASE StartStep
  BY <1>2 DEF StartStep, ApplyStarted, Receive, TypeOK, Rows
<1>3. CASE ResultStep
  BY <1>3 DEF ResultStep, ApplyResult, Receive, TypeOK, Rows
<1>4. CASE Untouched
  BY <1>4 DEF Untouched
<1>5. QED  BY <1>1, <1>2, <1>3, <1>4, RowSteps

LEMMA ReportsStep ==
  ASSUME TypeOK, ReportsTrue, [Next]_vars
  PROVE  ReportsTrue'
<1> USE DEF ReportsTrue
<1>1. CASE Idle
  BY <1>1, StatusStays DEF Idle
<1>2. ASSUME NEW s \in Subs, DispatchBegin(s)
      PROVE  ReportsTrue'
  <2>1. \A z \in Subs : posts'[z] > 0 => posts[z] > 0 \/ row[z].status # "NONE"
    BY <1>2 DEF DispatchBegin, TypeOK
  <2>2. \A z \in Subs : posts[z] > 0 => posts'[z] > 0
    BY <1>2 DEF DispatchBegin, TypeOK
  <2>3. QED  BY <1>2, <2>1, <2>2, StatusStays DEF DispatchBegin
<1>3. ASSUME NEW s \in Subs, Checker(s)
      PROVE  ReportsTrue'
  <2> USE StatusStays, EventsDiffer DEF Began, TypeOK, Reports
  <2>1. CASE Arrive(s)
    BY <2>1 DEF Arrive
  <2>2. CASE Run(s)
    BY <2>2 DEF Run
  <2>3. CASE GiveUp(s)
    BY <2>3 DEF GiveUp
  <2>4. CASE End(s)
    BY <2>4 DEF End
  <2>5. CASE Forget(s)
    BY <2>5 DEF Forget
  <2>6. ASSUME NEW done \in BOOLEAN, Restore(s, done)
        PROVE  ReportsTrue'
    <3>1. posts' = posts /\ job' = job
      BY <2>6 DEF Restore
    <3>2. sent' = [sent EXCEPT ![s] = @ \cup {CleanupEvent(done)}]
      BY <2>6 DEF Restore
    <3>3. \A z \in Subs : \A e : e \in sent'[z] => e \in sent[z] \/ e = CleanupEvent(done)
      BY <3>2
    <3>4. QED  BY <3>1, <3>3 DEF Forgotten
  <2>7. QED  BY <1>3, <2>1, <2>2, <2>3, <2>4, <2>5, <2>6 DEF Checker
<1>4. QED  BY <1>1, <1>2, <1>3, JobSteps

-----------------------------------------------------------------------------
(* What the backend believes *)

LEMMA RowsStep ==
  ASSUME TypeOK, ReportsTrue, RowsTrue, [Next]_vars
  PROVE  RowsTrue'
<1>1. CASE AcceptStep
  <2>1. \A z \in Subs : /\ row'[z].started = row[z].started
                        /\ row'[z].attempt = row[z].attempt
                        /\ row'[z].status \in {row[z].status, "ASSIGNED"}
    BY <1>1 DEF AcceptStep, Accept, TypeOK, Rows
  <2>2. QED  BY <2>1, JobsProgress DEF RowsTrue
<1>2. ASSUME NEW s \in Subs, ApplyStarted(s)
      PROVE  RowsTrue'
  <2>1. job' = job
    BY <1>2 DEF ApplyStarted, Receive
  <2>2. job[s] \in Began
    BY <1>2 DEF ApplyStarted, Receivable, ReportsTrue
  <2>3. row'[s].started /\ row'[s].attempt = "USED" /\ row'[s].status = "RUNNING"
    BY <1>2 DEF ApplyStarted, Receive, TypeOK, Rows
  <2>4. \A z \in Subs \ {s} : row'[z] = row[z]
    BY <1>2 DEF ApplyStarted, Receive, TypeOK
  <2>5. QED  BY <2>1, <2>2, <2>3, <2>4 DEF RowsTrue
<1>3. ASSUME NEW s \in Subs, NEW e \in Results, ApplyResult(s, e)
      PROVE  RowsTrue'
  <2>1. job' = job
    BY <1>3 DEF ApplyResult, Receive
  <2>2. \A z \in Subs \ {s} : row'[z] = row[z]
    BY <1>3 DEF ApplyResult, Receive, TypeOK
  <2>3. /\ row'[s].started = (e.started = "YES")
        /\ row'[s].attempt = AttemptAfter(e)
        /\ row'[s].status = IF e.started = "UNKNOWN" THEN "START_UNKNOWN" ELSE "ENDED"
    BY <1>3 DEF ApplyResult, Receive, TypeOK, Rows
  <2>4. PICK known \in {"YES", "NO", "UNKNOWN"} : e = ResultEvent(known)
    BY DEF Results
  <2>5. e.started = known
    BY <2>4 DEF ResultEvent
  <2>6. e \in sent[s]
    BY <1>3 DEF ApplyResult, Receivable
  <2>7. CASE known = "YES"
    <3>1. job[s] = "RAN"
      BY <2>4, <2>6, <2>7 DEF ReportsTrue
    <3>2. QED  BY <2>1, <2>2, <2>3, <2>5, <2>7, <3>1 DEF RowsTrue, AttemptAfter, Began
  <2>8. CASE known = "NO"
    <3>1. job[s] = "NOT_RUN"
      BY <2>4, <2>6, <2>8 DEF ReportsTrue
    <3>2. QED  BY <2>1, <2>2, <2>3, <2>5, <2>8, <3>1 DEF RowsTrue, AttemptAfter
  <2>9. CASE known = "UNKNOWN"
    BY <2>1, <2>2, <2>3, <2>5, <2>9 DEF RowsTrue, AttemptAfter
  <2>10. QED  BY <2>7, <2>8, <2>9
<1>4. CASE Untouched
  BY <1>4, JobsProgress DEF Untouched, RowsTrue
<1>5. QED  BY <1>1, <1>2, <1>3, <1>4, RowSteps DEF StartStep, ResultStep

-----------------------------------------------------------------------------
(* Requests *)

LEMMA PostedStep ==
  ASSUME TypeOK, PostedOnce, [Next]_vars
  PROVE  PostedOnce'
<1> USE DEF PostedOnce
<1>1. ASSUME NEW z \in Subs
      PROVE  row'[z].owner = None <=> row'[z].status = "NONE"
  <2>1. ASSUME NEW s \in Subs, NEW u \in Users, NEW k \in Sendable, NEW seen \in BOOLEAN,
               Accept(s, u, k, seen)
        PROVE  row'[z].owner = None <=> row'[z].status = "NONE"
    <3>1. CASE z # s
      BY <2>1, <3>1 DEF Accept, TypeOK
    <3>2. CASE z = s
      <4>1. row'[s].owner = [team |-> membership[u], user |-> u, key |-> k]
        BY <2>1 DEF Accept, TypeOK, Rows
      <4>2. row'[s].status = "ASSIGNED"
        BY <2>1 DEF Accept, TypeOK, Rows
      <4>3. membership[u] \in Teams /\ k \in Keys
        BY DEF TypeOK, Sendable
      <4>4. QED  BY <3>2, <4>1, <4>2, <4>3, NoneAssumption
    <3>3. QED  BY <3>1, <3>2
  <2>2. ASSUME NEW s \in Subs, ApplyStarted(s)
        PROVE  row'[z].owner = None <=> row'[z].status = "NONE"
    BY <2>2 DEF ApplyStarted, Receive, TypeOK, Rows, Active
  <2>3. ASSUME NEW s \in Subs, NEW e \in Results, ApplyResult(s, e)
        PROVE  row'[z].owner = None <=> row'[z].status = "NONE"
    BY <2>3 DEF ApplyResult, Receive, TypeOK, Rows, Active
  <2>4. CASE Untouched
    BY <2>4 DEF Untouched
  <2>5. QED  BY <2>1, <2>2, <2>3, <2>4, RowSteps DEF AcceptStep, StartStep, ResultStep
<1>2. ASSUME NEW z \in Subs, row'[z].dispatch = "PENDING"
      PROVE  row[z].dispatch = "PENDING"
  <2>1. CASE AcceptStep
    BY <1>2, <2>1 DEF AcceptStep, Accept, TypeOK, Rows
  <2>2. CASE StartStep
    BY <1>2, <2>2 DEF StartStep, ApplyStarted, Receive, TypeOK, Rows
  <2>3. CASE ResultStep
    BY <1>2, <2>3 DEF ResultStep, ApplyResult, Receive, TypeOK, Rows
  <2>4. CASE Untouched
    BY <1>2, <2>4 DEF Untouched
  <2>5. QED  BY <2>1, <2>2, <2>3, <2>4, RowSteps
<1>3. CASE posts' = posts
  BY <1>1, <1>2, <1>3
<1>4. ASSUME NEW s \in Subs, DispatchBegin(s), posts' # posts
      PROVE  PostedOnce'
  <2>1. row[s].dispatch = "PENDING" /\ posts' = [posts EXCEPT ![s] = @ + 1]
    BY <1>4 DEF DispatchBegin, Method
  <2>2. row'[s].dispatch = "SENDING"
    BY <1>4 DEF DispatchBegin, TypeOK, Rows
  <2>3. QED  BY <1>1, <1>2, <2>1, <2>2 DEF TypeOK
<1>5. ASSUME NEW s \in Subs, Checker(s)
      PROVE  posts' = posts
  BY <1>5 DEF Checker, Arrive, Run, GiveUp, End, Forget, Restore
<1>6. QED  BY <1>3, <1>4, <1>5, JobSteps DEF Idle

-----------------------------------------------------------------------------
(* Slots and keys *)

\* Only an acceptance makes a row of a team, or one that holds a slot.
LEMMA OwnersStay ==
  ASSUME TypeOK, [Next]_vars, ~AcceptStep, NEW z \in Subs
  PROVE  /\ row'[z].owner = row[z].owner
         /\ row'[z].status \in Holding => row[z].status \in Holding
<1> USE DEF Holding
<1>1. CASE StartStep
  BY <1>1 DEF StartStep, ApplyStarted, Receive, TypeOK, Rows, Active
<1>2. CASE ResultStep
  BY <1>2 DEF ResultStep, ApplyResult, Receive, TypeOK, Rows, Active
<1>3. CASE Untouched
  BY <1>3 DEF Untouched
<1>4. QED  BY <1>1, <1>2, <1>3, RowSteps

\* An acceptance makes one row, and leaves the others as they are.
LEMMA AcceptMakesOne ==
  ASSUME TypeOK, NEW s \in Subs, NEW u \in Users, NEW k \in Sendable, NEW seen \in BOOLEAN,
         Accept(s, u, k, seen)
  PROVE  /\ s \notin Created
         /\ Created' \subseteq Created \cup {s}
         /\ row'[s].owner.team = membership[u]
         /\ row'[s].owner.user = u
         /\ row'[s].owner.key = k
         /\ \A z \in Created : row'[z] = row[z]
<1>1. s \notin Created
  BY BoundsAssumption DEF Accept, Subs
<1>2. \A z \in Subs \ {s} : row'[z] = row[z]
  BY DEF Accept, TypeOK
<1>3. row'[s].owner = [team |-> membership[u], user |-> u, key |-> k]
  BY DEF Accept, TypeOK, Rows
<1>4. QED  BY <1>1, <1>2, <1>3 DEF Created

LEMMA SlotStep ==
  ASSUME TypeOK, SlotTaken, [Next]_vars
  PROVE  SlotTaken'
<1>1. ASSUME NEW s \in Subs, NEW u \in Users, NEW k \in Sendable, NEW seen \in BOOLEAN,
             Accept(s, u, k, seen)
      PROVE  SlotTaken'
  <2>1. \A z \in Created : row[z].owner.team = membership[u] => row[z].status \notin Holding
    BY <1>1 DEF Accept, SlotFree, RowsOf, Active, Holding
  <2>2. QED  BY <1>1, <2>1, AcceptMakesOne DEF SlotTaken
<1>2. CASE ~AcceptStep
  BY <1>2, OwnersStay DEF SlotTaken, Created
<1>3. QED  BY <1>1, <1>2 DEF AcceptStep

LEMMA KeysStep ==
  ASSUME TypeOK, KeysOnce, [Next]_vars
  PROVE  KeysOnce'
<1>1. ASSUME NEW s \in Subs, NEW u \in Users, NEW k \in Sendable, NEW seen \in BOOLEAN,
             Accept(s, u, k, seen)
      PROVE  KeysOnce'
  <2>1. \A z \in Created : row[z].owner.key = k =>
          row[z].owner.team # membership[u] /\ row[z].owner.user # u
    BY <1>1 DEF Accept, UnusedKey
  <2>2. QED  BY <1>1, <2>1, AcceptMakesOne DEF KeysOnce
<1>2. CASE ~AcceptStep
  BY <1>2, OwnersStay DEF KeysOnce, Created
<1>3. QED  BY <1>1, <1>2 DEF AcceptStep

-----------------------------------------------------------------------------
(* Verdicts *)

\* A step that writes the row s only.
Others(s) == \A z \in Subs \ {s} : VerdictOf(z)' = VerdictOf(z)

LEMMA VerdictSteps ==
  ASSUME TypeOK, PostedOnce, [Next]_vars
  PROVE  \/ \A z \in Subs : VerdictOf(z)' = VerdictOf(z)
         \/ \E s \in Subs :
              /\ Others(s)
              /\ \/ VerdictOf(s) = "open" /\ VerdictOf(s)' = "started"
                 \/ VerdictOf(s) \in {"open", "started"} /\ VerdictOf(s)' = "ran"
                 \/ VerdictOf(s) = "open" /\ VerdictOf(s)' \in {"not_run", "unknown"}
<1> USE DEF VerdictOf, Finished
<1>1. CASE AcceptStep
  <2>1. \A z \in Subs : /\ row'[z].started = row[z].started
                        /\ row'[z].attempt = row[z].attempt
                        /\ \/ row'[z].status = row[z].status
                           \/ row'[z].status = "ASSIGNED" /\ row[z].status = "NONE"
    <3>1. PICK s \in Subs, u \in Users, k \in Sendable, seen \in BOOLEAN : Accept(s, u, k, seen)
      BY <1>1 DEF AcceptStep
    <3>2. row[s].owner = None
      BY <3>1, AcceptMakesOne DEF Created
    <3>3. row[s].status = "NONE"
      BY <3>2 DEF PostedOnce
    <3>4. QED  BY <3>1, <3>3 DEF Accept, TypeOK, Rows
  <2>2. QED  BY <2>1
<1>2. ASSUME NEW s \in Subs, ApplyStarted(s)
      PROVE  /\ Others(s)
             /\ VerdictOf(s) \in {"open", "started"} /\ VerdictOf(s)' = "started"
  <2>1. \A z \in Subs \ {s} : row'[z] = row[z]
    BY <1>2 DEF ApplyStarted, Receive, TypeOK
  <2>2. row'[s].started /\ row'[s].status = "RUNNING" /\ row[s].status \in Active
    BY <1>2 DEF ApplyStarted, Receive, TypeOK, Rows
  <2>3. QED  BY <2>1, <2>2 DEF Others, Active
<1>3. ASSUME NEW s \in Subs, NEW e \in Results, ApplyResult(s, e)
      PROVE  /\ Others(s)
             /\ \/ VerdictOf(s) \in {"open", "started"} /\ VerdictOf(s)' = "ran"
                \/ VerdictOf(s) = "open" /\ VerdictOf(s)' \in {"not_run", "unknown"}
  <2>1. \A z \in Subs \ {s} : row'[z] = row[z]
    BY <1>3 DEF ApplyResult, Receive, TypeOK
  <2>2. /\ row'[s].attempt = AttemptAfter(e)
        /\ row'[s].status = IF e.started = "UNKNOWN" THEN "START_UNKNOWN" ELSE "ENDED"
    BY <1>3 DEF ApplyResult, Receive, TypeOK, Rows
  <2>3. row[s].status \in Active /\ (row[s].started => e.started = "YES")
    BY <1>3 DEF ApplyResult, Agrees
  <2>4. e.started \in {"YES", "NO", "UNKNOWN"}
    BY EventTypes
  <2>5. QED  BY <2>1, <2>2, <2>3, <2>4 DEF Others, Active, AttemptAfter
<1>4. CASE Untouched
  BY <1>4 DEF Untouched
<1>5. QED  BY <1>1, <1>2, <1>3, <1>4, RowSteps DEF StartStep, ResultStep, Others

LEMMA RegisterStep ==
  ASSUME TypeOK, PostedOnce, [Next]_vars
  PROVE  [Register!Next]_verdicts
<1>1. CASE \A z \in Subs : VerdictOf(z)' = VerdictOf(z)
  BY <1>1 DEF verdicts
<1>2. ASSUME NEW s \in Subs, Others(s)
      PROVE  verdicts' = [verdicts EXCEPT ![s] = VerdictOf(s)'] /\ verdicts[s] = VerdictOf(s)
  BY <1>2 DEF verdicts, Others
<1>3. ASSUME NEW s \in Subs, Others(s), VerdictOf(s) = "open", VerdictOf(s)' = "started"
      PROVE  Register!Next
  <2>1. Register!Begin(s)
    BY <1>2, <1>3 DEF Register!Begin
  <2>2. QED  BY <2>1 DEF Register!Next
<1>4. ASSUME NEW s \in Subs, Others(s), VerdictOf(s) \in {"open", "started"}, VerdictOf(s)' = "ran"
      PROVE  Register!Next
  <2>1. Register!Conclude(s, "ran")
    BY <1>2, <1>4 DEF Register!Conclude
  <2>2. QED  BY <2>1 DEF Register!Next
<1>5. ASSUME NEW s \in Subs, Others(s), VerdictOf(s) = "open",
             VerdictOf(s)' \in {"not_run", "unknown"}
      PROVE  Register!Next
  <2>1. Register!Conclude(s, VerdictOf(s)')
    BY <1>2, <1>5 DEF Register!Conclude
  <2>2. QED  BY <1>5, <2>1 DEF Register!Next
<1>6. QED  BY <1>1, <1>3, <1>4, <1>5, VerdictSteps

-----------------------------------------------------------------------------
(* Theorems *)

LEMMA InvStep == IInv /\ [Next]_vars => IInv'
BY TypeStep, ReportsStep, RowsStep, PostedStep, SlotStep, KeysStep DEF IInv

LEMMA Invariance == Spec => []IInv
<1>1. QED  BY InitInv, InvStep, PTL DEF Spec

\* Type correctness, whatever the number of calls and requests.
THEOREM TypeCorrect == Spec => []TypeOK
<1>1. IInv => TypeOK
  BY DEF IInv
<1>2. QED  BY <1>1, Invariance, PTL

\* Across lost answers, dead and concurrent workers, retries and changes of
\* team, a submission is POSTed once and a key makes one submission.
THEOREM NothingRunsTwice == Spec => []RequestsRunOnce
<1>1. IInv => RequestsRunOnce
  BY DEF IInv, PostedOnce, KeysOnce, RequestsRunOnce
<1>2. QED  BY <1>1, Invariance, PTL

\* However events are lost, repeated or late, the stored attempts are true of
\* the checker's jobs.
THEOREM AttemptsStayTrue == Spec => []AttemptsAreTrue
<1>1. IInv => AttemptsAreTrue
  BY DEF IInv, RowsTrue, Began, AttemptsAreTrue
<1>2. QED  BY <1>1, Invariance, PTL

\* A team never has two programs running at once: a running job is one of a row
\* that holds the slot of the team.
THEOREM SlotIsExclusive == Spec => []OneRunPerTeam
<1>1. ASSUME IInv, NEW t \in Teams
      PROVE  Cardinality({s \in RowsOf(t) : job[s] = "RUNNING"}) <= 1
  <2> DEFINE Running == {s \in RowsOf(t) : job[s] = "RUNNING"}
  <2>1. \A s \in Running : row[s].status \in Holding
    BY <1>1 DEF IInv, TypeOK, Rows, Statuses, Active, RowsOf, Created, PostedOnce, RowsTrue, Holding
  <2>2. \A s, z \in Running : s = z
    BY <1>1, <2>1 DEF IInv, SlotTaken, RowsOf
  <2>3. CASE Running = {}
    BY <2>3, FS_EmptySet
  <2>4. CASE Running # {}
    <3>1. PICK s \in Running : TRUE
      BY <2>4
    <3>2. Running = {s}
      BY <2>2, <3>1
    <3>3. QED  BY <3>2, FS_Singleton
  <2>5. QED  BY <2>3, <2>4
<1>2. IInv => OneRunPerTeam
  BY <1>1 DEF OneRunPerTeam
<1>3. QED  BY <1>2, Invariance, PTL

\* In whatever order events come, they write the verdict of each submission
\* once, and never deny a start that was seen: the rows implement Verdicts.
THEOREM VerdictsAreFinal == Spec => WritesOneVerdict
<1>1. Init => Register!Init
  BY DEF Init, NoRow, Register!Init, verdicts, VerdictOf, Finished
<1>2. IInv /\ [Next]_vars => [Register!Next]_verdicts
  BY RegisterStep DEF IInv
<1>3. QED  BY <1>1, <1>2, Invariance, PTL DEF Spec, WritesOneVerdict, Register!Spec

-----------------------------------------------------------------------------
(***************************************************************************)
(* The safety half of SubmissionsAreSettled: as long as a submission that  *)
(* reached the checker is not settled, a step that Fairness asks for is    *)
(* open.                                                                   *)
(***************************************************************************)

Settled(s) == Finished(s) /\ row[s].released /\ ~row[s].stored

\* The checker has reported how a job ended.
ReportsComplete ==
  \A s \in Subs :
    /\ job[s] = "RAN" => ResultEvent("YES") \in sent[s]
    /\ job[s] = "NOT_RUN" => ResultEvent("NO") \in sent[s]

\* No row has recorded a report without doing what it says, gives its lease up
\* before it is resolved, or ends in doubt that the checker did not have.
RowsFollowReports ==
  \A s \in Subs :
    /\ row[s].status = "START_UNKNOWN" => Forgotten \in sent[s]
    /\ row[s].recorded \cap Results # {} => Finished(s)
    /\ CleanupEvent(TRUE) \in row[s].recorded => row[s].cleanup = "DONE"
    /\ row[s].released => Resolved(s)

\* A job that waits or runs goes on; a result that was sent can be taken; the
\* VM can be restored, or the news of it taken; the submission can be closed,
\* or its file deleted.
CarriedOn ==
  \A s \in Subs :
    job[s] # "NONE" =>
      \/ Settled(s) \/ Forgotten \in sent[s]
      \/ job[s] \in {"QUEUED", "RUNNING"}
      \/ row[s].status \in Active /\ \E e \in Results : Receivable(s, e) /\ Agrees(s, e)
      \/ /\ Finished(s) /\ row[s].cleanup # "DONE"
         /\ CleanupEvent(TRUE) \notin sent[s] \/ Receivable(s, CleanupEvent(TRUE))
      \/ IF row[s].released THEN row[s].stored ELSE Resolved(s)

\* What was reported stays reported.
LEMMA ReportsStay ==
  ASSUME TypeOK, [Next]_vars, NEW z \in Subs
  PROVE  sent[z] \subseteq sent'[z]
<1>1. CASE Idle
  BY <1>1 DEF Idle
<1>2. ASSUME NEW s \in Subs, DispatchBegin(s)
      PROVE  sent' = sent
  BY <1>2 DEF DispatchBegin
<1>3. ASSUME NEW s \in Subs, Checker(s)
      PROVE  sent' = sent \/ \E e : sent' = [sent EXCEPT ![s] = @ \cup {e}]
  BY <1>3 DEF Checker, Arrive, Run, GiveUp, End, Forget, Restore, Reports
<1>4. QED  BY <1>1, <1>2, <1>3, JobSteps DEF TypeOK

\* Whoever ends a job reports it in the same step.
LEMMA ReportsCompleteStep ==
  ASSUME TypeOK, ReportsComplete, [Next]_vars
  PROVE  ReportsComplete'
<1> USE DEF ReportsComplete
<1>1. CASE Idle
  BY <1>1 DEF Idle
<1>2. ASSUME NEW s \in Subs, DispatchBegin(s)
      PROVE  ReportsComplete'
  BY <1>2 DEF DispatchBegin
<1>3. ASSUME NEW s \in Subs, Checker(s)
      PROVE  ReportsComplete'
  <2>1. CASE Arrive(s)
    BY <2>1 DEF Arrive, TypeOK
  <2>2. CASE Run(s)
    BY <2>2, ReportsStay DEF Run, TypeOK
  <2>3. CASE GiveUp(s)
    BY <2>3 DEF GiveUp, Reports, TypeOK
  <2>4. CASE End(s)
    BY <2>4 DEF End, Reports, TypeOK
  <2>5. CASE job' = job
    BY <2>5, ReportsStay
  <2>6. QED  BY <1>3, <2>1, <2>2, <2>3, <2>4, <2>5 DEF Checker, Forget, Restore
<1>4. QED  BY <1>1, <1>2, <1>3, JobSteps

\* The parts of the invariant for one row, as a predicate of what it holds.
Follows(r, reported) ==
  /\ r.status = "START_UNKNOWN" => Forgotten \in reported
  /\ r.recorded \cap Results # {} => r.status \in {"ENDED", "START_UNKNOWN"}
  /\ CleanupEvent(TRUE) \in r.recorded => r.cleanup = "DONE"
  /\ r.released => r.status = "ENDED" /\ r.attempt # "RESERVED" /\ r.cleanup = "DONE"

LEMMA FollowsStep ==
  ASSUME TypeOK, PostedOnce, RowsFollowReports, [Next]_vars
  PROVE  RowsFollowReports'
<1>0. \A z \in Subs : Follows(row[z], sent[z]) /\ Follows(row[z], sent'[z])
  BY ReportsStay DEF RowsFollowReports, Follows, Finished, Resolved
<1>1. ASSUME NEW s \in Subs, \A z \in Subs \ {s} : row'[z] = row[z],
             Follows(row'[s], sent'[s])
      PROVE  RowsFollowReports'
  BY <1>0, <1>1 DEF RowsFollowReports, Follows, Finished, Resolved
<1>2. ASSUME NEW s \in Subs, NEW u \in Users, NEW k \in Sendable, NEW seen \in BOOLEAN,
             Accept(s, u, k, seen)
      PROVE  RowsFollowReports'
  <2>1. row[s].status = "NONE"
    <3>1. s \notin Created
      BY <1>2 DEF Accept, Subs
    <3>2. QED  BY <3>1 DEF Created, PostedOnce
  <2>2. /\ row'[s].status = "ASSIGNED"
        /\ row'[s].recorded = row[s].recorded
        /\ row'[s].cleanup = row[s].cleanup
        /\ row'[s].released = row[s].released
    BY <1>2 DEF Accept, TypeOK, Rows
  <2>3. \A z \in Subs \ {s} : row'[z] = row[z]
    BY <1>2 DEF Accept, TypeOK
  <2>4. QED  BY <1>0, <1>1, <2>1, <2>2, <2>3 DEF Follows
<1>3. ASSUME NEW s \in Subs, ApplyStarted(s)
      PROVE  RowsFollowReports'
  <2>1. /\ row'[s].status = "RUNNING" /\ row[s].status \in Active
        /\ row'[s].recorded = row[s].recorded \cup {StartedEvent}
        /\ row'[s].cleanup = row[s].cleanup
        /\ row'[s].released = row[s].released /\ ~row[s].released
    BY <1>3 DEF ApplyStarted, Receivable, Receive, TypeOK, Rows
  <2>2. \A z \in Subs \ {s} : row'[z] = row[z]
    BY <1>3 DEF ApplyStarted, Receive, TypeOK
  <2>3. StartedEvent \notin Results /\ CleanupEvent(TRUE) # StartedEvent
    BY EventsDiffer DEF Results
  <2>4. QED  BY <1>0, <1>1, <2>1, <2>2, <2>3 DEF Follows, Active
<1>4. ASSUME NEW s \in Subs, NEW e \in Results, ApplyResult(s, e)
      PROVE  RowsFollowReports'
  <2>1. /\ row'[s].status = IF e.started = "UNKNOWN" THEN "START_UNKNOWN" ELSE "ENDED"
        /\ row'[s].recorded = row[s].recorded \cup {e}
        /\ row'[s].cleanup = row[s].cleanup
        /\ row'[s].released = row[s].released /\ ~row[s].released
        /\ e \in sent[s]
    BY <1>4 DEF ApplyResult, Receivable, Receive, TypeOK, Rows
  <2>2. \A z \in Subs \ {s} : row'[z] = row[z]
    BY <1>4 DEF ApplyResult, Receive, TypeOK
  <2>3. e # CleanupEvent(TRUE)
    BY EventsDiffer DEF Results
  <2>4. e.started = "UNKNOWN" => e = Forgotten
    <3>1. PICK known \in {"YES", "NO", "UNKNOWN"} : e = ResultEvent(known)
      BY DEF Results
    <3>2. QED  BY <3>1 DEF ResultEvent, Forgotten
  <2>5. sent' = sent
    BY <1>4 DEF ApplyResult, Receive
  <2>6. QED  BY <1>0, <1>1, <2>1, <2>2, <2>3, <2>4, <2>5 DEF Follows
<1>5. ASSUME NEW s \in Subs, NEW done \in BOOLEAN, ApplyCleanup(s, done)
      PROVE  RowsFollowReports'
  <2>1. /\ row'[s].status = row[s].status /\ row'[s].attempt = row[s].attempt
        /\ row'[s].recorded = row[s].recorded \cup {CleanupEvent(done)}
        /\ row'[s].cleanup = IF done THEN "DONE" ELSE "FAILED"
        /\ row'[s].released = row[s].released /\ ~row[s].released
        /\ row[s].cleanup = "DONE" => done
    BY <1>5 DEF ApplyCleanup, Receivable, Receive, TypeOK, Rows
  <2>2. \A z \in Subs \ {s} : row'[z] = row[z]
    BY <1>5 DEF ApplyCleanup, Receive, TypeOK
  <2>3. CleanupEvent(done) \notin Results
    BY EventsDiffer DEF Results
  <2>4. done \/ CleanupEvent(done) # CleanupEvent(TRUE)
    BY DEF CleanupEvent
  <2>5. QED  BY <1>0, <1>1, <2>1, <2>2, <2>3, <2>4 DEF Follows
<1>6. ASSUME NEW s \in Subs, NEW deleted \in BOOLEAN, Close(s, deleted)
      PROVE  RowsFollowReports'
  <2>1. /\ row'[s].status = row[s].status /\ row'[s].attempt = row[s].attempt
        /\ row'[s].recorded = row[s].recorded
        /\ row'[s].cleanup = row[s].cleanup
        /\ row[s].released \/ Resolved(s)
    BY <1>6 DEF Close, TypeOK, Rows
  <2>2. \A z \in Subs \ {s} : row'[z] = row[z]
    BY <1>6 DEF Close, TypeOK
  <2>3. QED  BY <1>0, <1>1, <2>1, <2>2 DEF Follows, Resolved
<1>7. CASE \A z \in Subs : /\ row'[z].status = row[z].status
                            /\ row'[z].attempt = row[z].attempt
                            /\ row'[z].recorded = row[z].recorded
                            /\ row'[z].cleanup = row[z].cleanup
                            /\ row'[z].released = row[z].released
  BY <1>0, <1>7 DEF RowsFollowReports, Follows, Finished, Resolved
<1>8. ASSUME NEW s \in Subs, NEW answered \in BOOLEAN,
             DispatchBegin(s) \/ GrowOld(s) \/ DispatchEnd(s, answered)
      PROVE  RowsFollowReports'
  <2>1. CASE DispatchBegin(s)
    BY <1>7, <2>1 DEF DispatchBegin, TypeOK, Rows
  <2>2. CASE GrowOld(s)
    BY <1>7, <2>2 DEF GrowOld, TypeOK, Rows
  <2>3. CASE DispatchEnd(s, answered)
    BY <1>7, <2>3 DEF DispatchEnd, TypeOK, Rows
  <2>4. QED  BY <1>8, <2>1, <2>2, <2>3
<1>9. CASE row' = row
  BY <1>7, <1>9
<1>10. ASSUME NEW s \in Subs, DispatchCrash(s) \/ Checker(s)
       PROVE  row' = row
  BY <1>10 DEF DispatchCrash, Checker, Arrive, Run, GiveUp, End, Forget, Restore
<1>11. QED
  BY <1>2, <1>3, <1>4, <1>5, <1>6, <1>8, <1>9, <1>10
     DEF Next, Request, MoveMember, Dispatching, Apply, vars

\* A submission that reached the checker never gets into a state where nobody
\* has anything left to do for it and it still holds its lease or its file,
\* unless the checker forgot its job.
THEOREM SubmissionsAreCarriedOn == Spec => []CarriedOn
<1> DEFINE Inv == IInv /\ ReportsComplete /\ RowsFollowReports
<1>1. Init => Inv
  <2>1. Init => ReportsComplete /\ RowsFollowReports
    <3> SUFFICES ASSUME Init PROVE ReportsComplete /\ RowsFollowReports
      OBVIOUS
    <3>1. \A s \in Subs : /\ job[s] = "NONE" /\ row[s].status = "NONE"
                          /\ row[s].recorded = {} /\ ~row[s].released
      BY DEF Init, NoRow
    <3>2. QED  BY <3>1 DEF ReportsComplete, RowsFollowReports
  <2>2. QED  BY <2>1, InitInv
<1>2. Inv /\ [Next]_vars => Inv'
  BY InvStep, ReportsCompleteStep, FollowsStep DEF IInv
<1>3. Inv => CarriedOn
  <2> SUFFICES ASSUME Inv, NEW s \in Subs, job[s] \in {"RAN", "NOT_RUN"},
                      ~Settled(s), Forgotten \notin sent[s]
               PROVE  \/ /\ row[s].status \in Active
                         /\ \E e \in Results : Receivable(s, e) /\ Agrees(s, e)
                      \/ /\ Finished(s) /\ row[s].cleanup # "DONE"
                         /\ \/ CleanupEvent(TRUE) \notin sent[s]
                            \/ Receivable(s, CleanupEvent(TRUE))
                      \/ IF row[s].released THEN row[s].stored ELSE Resolved(s)
    BY DEF CarriedOn, IInv, TypeOK, Jobs
  <2>1. row[s].status \in Active \/ row[s].status = "ENDED"
    <3>1. row[s].status \in Statuses \ {"NONE"}
      BY DEF IInv, TypeOK, Rows, ReportsTrue
    <3>2. row[s].status # "START_UNKNOWN"
      BY DEF RowsFollowReports
    <3>3. QED  BY <3>1, <3>2 DEF Statuses
  <2>2. CASE row[s].status \in Active
    <3>1. ~row[s].released /\ row[s].recorded \cap Results = {}
      BY <2>2 DEF RowsFollowReports, Resolved, Finished, Active
    <3>2. row[s].started => job[s] = "RAN"
      BY DEF IInv, RowsTrue, Began
    <3>3. PICK e \in Results : e \in sent[s] /\ (job[s] = "RAN" => e.started = "YES")
      <4>1. ResultEvent("YES") \in Results /\ ResultEvent("NO") \in Results
        BY DEF Results
      <4>2. ResultEvent("YES").started = "YES"
        BY DEF ResultEvent
      <4>3. QED  BY <4>1, <4>2 DEF ReportsComplete
    <3>4. Receivable(s, e) /\ Agrees(s, e)
      BY <3>1, <3>2, <3>3 DEF Receivable, Agrees
    <3>5. QED  BY <2>2, <3>4
  <2>3. CASE row[s].status = "ENDED" /\ row[s].cleanup # "DONE"
    BY <2>3 DEF RowsFollowReports, Resolved, Receivable, Finished
  <2>4. CASE row[s].status = "ENDED" /\ row[s].cleanup = "DONE"
    <3>1. Resolved(s)
      BY <2>4 DEF IInv, RowsTrue, Resolved
    <3>2. row[s].released => row[s].stored
      BY <2>4 DEF Settled, Finished
    <3>3. QED  BY <3>1, <3>2
  <2>5. QED  BY <2>1, <2>2, <2>3, <2>4
<1>4. QED
  <2> HIDE DEF Inv
  <2>1. QED  BY <1>1, <1>2, <1>3, PTL DEF Spec
=============================================================================
