--------------------------- MODULE InstanceWrites ---------------------------
(***************************************************************************)
(* The instance writes of one user (apps/instances/views.py,               *)
(* write_recovery.py): creations and resets that cross the network to the  *)
(* scheduler, the journal that survives a lost answer or a dead server,    *)
(* and its recovery.                                                       *)
(*                                                                         *)
(* A write takes two transactions under the user's InstanceLock: one       *)
(* commits the journal entry, the other calls the scheduler and commits    *)
(* the result.  Between them, and while an answer is outstanding, anything *)
(* may happen.  Writes are numbered; the instance a write creates has its  *)
(* number.  The user keeps its team, a creation may be for any challenge,  *)
(* and RUNNING stands for every active status.                             *)
(*                                                                         *)
(* The scheduler is external: it runs one instance per user, carries out a *)
(* request once, and may do so long after the caller gave up.              *)
(***************************************************************************)
EXTENDS Naturals

CONSTANTS
  MaxOps,     \* bound: writes of the user
  Tagging,    \* values of SCHEDULER_REQUEST_RECOVERY_ENABLED over time
  None

ASSUME WriteAssumption ==
  /\ MaxOps \in Nat \ {0}
  /\ Tagging \subseteq BOOLEAN /\ Tagging # {}
  /\ None \notin Nat

Ops == 1..MaxOps

\* BLOCKING_STATUSES, and the whole life of a journal entry.
Blocking == {"STARTED", "RECOVERY_PENDING", "REVIEW_REQUIRED"}
Statuses == Blocking \cup {"COMPLETED", "REJECTED", "UNUSED"}

\* InstanceWriteOperation: bound says that remote_instance_id is known.
Entries ==
  [status : Statuses, action : {"CREATE", "RESET"}, source : Ops \cup {None},
   tagged : BOOLEAN, bound : BOOLEAN]

\* A request thread that could not finish still has to say so.
Failures == {"unsent", "refused", "unknown", "unsaved"}

VARIABLES
  journal,     \* InstanceWriteOperation
  thread,      \* the request that performs the write
  recovering,  \* the write recover_write replays under the lock, or None
  replayed,    \* it has sent the reset again
  rows,        \* Instance rows of the backend
  remote,      \* instances of the scheduler
  wire,        \* requests that may still reach the scheduler
  refused,     \* requests the scheduler answered with a 4xx
  overdue,     \* writes older than SCHEDULER_REQUEST_RECOVERY_WAIT_SECONDS
  snapshot,    \* the active instance an unlocked read saw, or None
  banned,      \* Team.is_banned
  forsaken     \* history: writes rejected by a replay that found the team
               \* suspended, or by a request that came after its own recovery

recovery == <<recovering, replayed>>
backend  == <<journal, thread, recovery, rows>>
network  == <<remote, wire, refused>>
others   == <<snapshot, banned, forsaken>>
vars     == <<backend, network, overdue, others>>

RemoteStates == {"NONE", "RUNNING", "STOPPING", "CLEANED"}

TypeOK ==
  /\ journal \in [Ops -> Entries]
  /\ thread \in [Ops -> {"none", "waiting", "calling"} \cup Failures]
  /\ recovering \in Ops \cup {None}
  /\ replayed \in BOOLEAN
  /\ rows \in [Ops -> RemoteStates]
  /\ remote \in [Ops -> RemoteStates]
  /\ wire \subseteq Ops /\ refused \subseteq Ops /\ overdue \subseteq Ops
  /\ snapshot \in Ops \cup {None}
  /\ banned \in BOOLEAN
  /\ forsaken \subseteq Ops

Init ==
  /\ journal = [o \in Ops |-> [status |-> "UNUSED", action |-> "CREATE",
                               source |-> None, tagged |-> FALSE, bound |-> FALSE]]
  /\ thread = [o \in Ops |-> "none"]
  /\ recovering = None /\ replayed = FALSE
  /\ rows = [o \in Ops |-> "NONE"]
  /\ remote = [o \in Ops |-> "NONE"]
  /\ wire = {} /\ refused = {} /\ overdue = {}
  /\ snapshot = None
  /\ banned = FALSE
  /\ forsaken = {}

-----------------------------------------------------------------------------
Used    == {o \in Ops : journal[o].status # "UNUSED"}
Blocked == {o \in Ops : journal[o].status \in Blocking}
Active  == {i \in Ops : remote[i] = "RUNNING"}

\* lock_instance_user would not wait.
LockFree == recovering = None /\ \A o \in Ops : thread[o] # "calling"

\* A reset locks the row of its source until its transaction ends.
RowFree(i) ==
  \A o \in Ops :
    thread[o] = "calling" \/ recovering = o =>
      ~(journal[o].action = "RESET" /\ journal[o].source = i)

\* resume_matching_write: the newest tagged write is this very reset and is
\* answered with its result.
Answered(source) ==
  \E o \in Used :
    /\ journal[o].tagged
    /\ \A p \in Used : journal[p].tagged => p <= o
    /\ journal[o].status = "COMPLETED"
    /\ journal[o].action = "RESET" /\ journal[o].source = source
    /\ rows[o] # "NONE"

SetStatus(o, status) == journal' = [journal EXCEPT ![o].status = status]

-----------------------------------------------------------------------------
(* The request thread *)

\* begin_write, after resume_matching_write and require_no_pending_write.  A
\* confirmed replacement is any instance the client has heard of.  An
\* operator's reset does not look at the ban here.
Begin(o, action, source, tagged) ==
  /\ LockFree
  /\ o \notin Used /\ \A p \in Ops : p < o => p \in Used
  /\ banned => action = "RESET" /\ tagged
  /\ Blocked = {}
  /\ source # None => rows[source] # "NONE"
  /\ action = "RESET" => source # None /\ rows[source] = "RUNNING" /\ ~Answered(source)
  /\ journal' = [journal EXCEPT ![o] =
       [status |-> "STARTED", action |-> action, source |-> source,
        tagged |-> tagged, bound |-> FALSE]]
  /\ thread' = [thread EXCEPT ![o] = "waiting"]
  /\ UNCHANGED <<recovery, rows, network, overdue, others>>

\* The second transaction: the lock, a second look at the ban and at the
\* source, and the call.  The journal entry is not read again.
Call(o) ==
  /\ thread[o] = "waiting" /\ LockFree
  /\ IF banned \/ (journal[o].action = "RESET" /\ rows[journal[o].source] # "RUNNING")
     THEN thread' = [thread EXCEPT ![o] = "unsent"] /\ UNCHANGED network
     ELSE /\ thread' = [thread EXCEPT ![o] = "calling"]
          /\ wire' = wire \cup {o}
          /\ UNCHANGED <<remote, refused>>
  /\ UNCHANGED <<journal, recovery, rows, overdue, others>>

\* The rows a result of write o leaves behind: its instance as `status', and
\* its source on the way out.
Replaced(o, status, retires) ==
  [i \in Ops |->
     IF i = o THEN status
     ELSE IF i = journal[o].source /\ retires THEN "STOPPING" ELSE rows[i]]

\* The answer arrives and is committed: bind_remote_instance,
\* create_instance_from_scheduler, mark_instance_replaced, complete_write.
Save(o) ==
  /\ thread[o] = "calling" /\ o \notin wire /\ remote[o] # "NONE"
  /\ rows' = Replaced(o, "RUNNING", TRUE)
  /\ journal' = [journal EXCEPT ![o].status = "COMPLETED", ![o].bound = TRUE]
  /\ thread' = [thread EXCEPT ![o] = "none"]
  /\ UNCHANGED <<recovery, network, overdue, others>>

\* It fails instead: refused by the scheduler, not heard of in time, or
\* heard of and not saved.  The transaction is rolled back.
Fail(o) ==
  /\ thread[o] = "calling"
  /\ \E failure \in Failures :
       /\ thread' = [thread EXCEPT ![o] = failure]
       /\ \/ failure = "refused" /\ o \notin wire /\ o \in refused
          \/ failure = "unknown"
          \/ failure = "unsaved" /\ o \notin wire /\ remote[o] # "NONE"
  /\ UNCHANGED <<journal, recovery, rows, network, overdue, others>>

\* The server process dies; its transaction is rolled back.
Crash(o) ==
  /\ thread[o] # "none"
  /\ thread' = [thread EXCEPT ![o] = "none"]
  /\ UNCHANGED <<journal, recovery, rows, network, overdue, others>>

\* Mutant: a lost answer counts as a refusal.
FailureRefused(e, failure) ==
  IF failure = "unsaved" \/ (failure = "unknown" /\ e.tagged)
  THEN "RECOVERY_PENDING" ELSE "REJECTED"

\* What record_write_failure writes for a failure of entry e.
FailureStatus(e, failure) ==
  CASE failure = "unsaved" -> "RECOVERY_PENDING"
    [] failure = "unknown" -> IF e.tagged THEN "RECOVERY_PENDING" ELSE "REVIEW_REQUIRED"
    [] OTHER -> "REJECTED"

\* Mutant: a completed entry is written over.
RecordFailureAnyway(o) ==
  /\ thread[o] \in Failures /\ recovering # o
  /\ thread' = [thread EXCEPT ![o] = "none"]
  /\ SetStatus(o, FailureStatus(journal[o], thread[o]))
  /\ UNCHANGED <<recovery, rows, network, overdue, others>>

\* record_write_failure, outside the lock: never over a completed entry, and
\* in vain when the unique constraint on blocking entries is in the way.
RecordFailure(o) ==
  /\ thread[o] \in Failures /\ recovering # o
  /\ thread' = [thread EXCEPT ![o] = "none"]
  /\ LET status == FailureStatus(journal[o], thread[o])
     IN  IF journal[o].status = "COMPLETED" \/ (status \in Blocking /\ Blocked \ {o} # {})
         THEN UNCHANGED journal
         ELSE journal' = [journal EXCEPT ![o].status = status,
                                         ![o].bound = @ \/ thread[o] = "unsaved"]
  /\ forsaken' = IF thread[o] = "unsent" /\ (o \in wire \/ remote[o] = "RUNNING")
                 THEN forsaken \cup {o} ELSE forsaken
  /\ UNCHANGED <<recovery, rows, network, overdue, snapshot, banned>>

-----------------------------------------------------------------------------
(* recover_write: retries, GET /me, the periodic job and the operator *)

\* A pending write, one that was started long enough ago, and on review one
\* that needs it.  "Long enough" is a timeout and five seconds; how long is left
\* open, since a request that waits for the lock may be alive after that.
MayRecover(o) ==
  /\ LockFree
  /\ \/ journal[o].status = "RECOVERY_PENDING"
     \/ journal[o].status = "STARTED" /\ journal[o].tagged
     \/ journal[o].status = "REVIEW_REQUIRED" /\ (journal[o].tagged \/ journal[o].bound)

\* Mutants: the missing row is not made; the source is not retired.
AdoptOnly(o) ==
  /\ journal' = [journal EXCEPT ![o].status = "COMPLETED", ![o].bound = TRUE]
  /\ UNCHANGED rows

AdoptBeside(o) ==
  /\ rows' = Replaced(o, IF rows[o] = "NONE" THEN remote[o] ELSE rows[o], FALSE)
  /\ journal' = [journal EXCEPT ![o].status = "COMPLETED", ![o].bound = TRUE]

\* The result is known: an existing row is kept as it is, a missing one is
\* made from the scheduler's data, and an active source is retired.
Adopt(o) ==
  /\ rows' = Replaced(o, IF rows[o] = "NONE" THEN remote[o] ELSE rows[o],
                      journal[o].source # None /\ rows[journal[o].source] = "RUNNING")
  /\ journal' = [journal EXCEPT ![o].status = "COMPLETED", ![o].bound = TRUE]

RecoverFound(o) ==
  /\ MayRecover(o)
  /\ remote[o] # "NONE"
  /\ journal[o].bound \/ journal[o].tagged
  /\ Adopt(o)
  /\ UNCHANGED <<thread, recovery, network, overdue, others>>

\* The scheduler does not answer: 5xx.
RecoverUnreachable(o) ==
  /\ MayRecover(o)
  /\ ~(journal[o].bound /\ rows[o] # "NONE")
  /\ SetStatus(o, "RECOVERY_PENDING")
  /\ UNCHANGED <<thread, recovery, rows, network, overdue, others>>

\* Mutant: the wait has no end.
NotFoundWaits(o) == SetStatus(o, "RECOVERY_PENDING")

\* Not found: wait for it, for a while.
NotYetFound(o) == SetStatus(o, IF o \in overdue THEN "REVIEW_REQUIRED" ELSE "RECOVERY_PENDING")

\* The scheduler knows nothing of the request.  A reset may be replayed.
RecoverMissing(o) ==
  /\ MayRecover(o)
  /\ journal[o].tagged /\ ~journal[o].bound
  /\ remote[o] = "NONE"
  /\ IF journal[o].action = "CREATE"
     THEN NotYetFound(o) /\ UNCHANGED recovery
     ELSE recovering' = o /\ UNCHANGED <<replayed, journal>>
  /\ UNCHANGED <<thread, rows, network, overdue, others>>

\* replay_unaccepted_reset, by what the scheduler now says of the source: it
\* cannot be reset any more, or is ending, or is sent the reset again.
ReplayRefused(o) ==
  /\ recovering = o /\ ~replayed
  /\ recovering' = None
  /\ LET source == journal[o].source
     IN  \/ banned /\ SetStatus(o, "REJECTED") /\ UNCHANGED rows
         \/ /\ ~banned /\ remote[source] = "CLEANED" /\ Active = {}
            /\ SetStatus(o, "REJECTED")
            /\ rows' = [rows EXCEPT ![source] = "CLEANED"]
         \/ /\ ~banned /\ remote[source] = "CLEANED" /\ Active # {}
            /\ SetStatus(o, "REVIEW_REQUIRED") /\ UNCHANGED rows
         \/ /\ ~banned /\ remote[source] = "STOPPING"
            /\ NotYetFound(o) /\ UNCHANGED rows
  /\ forsaken' = IF banned THEN forsaken \cup {o} ELSE forsaken
  /\ UNCHANGED <<replayed, thread, network, overdue, snapshot, banned>>

Replay(o) ==
  /\ recovering = o /\ ~replayed
  /\ ~banned
  /\ remote[journal[o].source] = "RUNNING"
  /\ wire' = wire \cup {o}
  /\ refused' = refused \ {o}
  /\ replayed' = TRUE
  /\ UNCHANGED <<journal, thread, recovering, rows, remote, overdue, others>>

\* The replayed reset is answered, refused, or not heard of.
ReplayAnswered(o) ==
  /\ recovering = o /\ replayed
  /\ recovering' = None /\ replayed' = FALSE
  /\ \/ o \notin wire /\ remote[o] # "NONE" /\ Adopt(o)
     \/ o \notin wire /\ o \in refused /\ SetStatus(o, "REVIEW_REQUIRED") /\ UNCHANGED rows
     \/ SetStatus(o, "RECOVERY_PENDING") /\ UNCHANGED rows
  /\ UNCHANGED <<thread, network, overdue, others>>

\* The server dies while it recovers.
RecoveryCrash ==
  /\ recovering # None
  /\ recovering' = None /\ replayed' = FALSE
  /\ UNCHANGED <<journal, thread, rows, network, overdue, others>>

-----------------------------------------------------------------------------
(* The other writers of instance rows *)

\* DELETE by the user, by an operator or with a ban.
Delete(i) ==
  /\ LockFree
  /\ rows[i] = "RUNNING" /\ remote[i] = "RUNNING"
  /\ remote' = [remote EXCEPT ![i] = "STOPPING"]
  /\ rows' \in {rows, [rows EXCEPT ![i] = "STOPPING"]}
  /\ UNCHANGED <<journal, thread, recovery, wire, refused, overdue, others>>

\* GET /me and a team mate's GET ask for the active instance ...
ReadActive ==
  /\ snapshot = None
  /\ snapshot' \in Active
  /\ UNCHANGED <<backend, network, overdue, banned, forsaken>>

\* ... and write what they read, without the user's lock.
ApplyActive ==
  /\ snapshot # None /\ RowFree(snapshot)
  /\ rows' = [rows EXCEPT ![snapshot] = "RUNNING"]
  /\ snapshot' = None
  /\ UNCHANGED <<journal, thread, recovery, network, overdue, banned, forsaken>>

\* Mutant: only the first ending of a row is copied.
ReconcileActive(i) ==
  /\ rows[i] = "RUNNING" /\ RowFree(i)
  /\ remote[i] \in {"STOPPING", "CLEANED"}
  /\ rows' = [rows EXCEPT ![i] = remote[i]]
  /\ UNCHANGED <<journal, thread, recovery, network, overdue, others>>

\* reconcile_instances_once: an ending is copied, if the row did not change
\* since it was read (so that reading and writing are one step).
Reconcile(i) ==
  /\ rows[i] \notin {"NONE", "CLEANED"} /\ RowFree(i)
  /\ remote[i] \in {"STOPPING", "CLEANED"}
  /\ rows' = [rows EXCEPT ![i] = remote[i]]
  /\ UNCHANGED <<journal, thread, recovery, network, overdue, others>>

\* A suspension and its end, which wait for a replay to let go of the team;
\* the instances a suspension stops are Delete's.
Ban ==
  /\ ~replayed
  /\ banned' = ~banned
  /\ UNCHANGED <<backend, network, overdue, snapshot, forsaken>>

-----------------------------------------------------------------------------
(* The scheduler and time *)

\* A creation needs exactly the active instance it replaces, a reset a
\* running source.
Acceptable(o) ==
  IF journal[o].action = "RESET"
  THEN remote[journal[o].source] = "RUNNING"
  ELSE Active = (IF journal[o].source = None THEN {} ELSE {journal[o].source})

Arrive(o) ==
  /\ o \in wire
  /\ wire' = wire \ {o}
  /\ IF remote[o] = "NONE" /\ Acceptable(o)
     THEN /\ remote' = [i \in Ops |-> IF i = o THEN "RUNNING"
                                      ELSE IF i \in Active THEN "STOPPING" ELSE remote[i]]
          /\ UNCHANGED refused
     ELSE /\ refused' = IF remote[o] = "NONE" THEN refused \cup {o} ELSE refused
          /\ UNCHANGED remote
  /\ UNCHANGED <<backend, overdue, others>>

\* An instance expires, and is cleaned up.
Wear(i) ==
  /\ remote[i] \in {"RUNNING", "STOPPING"}
  /\ remote' = [remote EXCEPT ![i] = IF @ = "RUNNING" THEN "STOPPING" ELSE "CLEANED"]
  /\ UNCHANGED <<backend, wire, refused, overdue, others>>

GrowOld(o) ==
  /\ o \in Blocked \ overdue
  /\ overdue' = overdue \cup {o}
  /\ UNCHANGED <<backend, network, others>>

-----------------------------------------------------------------------------
Recover(o) ==
  \/ RecoverFound(o) \/ RecoverUnreachable(o) \/ RecoverMissing(o)
  \/ ReplayRefused(o) \/ Replay(o) \/ ReplayAnswered(o)

Next ==
  \/ \E o \in Ops, action \in {"CREATE", "RESET"}, source \in Ops \cup {None}, tagged \in Tagging :
       Begin(o, action, source, tagged)
  \/ \E o \in Ops :
       \/ Call(o) \/ Save(o) \/ Fail(o) \/ Crash(o) \/ RecordFailure(o)
       \/ Recover(o)
       \/ Delete(o) \/ Reconcile(o)
       \/ Arrive(o) \/ Wear(o) \/ GrowOld(o)
  \/ RecoveryCrash \/ ReadActive \/ ApplyActive \/ Ban

Spec == Init /\ [][Next]_vars

\* A request thread goes on or dies; the periodic job comes back to every
\* pending write, finds the scheduler answering and does not die every time
\* it replays; a request on the wire arrives; the reconciliation waits its
\* turn for the row.
Fairness ==
  /\ \A o \in Ops :
       /\ WF_vars(Call(o) \/ Save(o) \/ Fail(o) \/ RecordFailure(o))
       /\ WF_vars(RecoverFound(o) \/ RecoverMissing(o))
       /\ SF_vars(ReplayRefused(o) \/ Replay(o))
       /\ WF_vars(ReplayAnswered(o))
       /\ WF_vars(Arrive(o))
       /\ SF_vars(Reconcile(o))
  /\ WF_vars(\E o \in Ops : GrowOld(o))

FairSpec == Spec /\ Fairness

-----------------------------------------------------------------------------
(* Properties *)

\* No instance runs at the scheduler that the backend could forget: its row
\* exists, or its write blocks the user until it is resolved, even while
\* somebody works on it.  Two exceptions: a reset that was still on the wire when
\* its recovery gave it up because the team had been suspended, and one that
\* was replayed while its own request waited, only to find it need not be sent.
NoLiveOrphan ==
  \A o \in Ops :
    remote[o] = "RUNNING" =>
      rows[o] # "NONE" \/ journal[o].status \in Blocking \/ o \in forsaken

\* A completed write has its row and knows its instance.
CompletedHasRow ==
  \A o \in Ops :
    journal[o].status = "COMPLETED" => rows[o] # "NONE" /\ journal[o].bound

\* The source of a write no longer counts as running once the write is
\* completed, unless an unlocked read writes an older answer over it, or the
\* request that made the source, and was recovered while it waited for the
\* lock, saves its own answer after all.
SourceIsRetired ==
  [][\A o \in Ops :
       LET source == journal'[o].source
       IN  journal'[o].status = "COMPLETED" /\ source # None /\ rows'[source] = "RUNNING" =>
             /\ journal[o].status = "COMPLETED"
             /\ rows[source] = "RUNNING" \/ snapshot = source \/ thread[source] = "calling"]_vars

\* A completed write stays so: a late failure handler or a second recovery
\* changes nothing.
CompletedIsFinal ==
  [][\A o \in Ops : journal[o].status = "COMPLETED" => journal'[o] = journal[o]]_vars

\* No write with a request id stays open for ever, and so blocks its user: it is
\* completed, rejected or put on review, again and again if operators try it
\* again.
TaggedSettles ==
  []<>(\A o \in Ops : journal[o].tagged => journal[o].status \notin {"STARTED", "RECOVERY_PENDING"})

\* The row of an instance that is gone ends up saying so, for good, whatever
\* unlocked reads and late results write in between.
RowsFollow ==
  <>[](\A i \in Ops : remote[i] = "CLEANED" => rows[i] \in {"NONE", "CLEANED"})

\* "It never POSTs create/reset": what docs/instance-write-recovery.md says of
\* recovery.
RecoveryOnlyReads ==
  [][recovering # None => wire' \subseteq wire]_vars
=============================================================================
