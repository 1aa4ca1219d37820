------------------------- MODULE InstanceWritesProofs -------------------------
(***************************************************************************)
(* Proofs about InstanceWrites for any number of writes of a user: what    *)
(* runs at the scheduler is known to the backend or blocks the user, and a *)
(* completed write is final.                                               *)
(***************************************************************************)
EXTENDS InstanceWrites, TLAPS

-----------------------------------------------------------------------------
(***************************************************************************)
(* A write that is rejected must not run later.  Either it was never sent, *)
(* or the scheduler refused it, or what it asks for has become impossible. *)
(* The invariant says so for the whole time between the rejection and the  *)
(* arrival of whatever is still on the wire.                               *)
(***************************************************************************)

\* Recovery and the request threads exclude each other by the user's lock, and
\* only a reset that blocks the user is replayed.
Lock ==
  recovering # None =>
    /\ \A o \in Ops : thread[o] # "calling"
    /\ journal[recovering].status \in Blocking /\ journal[recovering].action = "RESET"

\* Nothing is known anywhere of a write that was not begun.
Unbegun ==
  \A o \in Ops \ Used :
    /\ thread[o] = "none" /\ o \notin wire /\ o \notin refused
    /\ remote[o] = "NONE" /\ rows[o] = "NONE" /\ journal[o].source = None

\* The source of a write is another instance that has a row.
Sources ==
  \A o \in Ops :
    /\ journal[o].source # None => journal[o].source # o /\ rows[journal[o].source] # "NONE"
    /\ journal[o].action = "RESET" => journal[o].source # None

\* What the backend has heard of exists at the scheduler, or did.
Known ==
  /\ \A i \in Ops : rows[i] # "NONE" => remote[i] # "NONE"
  /\ snapshot # None => remote[snapshot] # "NONE"

\* A refused creation is not sent again; a refused reset may be, in vain: its
\* source has ended.  Who was told of the refusal has nothing on the wire.
Refusals ==
  \A o \in Ops :
    /\ o \in refused => /\ remote[o] = "NONE"
                        /\ journal[o].action = "CREATE" => o \notin wire
                        /\ journal[o].action = "RESET" => remote[journal[o].source] # "RUNNING"
    /\ thread[o] = "refused" => o \in refused /\ o \notin wire
    /\ thread[o] = "waiting" /\ journal[o].action = "CREATE" => o \notin refused /\ o \notin wire

\* Why a rejected write is not running, and never will be.
Ending(i) == remote[i] \in {"STOPPING", "CLEANED"}
Doomed(o) == journal[o].action = "RESET" /\ Ending(journal[o].source) /\ remote[o] = "NONE"
Unsent(o) == remote[o] = "NONE" /\ o \notin wire /\ thread[o] = "none"
Settled(o) == o \in forsaken \/ Ending(o) \/ Doomed(o) \/ Unsent(o)

Rejections == \A o \in Ops : journal[o].status = "REJECTED" => Settled(o)

IInv == /\ TypeOK /\ Lock /\ Unbegun /\ Sources /\ Known /\ Refusals /\ Rejections
        /\ CompletedHasRow

-----------------------------------------------------------------------------
(* How a step may change each part of the state *)

\* The entry of o is given a status; what the write is stays.
Writes(o, status) ==
  /\ journal' \in [Ops -> Entries]
  /\ \A p \in Ops : p # o => journal'[p] = journal[p]
  /\ journal'[o].status = status
  /\ /\ journal'[o].action = journal[o].action
     /\ journal'[o].source = journal[o].source
     /\ journal'[o].tagged = journal[o].tagged

LEMMA StatusWritten ==
  ASSUME TypeOK, NEW o \in Ops, NEW status \in Statuses, SetStatus(o, status)
  PROVE  Writes(o, status) /\ journal'[o].bound = journal[o].bound
<1>1. journal[o] \in Entries /\ journal' = [journal EXCEPT ![o].status = status]
  BY DEF TypeOK, SetStatus
<1>2. journal' \in [Ops -> Entries] /\ \A p \in Ops : p # o => journal'[p] = journal[p]
  BY <1>1 DEF TypeOK, Entries
<1>3. /\ journal'[o].status = status /\ journal'[o].action = journal[o].action
      /\ journal'[o].source = journal[o].source /\ journal'[o].tagged = journal[o].tagged
      /\ journal'[o].bound = journal[o].bound
  BY <1>1 DEF TypeOK, Entries
<1>4. QED  BY <1>2, <1>3 DEF Writes

LEMMA BothWritten ==
  ASSUME TypeOK, NEW o \in Ops, NEW status \in Statuses, NEW b \in BOOLEAN,
         journal' = [journal EXCEPT ![o].status = status, ![o].bound = b]
  PROVE  Writes(o, status) /\ journal'[o].bound = b
<1>1. journal[o] \in Entries /\ journal' = [journal EXCEPT ![o] = [@ EXCEPT !.status = status, !.bound = b]]
  BY DEF TypeOK
<1>2. journal' \in [Ops -> Entries] /\ \A p \in Ops : p # o => journal'[p] = journal[p]
  BY <1>1 DEF TypeOK, Entries
<1>3. /\ journal'[o].status = status /\ journal'[o].action = journal[o].action
      /\ journal'[o].source = journal[o].source /\ journal'[o].tagged = journal[o].tagged
      /\ journal'[o].bound = b
  BY <1>1 DEF TypeOK, Entries
<1>4. QED  BY <1>2, <1>3 DEF Writes

\* Rows are made for what the scheduler runs, and stay.  Only a late answer, or
\* an unlocked read, makes one active again.
Revived(i) == rows[i] \in {"STOPPING", "CLEANED"} /\ rows'[i] = "RUNNING"

RowsGrow ==
  /\ rows' \in [Ops -> RemoteStates]
  /\ \A i \in Ops : /\ rows[i] # "NONE" => rows'[i] # "NONE"
                    /\ rows'[i] # "NONE" => rows[i] # "NONE" \/ remote[i] # "NONE"
                    /\ Revived(i) => snapshot = i \/ thread[i] = "calling"

LEMMA ReplacedFacts ==
  ASSUME TypeOK, Sources, NEW o \in Ops, NEW status \in RemoteStates \ {"NONE"}, NEW retires,
         remote[o] # "NONE", rows' = Replaced(o, status, retires),
         rows[o] \in {"NONE", status} \/ thread[o] = "calling",
         retires \/ (journal[o].source # None => rows[journal[o].source] # "RUNNING")
  PROVE  /\ RowsGrow /\ rows'[o] = status
         /\ journal[o].source # None => rows'[journal[o].source] # "RUNNING"
<1>1. ASSUME NEW i \in Ops
      PROVE  /\ i = o => rows'[i] = status
             /\ i # o => rows'[i] \in {rows[i], "STOPPING"}
             /\ i # o /\ rows'[i] # rows[i] => i = journal[o].source
  BY DEF Replaced
<1>2. rows' \in [Ops -> RemoteStates]
  <2>1. rows' = [i \in Ops |-> rows'[i]]
    BY DEF Replaced
  <2>2. ASSUME NEW i \in Ops
        PROVE  rows'[i] \in RemoteStates
    BY <1>1, <2>2 DEF TypeOK, RemoteStates
  <2>3. QED  BY <2>1, <2>2
<1>3. ASSUME NEW i \in Ops, i = journal[o].source
      PROVE  rows[i] # "NONE"
  BY <1>3, WriteAssumption DEF Sources, Ops
<1>4. journal[o].source # None => rows'[journal[o].source] # "RUNNING"
  BY DEF Replaced, Sources, TypeOK, Entries
<1>5. QED  BY <1>1, <1>2, <1>3, <1>4 DEF RowsGrow, Revived

\* The commit of a result: the write is completed and has its row.
Completes(o) ==
  /\ Writes(o, "COMPLETED") /\ journal'[o].bound
  /\ RowsGrow /\ rows'[o] # "NONE"
  /\ journal[o].source # None => rows'[journal[o].source] # "RUNNING"

LEMMA SaveCompletes ==
  ASSUME TypeOK, Sources, NEW o \in Ops, Save(o)
  PROVE  Completes(o)
<1>1. Writes(o, "COMPLETED") /\ journal'[o].bound
  BY BothWritten DEF Save, Statuses
<1>2. /\ RowsGrow /\ rows'[o] = "RUNNING"
      /\ journal[o].source # None => rows'[journal[o].source] # "RUNNING"
  <2>1. rows' = Replaced(o, "RUNNING", TRUE) /\ thread[o] = "calling" /\ remote[o] # "NONE"
    BY DEF Save
  <2>2. PICK status \in RemoteStates \ {"NONE"}, retires \in BOOLEAN : status = "RUNNING" /\ retires
    BY DEF RemoteStates
  <2>3. rows' = Replaced(o, status, retires)
    BY <2>1, <2>2, SMTT(30)
  <2>4. QED  BY <2>1, <2>2, <2>3, ReplacedFacts
<1>3. QED  BY <1>1, <1>2 DEF Completes

LEMMA AdoptCompletes ==
  ASSUME TypeOK, Sources, NEW o \in Ops, Adopt(o), remote[o] # "NONE"
  PROVE  Completes(o)
<1>1. Writes(o, "COMPLETED") /\ journal'[o].bound
  BY BothWritten DEF Adopt, Statuses
<1> DEFINE status == IF rows[o] = "NONE" THEN remote[o] ELSE rows[o]
           retires == journal[o].source # None /\ rows[journal[o].source] = "RUNNING"
<1>2. /\ status \in RemoteStates \ {"NONE"} /\ rows' = Replaced(o, status, retires)
      /\ rows[o] \in {"NONE", status}
      /\ retires \/ (journal[o].source # None => rows[journal[o].source] # "RUNNING")
  BY DEF Adopt, TypeOK
<1> HIDE DEF status, retires
<1>3. /\ RowsGrow /\ rows'[o] = status
      /\ journal[o].source # None => rows'[journal[o].source] # "RUNNING"
  BY <1>2, ReplacedFacts
<1>4. QED  BY <1>1, <1>2, <1>3 DEF Completes

\* What the actions of recovery do to the entry they are about.
LEMMA NotYetFoundBlocks ==
  ASSUME TypeOK, NEW o \in Ops, NotYetFound(o)
  PROVE  \E s \in Blocking : Writes(o, s) /\ journal'[o].bound = journal[o].bound
<1>1. CASE o \in overdue
  <2>1. SetStatus(o, "REVIEW_REQUIRED")
    BY <1>1 DEF NotYetFound
  <2>2. QED  BY <2>1, StatusWritten DEF Blocking, Statuses
<1>2. CASE o \notin overdue
  <2>1. SetStatus(o, "RECOVERY_PENDING")
    BY <1>2 DEF NotYetFound
  <2>2. QED  BY <2>1, StatusWritten DEF Blocking, Statuses
<1>3. QED  BY <1>1, <1>2

LEMMA ReplayRefusedWrites ==
  ASSUME TypeOK, NEW o \in Ops, ReplayRefused(o)
  PROVE  /\ \E s \in Blocking \cup {"REJECTED"} : Writes(o, s) /\ journal'[o].bound = journal[o].bound
         /\ journal'[o].status = "REJECTED" =>
              banned \/ (remote[journal[o].source] = "CLEANED" /\ Active = {})
<1>1. CASE /\ SetStatus(o, "REJECTED")
           /\ banned \/ (remote[journal[o].source] = "CLEANED" /\ Active = {})
  BY <1>1, StatusWritten DEF Statuses
<1>2. CASE SetStatus(o, "REVIEW_REQUIRED")
  BY <1>2, StatusWritten DEF Statuses, Blocking, Writes
<1>3. CASE NotYetFound(o)
  <2>1. PICK s \in Blocking : Writes(o, s) /\ journal'[o].bound = journal[o].bound
    BY <1>3, NotYetFoundBlocks
  <2>2. journal'[o].status # "REJECTED"
    BY <2>1 DEF Writes, Blocking
  <2>3. QED  BY <2>1, <2>2
<1>4. QED  BY <1>1, <1>2, <1>3 DEF ReplayRefused

LEMMA ReplayAnsweredWrites ==
  ASSUME TypeOK, Sources, NEW o \in Ops, ReplayAnswered(o)
  PROVE  \/ Completes(o)
         \/ /\ UNCHANGED rows
            /\ \E s \in Blocking : Writes(o, s) /\ journal'[o].bound = journal[o].bound
<1>1. CASE remote[o] # "NONE" /\ Adopt(o)
  BY <1>1, AdoptCompletes
<1>2. CASE SetStatus(o, "REVIEW_REQUIRED")  /\ UNCHANGED rows
  BY <1>2, StatusWritten DEF Statuses, Blocking
<1>3. CASE SetStatus(o, "RECOVERY_PENDING") /\ UNCHANGED rows
  BY <1>3, StatusWritten DEF Statuses, Blocking
<1>4. QED  BY <1>1, <1>2, <1>3 DEF ReplayAnswered

LEMMA FailureWrites ==
  ASSUME TypeOK, NEW o \in Ops, RecordFailure(o)
  PROVE  \/ UNCHANGED journal
         \/ /\ journal[o].status # "COMPLETED"
            /\ \E s \in Blocking \cup {"REJECTED"} : Writes(o, s)
            /\ journal'[o].status = "REJECTED" => thread[o] \in {"unsent", "refused"}
<1> DEFINE s == FailureStatus(journal[o], thread[o])
           b == journal[o].bound \/ thread[o] = "unsaved"
<1>1. thread[o] \in Failures
  BY DEF RecordFailure
<1>2. s \in Blocking \cup {"REJECTED"} /\ (s = "REJECTED" => thread[o] \in {"unsent", "refused"})
  BY <1>1 DEF FailureStatus, Failures, Blocking
<1>3. b \in BOOLEAN
  BY DEF TypeOK, Entries
<1>4. \/ UNCHANGED journal
      \/ /\ journal[o].status # "COMPLETED"
         /\ journal' = [journal EXCEPT ![o].status = s, ![o].bound = b]
  BY DEF RecordFailure, TypeOK
<1> HIDE DEF s, b
<1>5. ASSUME journal' = [journal EXCEPT ![o].status = s, ![o].bound = b]
      PROVE  Writes(o, s)
  BY <1>2, <1>3, <1>5, BothWritten DEF Statuses, Blocking
<1>6. QED  BY <1>2, <1>4, <1>5 DEF Writes

-----------------------------------------------------------------------------
(* Every step, seen by one variable *)

BeginStep ==
  \E o \in Ops \ Used, action \in {"CREATE", "RESET"}, source \in Ops \cup {None}, tagged \in Tagging :
    Begin(o, action, source, tagged)

\* The entry of a write that was begun is completed, put off or rejected.
Rejects(o) ==
  /\ Writes(o, "REJECTED")
  /\ \/ RecordFailure(o) /\ thread[o] \in {"unsent", "refused"}
     \/ ReplayRefused(o) /\ (banned \/ (remote[journal[o].source] = "CLEANED" /\ Active = {}))

Resolves(o) ==
  \/ Completes(o) /\ recovering' # o
  \/ \E s \in Blocking : Writes(o, s)
  \/ Rejects(o)

\* What no step but Begin does not do to the journal; a completed entry is
\* written only by the answer that its own request waited for.
LEMMA JournalSteps ==
  ASSUME IInv, [Next]_vars
  PROVE  \/ UNCHANGED journal
         \/ BeginStep
         \/ \E o \in Ops : journal[o].status = "COMPLETED" /\ Save(o) /\ Completes(o)
         \/ \E o \in Used : journal[o].status # "COMPLETED" /\ Resolves(o)
<1>1. TypeOK /\ Lock /\ Unbegun /\ Sources
  BY DEF IInv
<1>2. ASSUME NEW o \in Ops, NEW action \in {"CREATE", "RESET"}, NEW source \in Ops \cup {None},
             NEW tagged \in Tagging, Begin(o, action, source, tagged)
      PROVE  BeginStep
  BY <1>2 DEF BeginStep, Begin
<1>3. ASSUME NEW o \in Ops, Save(o)
      PROVE  o \in Used /\ Completes(o) /\ recovering' # o
  <2>1. o \in Used
    BY <1>1, <1>3 DEF Unbegun, Save
  <2>2. recovering' # o
    BY <1>1, <1>3, WriteAssumption DEF Save, Lock, Ops, recovery
  <2>3. QED  BY <1>1, <1>3, <2>1, <2>2, SaveCompletes
<1>4. ASSUME NEW o \in Ops, RecordFailure(o)
      PROVE  UNCHANGED journal \/ (o \in Used /\ journal[o].status # "COMPLETED" /\ Resolves(o))
  <2>1. o \in Used
    BY <1>1, <1>4 DEF Unbegun, RecordFailure, Failures
  <2>2. ASSUME NEW s \in Blocking \cup {"REJECTED"}, Writes(o, s),
               journal'[o].status = "REJECTED" => thread[o] \in {"unsent", "refused"}
        PROVE  Resolves(o)
    BY <1>4, <2>2 DEF Resolves, Rejects, Writes
  <2>3. QED  BY <1>1, <1>4, <2>1, <2>2, FailureWrites
<1>5. ASSUME NEW o \in Ops, RecoverFound(o) \/ RecoverUnreachable(o) \/ RecoverMissing(o)
      PROVE  UNCHANGED journal \/ (o \in Used /\ journal[o].status # "COMPLETED" /\ Resolves(o))
  <2>1. o \in Used /\ journal[o].status # "COMPLETED"
    BY <1>5 DEF RecoverFound, RecoverUnreachable, RecoverMissing, MayRecover, Used
  <2>2. CASE RecoverFound(o)
    <3>1. recovering' # o
      BY <2>2, WriteAssumption DEF RecoverFound, MayRecover, LockFree, recovery, Ops
    <3>2. QED  BY <1>1, <2>1, <2>2, <3>1, AdoptCompletes DEF RecoverFound, Resolves
  <2>3. CASE RecoverUnreachable(o)
    BY <1>1, <2>1, <2>3, StatusWritten DEF RecoverUnreachable, Resolves, Blocking, Statuses
  <2>4. CASE RecoverMissing(o)
    BY <1>1, <2>1, <2>4, NotYetFoundBlocks DEF RecoverMissing, Resolves
  <2>5. QED  BY <1>5, <2>1, <2>2, <2>3, <2>4
<1>6. ASSUME NEW o \in Ops, ReplayRefused(o) \/ ReplayAnswered(o)
      PROVE  o \in Used /\ journal[o].status # "COMPLETED" /\ Resolves(o)
  <2>1. recovering = o
    BY <1>6 DEF ReplayRefused, ReplayAnswered
  <2>2. o \in Used /\ journal[o].status # "COMPLETED"
    BY <1>1, <2>1, WriteAssumption DEF Lock, Blocking, Used, Ops
  <2>3. CASE ReplayRefused(o)
    <3>1. PICK s \in Blocking \cup {"REJECTED"} : Writes(o, s)
      BY <1>1, <2>3, ReplayRefusedWrites
    <3>2. CASE s \in Blocking
      BY <2>2, <3>1, <3>2 DEF Resolves
    <3>3. CASE s = "REJECTED"
      BY <1>1, <2>2, <2>3, <3>1, <3>3, ReplayRefusedWrites DEF Resolves, Rejects, Writes
    <3>4. QED  BY <3>2, <3>3
  <2>4. CASE ReplayAnswered(o)
    <3>1. recovering' # o
      BY <2>4, WriteAssumption DEF ReplayAnswered, Ops
    <3>2. QED  BY <1>1, <2>2, <2>4, <3>1, ReplayAnsweredWrites DEF Resolves
  <2>5. QED  BY <1>6, <2>2, <2>3, <2>4
<1>7. ASSUME NEW o \in Ops,
             \/ Call(o) \/ Fail(o) \/ Crash(o) \/ Replay(o) \/ Delete(o) \/ Reconcile(o)
             \/ Arrive(o) \/ Wear(o) \/ GrowOld(o)
      PROVE  UNCHANGED journal
  BY <1>7 DEF Call, Fail, Crash, Replay, Delete, Reconcile, Arrive, Wear, GrowOld, backend
<1>8. RecoveryCrash \/ ReadActive \/ ApplyActive \/ Ban \/ UNCHANGED vars => UNCHANGED journal
  BY DEF RecoveryCrash, ReadActive, ApplyActive, Ban, vars, backend
<1>9. QED
  BY <1>2, <1>3, <1>4, <1>5, <1>6, <1>7, <1>8 DEF Next, Recover, Resolves

\* Rows grow whatever happens.
LEMMA RowsSteps ==
  ASSUME IInv, [Next]_vars
  PROVE  RowsGrow
<1>1. TypeOK /\ Lock /\ Sources /\ Known
  BY DEF IInv
<1>2. ASSUME UNCHANGED rows
      PROVE  RowsGrow
  BY <1>1, <1>2 DEF RowsGrow, TypeOK, Revived
<1>3. ASSUME NEW i \in Ops, NEW s \in RemoteStates \ {"NONE"}, rows' = [rows EXCEPT ![i] = s],
             remote[i] # "NONE", s # "RUNNING" \/ snapshot = i
      PROVE  RowsGrow
  BY <1>1, <1>3 DEF RowsGrow, TypeOK, Revived
<1>4. ASSUME NEW o \in Ops, Save(o) \/ RecoverFound(o)
      PROVE  RowsGrow
  BY <1>1, <1>4, SaveCompletes, AdoptCompletes DEF RecoverFound, Completes
<1>5. ASSUME NEW o \in Ops, ReplayAnswered(o)
      PROVE  RowsGrow
  BY <1>1, <1>2, <1>5, ReplayAnsweredWrites DEF Completes
<1>6. ASSUME NEW o \in Ops, ReplayRefused(o)
      PROVE  RowsGrow
  <2>1. recovering = o /\ o # None
    BY <1>6, WriteAssumption DEF ReplayRefused, Ops
  <2>2. journal[o].source \in Ops
    BY <1>1, <2>1 DEF Lock, Sources, TypeOK, Entries
  <2>3. UNCHANGED rows \/ (rows' = [rows EXCEPT ![journal[o].source] = "CLEANED"]
                            /\ remote[journal[o].source] = "CLEANED")
    BY <1>6 DEF ReplayRefused
  <2>4. QED  BY <1>2, <1>3, <2>2, <2>3 DEF RemoteStates
<1>7. ASSUME NEW i \in Ops, Delete(i) \/ Reconcile(i)
      PROVE  RowsGrow
  <2>1. remote[i] # "NONE" /\ \/ UNCHANGED rows
                              \/ \E s \in {"STOPPING", "CLEANED"} : rows' = [rows EXCEPT ![i] = s]
    BY <1>7 DEF Delete, Reconcile
  <2>2. QED  BY <1>2, <1>3, <2>1 DEF RemoteStates
<1>8. ASSUME ApplyActive
      PROVE  RowsGrow
  <2>1. snapshot \in Ops /\ remote[snapshot] # "NONE" /\ rows' = [rows EXCEPT ![snapshot] = "RUNNING"]
    BY <1>1, <1>8 DEF ApplyActive, Known, TypeOK
  <2>2. QED  BY <1>3, <2>1 DEF RemoteStates
<1>9. ASSUME NEW o \in Ops,
             \/ Call(o) \/ Fail(o) \/ Crash(o) \/ RecordFailure(o) \/ RecoverUnreachable(o)
             \/ RecoverMissing(o) \/ Replay(o) \/ Arrive(o) \/ Wear(o) \/ GrowOld(o)
      PROVE  UNCHANGED rows
  BY <1>9 DEF Call, Fail, Crash, RecordFailure, RecoverUnreachable, RecoverMissing, Replay,
              Arrive, Wear, GrowOld, backend
<1>10. ASSUME NEW o, NEW action, NEW source, NEW tagged, Begin(o, action, source, tagged)
       PROVE  UNCHANGED rows
  BY <1>10 DEF Begin
<1>11. RecoveryCrash \/ ReadActive \/ Ban \/ UNCHANGED vars => UNCHANGED rows
  BY DEF RecoveryCrash, ReadActive, Ban, vars, backend
<1>12. QED
  BY <1>2, <1>4, <1>5, <1>6, <1>7, <1>8, <1>9, <1>10, <1>11 DEF Next, Recover

\* Instances of the scheduler live and end; one begins when its request arrives
\* and can be accepted.
RemoteGoesOn ==
  /\ remote' \in [Ops -> RemoteStates]
  /\ \A i \in Ops : /\ Ending(i) => Ending(i)'
                    /\ remote[i] # "NONE" => remote'[i] # "NONE"
                    /\ remote[i] = "NONE" /\ remote'[i] # "NONE" =>
                         i \in wire /\ Acceptable(i) /\ i \notin wire'

LEMMA RemoteSteps ==
  ASSUME TypeOK, [Next]_vars
  PROVE  RemoteGoesOn
<1>1. ASSUME UNCHANGED remote
      PROVE  RemoteGoesOn
  BY <1>1 DEF RemoteGoesOn, TypeOK, Ending
<1>2. ASSUME NEW i \in Ops, Delete(i) \/ Wear(i)
      PROVE  RemoteGoesOn
  <2>1. PICK s \in {"STOPPING", "CLEANED"} : remote' = [remote EXCEPT ![i] = s]
    BY <1>2 DEF Delete, Wear
  <2>2. remote[i] # "NONE"
    BY <1>2 DEF Delete, Wear
  <2>3. QED  BY <2>1, <2>2 DEF RemoteGoesOn, TypeOK, RemoteStates, Ending
<1>3. ASSUME NEW o \in Ops, Arrive(o)
      PROVE  RemoteGoesOn
  <2>1. CASE remote[o] = "NONE" /\ Acceptable(o)
    <3>1. remote' = [i \in Ops |-> IF i = o THEN "RUNNING"
                                   ELSE IF i \in Active THEN "STOPPING" ELSE remote[i]]
      BY <1>3, <2>1 DEF Arrive
    <3>2. o \in wire /\ o \notin wire'
      BY <1>3 DEF Arrive
    <3>3. remote' \in [Ops -> RemoteStates]
      BY <3>1 DEF TypeOK, RemoteStates
    <3>4. QED  BY <2>1, <3>1, <3>2, <3>3 DEF RemoteGoesOn, Ending, Active
  <2>2. CASE ~(remote[o] = "NONE" /\ Acceptable(o))
    BY <1>1, <1>3, <2>2 DEF Arrive
  <2>3. QED  BY <2>1, <2>2
<1>4. ASSUME NEW o \in Ops,
             \/ Call(o) \/ Save(o) \/ Fail(o) \/ Crash(o) \/ RecordFailure(o)
             \/ RecoverFound(o) \/ RecoverUnreachable(o) \/ RecoverMissing(o)
             \/ ReplayRefused(o) \/ Replay(o) \/ ReplayAnswered(o) \/ Reconcile(o) \/ GrowOld(o)
      PROVE  UNCHANGED remote
  BY <1>4 DEF Call, Save, Fail, Crash, RecordFailure, RecoverFound, RecoverUnreachable, RecoverMissing,
              ReplayRefused, Replay, ReplayAnswered, Reconcile, GrowOld, network
<1>5. ASSUME NEW o, NEW action, NEW source, NEW tagged, Begin(o, action, source, tagged)
      PROVE  UNCHANGED remote
  BY <1>5 DEF Begin, network
<1>6. RecoveryCrash \/ ReadActive \/ ApplyActive \/ Ban \/ UNCHANGED vars => UNCHANGED remote
  BY DEF RecoveryCrash, ReadActive, ApplyActive, Ban, vars, network
<1>7. QED
  BY <1>1, <1>2, <1>3, <1>4, <1>5, <1>6 DEF Next, Recover

\* A request thread begins, calls once under the lock, and fails or ends.
ThreadGoesOn(o) ==
  \/ thread'[o] \in {thread[o], "none"}
  \/ o \notin Used /\ thread'[o] = "waiting" /\ journal'[o].status = "STARTED"
  \/ thread[o] = "waiting" /\ LockFree /\ recovering' = recovering /\ thread'[o] \in {"unsent", "calling"}
  \/ /\ thread[o] = "calling" /\ thread'[o] \in Failures /\ UNCHANGED <<wire, refused>>
     /\ thread'[o] = "refused" => o \notin wire /\ o \in refused

LEMMA ThreadSteps ==
  ASSUME TypeOK, [Next]_vars
  PROVE  /\ thread' \in [Ops -> {"none", "waiting", "calling"} \cup Failures]
         /\ \A o \in Ops : ThreadGoesOn(o)
<1> DEFINE Goal == /\ thread' \in [Ops -> {"none", "waiting", "calling"} \cup Failures]
                   /\ \A o \in Ops : ThreadGoesOn(o)
<1>1. ASSUME UNCHANGED thread
      PROVE  Goal
  BY <1>1 DEF ThreadGoesOn, TypeOK
<1>2. ASSUME NEW o \in Ops, NEW t \in {"none", "waiting", "calling"} \cup Failures,
             thread' = [thread EXCEPT ![o] = t], ThreadGoesOn(o)
      PROVE  Goal
  <2>1. thread' \in [Ops -> {"none", "waiting", "calling"} \cup Failures]
    BY <1>2 DEF TypeOK
  <2>2. ASSUME NEW p \in Ops, p # o
        PROVE  ThreadGoesOn(p)
    BY <1>2, <2>2 DEF TypeOK, ThreadGoesOn
  <2>3. QED  BY <1>2, <2>1, <2>2
<1>3. ASSUME NEW o \in Ops, Save(o) \/ Crash(o) \/ RecordFailure(o)
      PROVE  Goal
  <2>1. thread' = [thread EXCEPT ![o] = "none"]
    BY <1>3 DEF Save, Crash, RecordFailure
  <2>2. ThreadGoesOn(o)
    BY <2>1 DEF TypeOK, ThreadGoesOn
  <2>3. QED  BY <1>2, <2>1, <2>2
<1>4. ASSUME NEW o \in Ops, Call(o)
      PROVE  Goal
  <2>1. thread[o] = "waiting" /\ LockFree /\ recovering' = recovering
    BY <1>4 DEF Call, recovery
  <2>2. PICK t \in {"unsent", "calling"} : thread' = [thread EXCEPT ![o] = t]
    BY <1>4 DEF Call
  <2>3. ThreadGoesOn(o)
    BY <2>1, <2>2 DEF TypeOK, ThreadGoesOn
  <2>4. QED  BY <1>2, <2>2, <2>3 DEF Failures
<1>5. ASSUME NEW o \in Ops, Fail(o)
      PROVE  Goal
  <2>1. PICK t \in Failures : /\ thread' = [thread EXCEPT ![o] = t]
                              /\ t = "refused" => o \notin wire /\ o \in refused
    BY <1>5 DEF Fail
  <2>2. thread[o] = "calling" /\ UNCHANGED <<wire, refused>>
    BY <1>5 DEF Fail, network
  <2>3. ThreadGoesOn(o)
    BY <2>1, <2>2 DEF TypeOK, ThreadGoesOn
  <2>4. QED  BY <1>2, <2>1, <2>3
<1>6. ASSUME NEW o \in Ops, NEW action, NEW source, NEW tagged, Begin(o, action, source, tagged)
      PROVE  Goal
  <2>1. /\ o \notin Used /\ thread' = [thread EXCEPT ![o] = "waiting"]
        /\ journal'[o].status = "STARTED"
    BY <1>6 DEF Begin, TypeOK
  <2>2. ThreadGoesOn(o)
    BY <2>1 DEF TypeOK, ThreadGoesOn
  <2>3. QED  BY <1>2, <2>1, <2>2
<1>7. ASSUME NEW o \in Ops,
             \/ RecoverFound(o) \/ RecoverUnreachable(o) \/ RecoverMissing(o)
             \/ ReplayRefused(o) \/ Replay(o) \/ ReplayAnswered(o)
             \/ Delete(o) \/ Reconcile(o) \/ Arrive(o) \/ Wear(o) \/ GrowOld(o)
      PROVE  UNCHANGED thread
  BY <1>7 DEF RecoverFound, RecoverUnreachable, RecoverMissing, ReplayRefused, Replay, ReplayAnswered,
              Delete, Reconcile, Arrive, Wear, GrowOld, backend
<1>8. RecoveryCrash \/ ReadActive \/ ApplyActive \/ Ban \/ UNCHANGED vars => UNCHANGED thread
  BY DEF RecoveryCrash, ReadActive, ApplyActive, Ban, vars, backend
<1>9. QED
  BY <1>1, <1>3, <1>4, <1>5, <1>6, <1>7, <1>8 DEF Next, Recover

\* A request is sent by its thread or by a replay; it is refused when it arrives.
NetworkGoesOn ==
  /\ wire' \subseteq Ops /\ refused' \subseteq Ops
  /\ \A o \in Ops :
       /\ o \in wire' => \/ o \in wire
                         \/ thread[o] = "waiting" /\ thread'[o] = "calling"
                         \/ recovering = o /\ remote[journal[o].source] = "RUNNING"
       /\ o \in refused' => \/ o \in refused
                            \/ /\ o \in wire /\ o \notin wire' /\ remote[o] = "NONE"
                               /\ ~Acceptable(o) /\ UNCHANGED <<remote, journal, thread>>
       /\ o \in refused \ refused' => recovering = o /\ remote[journal[o].source] = "RUNNING"

LEMMA NetworkSteps ==
  ASSUME TypeOK, [Next]_vars
  PROVE  NetworkGoesOn
<1>1. ASSUME UNCHANGED <<wire, refused>>
      PROVE  NetworkGoesOn
  BY <1>1 DEF NetworkGoesOn, TypeOK
<1>2. ASSUME NEW o \in Ops, Call(o)
      PROVE  NetworkGoesOn
  BY <1>2 DEF NetworkGoesOn, Call, TypeOK, network
<1>3. ASSUME NEW o \in Ops, Replay(o)
      PROVE  NetworkGoesOn
  BY <1>3 DEF NetworkGoesOn, Replay, TypeOK
<1>4. ASSUME NEW o \in Ops, Arrive(o)
      PROVE  NetworkGoesOn
  BY <1>4 DEF NetworkGoesOn, Arrive, TypeOK, backend
<1>5. ASSUME NEW o \in Ops,
             \/ Save(o) \/ Fail(o) \/ Crash(o) \/ RecordFailure(o)
             \/ RecoverFound(o) \/ RecoverUnreachable(o) \/ RecoverMissing(o)
             \/ ReplayRefused(o) \/ ReplayAnswered(o)
             \/ Delete(o) \/ Reconcile(o) \/ Wear(o) \/ GrowOld(o)
      PROVE  UNCHANGED <<wire, refused>>
  BY <1>5 DEF Save, Fail, Crash, RecordFailure, RecoverFound, RecoverUnreachable, RecoverMissing,
              ReplayRefused, ReplayAnswered, Delete, Reconcile, Wear, GrowOld, network
<1>6. ASSUME NEW o, NEW action, NEW source, NEW tagged, Begin(o, action, source, tagged)
      PROVE  UNCHANGED <<wire, refused>>
  BY <1>6 DEF Begin, network
<1>7. RecoveryCrash \/ ReadActive \/ ApplyActive \/ Ban \/ UNCHANGED vars => UNCHANGED <<wire, refused>>
  BY DEF RecoveryCrash, ReadActive, ApplyActive, Ban, vars, network
<1>8. QED
  BY <1>1, <1>2, <1>3, <1>4, <1>5, <1>6, <1>7 DEF Next, Recover

\* A replay begins with the lock, and ends.
ReplayGoesOn ==
  /\ recovering' \in Ops \cup {None} /\ replayed' \in BOOLEAN
  /\ \/ recovering' \in {recovering, None}
     \/ /\ LockFree /\ UNCHANGED <<journal, thread>> /\ recovering' \in Ops
        /\ journal[recovering'].status \in Blocking /\ journal[recovering'].action = "RESET"

LEMMA ReplaySteps ==
  ASSUME TypeOK, [Next]_vars
  PROVE  ReplayGoesOn
<1>1. ASSUME UNCHANGED recovery
      PROVE  ReplayGoesOn
  BY <1>1 DEF ReplayGoesOn, TypeOK, recovery
<1>2. ASSUME NEW o \in Ops, RecoverMissing(o)
      PROVE  ReplayGoesOn
  <2>1. CASE journal[o].action = "CREATE"
    BY <1>1, <1>2, <2>1 DEF RecoverMissing
  <2>2. CASE journal[o].action # "CREATE"
    <3>1. journal[o].action = "RESET"
      BY <2>2 DEF TypeOK, Entries
    <3>2. /\ recovering' = o /\ replayed' = replayed /\ UNCHANGED <<journal, thread>> /\ LockFree
          /\ journal[o].status \in Blocking
      BY <1>2, <2>2 DEF RecoverMissing, MayRecover, Blocking
    <3>3. QED  BY <3>1, <3>2 DEF ReplayGoesOn, TypeOK
  <2>3. QED  BY <2>1, <2>2
<1>3. ASSUME NEW o \in Ops, ReplayRefused(o) \/ Replay(o) \/ ReplayAnswered(o)
      PROVE  ReplayGoesOn
  BY <1>3 DEF ReplayRefused, Replay, ReplayAnswered, ReplayGoesOn, TypeOK
<1>4. RecoveryCrash => ReplayGoesOn
  BY DEF RecoveryCrash, ReplayGoesOn
<1>5. ASSUME NEW o \in Ops,
             \/ Call(o) \/ Save(o) \/ Fail(o) \/ Crash(o) \/ RecordFailure(o)
             \/ RecoverFound(o) \/ RecoverUnreachable(o)
             \/ Delete(o) \/ Reconcile(o) \/ Arrive(o) \/ Wear(o) \/ GrowOld(o)
      PROVE  UNCHANGED recovery
  BY <1>5 DEF Call, Save, Fail, Crash, RecordFailure, RecoverFound, RecoverUnreachable,
              Delete, Reconcile, Arrive, Wear, GrowOld, backend
<1>6. ASSUME NEW o, NEW action, NEW source, NEW tagged, Begin(o, action, source, tagged)
      PROVE  UNCHANGED recovery
  BY <1>6 DEF Begin
<1>7. ReadActive \/ ApplyActive \/ Ban \/ UNCHANGED vars => UNCHANGED recovery
  BY DEF ReadActive, ApplyActive, Ban, vars, backend
<1>8. QED
  BY <1>1, <1>2, <1>3, <1>4, <1>5, <1>6, <1>7 DEF Next, Recover

\* The rest: what was read, the ban, the history, the age of writes.
OthersGoOn ==
  /\ overdue' \subseteq Ops /\ banned' \in BOOLEAN
  /\ forsaken \subseteq forsaken' /\ forsaken' \subseteq Ops
  /\ snapshot' \in Ops \cup {None} /\ snapshot' \in {snapshot, None} \cup Active

LEMMA OtherSteps ==
  ASSUME TypeOK, [Next]_vars
  PROVE  OthersGoOn
<1>1. ASSUME UNCHANGED <<overdue, others>>
      PROVE  OthersGoOn
  BY <1>1 DEF OthersGoOn, TypeOK, others
<1>2. ASSUME NEW o \in Ops, RecordFailure(o) \/ ReplayRefused(o)
      PROVE  OthersGoOn
  <2>1. UNCHANGED <<overdue, snapshot, banned>> /\ forsaken' \in {forsaken, forsaken \cup {o}}
    BY <1>2 DEF RecordFailure, ReplayRefused
  <2>2. QED  BY <2>1 DEF OthersGoOn, TypeOK
<1>3. ReadActive \/ ApplyActive \/ Ban => OthersGoOn
  BY DEF ReadActive, ApplyActive, Ban, OthersGoOn, TypeOK, Active
<1>4. ASSUME NEW o \in Ops, GrowOld(o)
      PROVE  OthersGoOn
  BY <1>4 DEF GrowOld, OthersGoOn, TypeOK, others
<1>5. ASSUME NEW o \in Ops,
             \/ Call(o) \/ Save(o) \/ Fail(o) \/ Crash(o)
             \/ RecoverFound(o) \/ RecoverUnreachable(o) \/ RecoverMissing(o)
             \/ Replay(o) \/ ReplayAnswered(o)
             \/ Delete(o) \/ Reconcile(o) \/ Arrive(o) \/ Wear(o)
      PROVE  UNCHANGED <<overdue, others>>
  BY <1>5 DEF Call, Save, Fail, Crash, RecoverFound, RecoverUnreachable, RecoverMissing,
              Replay, ReplayAnswered, Delete, Reconcile, Arrive, Wear
<1>6. ASSUME NEW o, NEW action, NEW source, NEW tagged, Begin(o, action, source, tagged)
      PROVE  UNCHANGED <<overdue, others>>
  BY <1>6 DEF Begin
<1>7. RecoveryCrash \/ UNCHANGED vars => UNCHANGED <<overdue, others>>
  BY DEF RecoveryCrash, vars
<1>8. QED
  BY <1>1, <1>2, <1>3, <1>4, <1>5, <1>6, <1>7 DEF Next, Recover

-----------------------------------------------------------------------------
(* The invariant is inductive *)

LEMMA BeginFacts ==
  ASSUME TypeOK, Unbegun, NEW o \in Ops \ Used, NEW action \in {"CREATE", "RESET"},
         NEW source \in Ops \cup {None}, NEW tagged \in Tagging, Begin(o, action, source, tagged)
  PROVE  /\ journal' \in [Ops -> Entries]
         /\ \A p \in Ops : p # o => journal'[p] = journal[p]
         /\ journal'[o].status = "STARTED" /\ journal'[o].source = source /\ journal'[o].action = action
         /\ source # None => source # o /\ rows[source] # "NONE"
         /\ action = "RESET" => source # None
         /\ LockFree /\ UNCHANGED rows
<1> DEFINE e == [status |-> "STARTED", action |-> action, source |-> source,
                 tagged |-> tagged, bound |-> FALSE]
<1>1. e \in Entries /\ e.status = "STARTED" /\ e.source = source /\ e.action = action
  BY WriteAssumption DEF Entries, Statuses, Blocking
<1>2. journal' = [journal EXCEPT ![o] = e] /\ o \in Ops
  BY DEF Begin
<1> HIDE DEF e
<1>3. /\ journal' \in [Ops -> Entries] /\ journal'[o] = e
      /\ \A p \in Ops : p # o => journal'[p] = journal[p]
  BY <1>1, <1>2 DEF TypeOK
<1>4. rows[o] = "NONE"
  BY DEF Unbegun
<1>5. /\ source # None => source # o /\ rows[source] # "NONE"
      /\ action = "RESET" => source # None
      /\ LockFree /\ UNCHANGED rows
  BY <1>4 DEF Begin
<1>6. QED  BY <1>1, <1>3, <1>5

\* What a write is never changes once it is begun.
SameWrite(o) == /\ journal'[o].action = journal[o].action
                /\ journal'[o].source = journal[o].source

LEMMA EntriesStay ==
  ASSUME IInv, [Next]_vars
  PROVE  /\ journal' \in [Ops -> Entries]
         /\ \A o \in Used : o \in Used' /\ SameWrite(o)
<1>1. TypeOK /\ Unbegun
  BY DEF IInv
<1>2. CASE UNCHANGED journal
  BY <1>1, <1>2 DEF TypeOK, Used, SameWrite
<1>3. CASE BeginStep
  BY <1>1, <1>3, BeginFacts DEF BeginStep, Used, SameWrite
<1>4. ASSUME NEW p \in Ops, NEW s \in Statuses \ {"UNUSED"}, Writes(p, s)
      PROVE  journal' \in [Ops -> Entries] /\ \A o \in Used : o \in Used' /\ SameWrite(o)
  BY <1>4 DEF Writes, Used, SameWrite
<1>5. ASSUME NEW p \in Ops, Resolves(p) \/ Completes(p)
      PROVE  \E s \in Statuses \ {"UNUSED"} : Writes(p, s)
  BY <1>5 DEF Resolves, Completes, Rejects, Statuses, Blocking
<1>6. QED  BY <1>2, <1>3, <1>4, <1>5, JournalSteps DEF Used

LEMMA TypeStep ==
  ASSUME IInv, [Next]_vars
  PROVE  TypeOK'
<1>1. TypeOK
  BY DEF IInv
<1>2. QED
  BY <1>1, EntriesStay, ThreadSteps, RowsSteps, RemoteSteps, NetworkSteps, ReplaySteps, OtherSteps
     DEF TypeOK, RowsGrow, RemoteGoesOn, NetworkGoesOn, ReplayGoesOn, OthersGoOn

LEMMA LockStep ==
  ASSUME IInv, [Next]_vars
  PROVE  Lock'
<1>1. TypeOK /\ Lock /\ Unbegun
  BY DEF IInv
<1>2. SUFFICES ASSUME recovering' # None
               PROVE  /\ \A o \in Ops : thread'[o] # "calling"
                      /\ journal'[recovering'].status \in Blocking
                      /\ journal'[recovering'].action = "RESET"
  BY DEF Lock
<1>3. CASE recovering' = recovering
  <2>1. /\ \A o \in Ops : thread[o] # "calling"
        /\ recovering \in Used /\ journal[recovering].status \in Blocking /\ journal[recovering].action = "RESET"
        /\ ~LockFree
    BY <1>1, <1>2, <1>3 DEF Lock, TypeOK, Used, Blocking, LockFree
  <2>2. \A o \in Ops : thread'[o] # "calling"
    BY <1>1, <2>1, ThreadSteps DEF ThreadGoesOn, Failures
  <2>3. journal'[recovering].action = "RESET"
    BY <2>1, EntriesStay DEF SameWrite
  <2>4. journal'[recovering].status \in Blocking
    <3>1. ~BeginStep
      BY <1>1, <2>1, BeginFacts DEF BeginStep
    <3>2. ASSUME NEW o \in Ops, Save(o)
          PROVE  FALSE
      BY <2>1, <3>2 DEF Save
    <3>3. ASSUME NEW o \in Ops, Resolves(o), o # recovering
          PROVE  journal'[recovering] = journal[recovering]
      BY <2>1, <3>3 DEF Resolves, Completes, Rejects, Writes, Used
    <3>4. ASSUME Resolves(recovering)
          PROVE  journal'[recovering].status \in Blocking
      <4>1. ~Completes(recovering) \/ recovering' = None
        BY <1>3, <3>4 DEF Resolves, Rejects, Completes, Writes, Blocking
      <4>2. ~Rejects(recovering)
        BY <1>2, <1>3 DEF Rejects, RecordFailure, ReplayRefused
      <4>3. QED  BY <1>2, <3>4, <4>1, <4>2 DEF Resolves, Writes
    <3>5. QED  BY <2>1, <3>1, <3>2, <3>3, <3>4, JournalSteps DEF Used
  <2>5. QED  BY <1>3, <2>2, <2>3, <2>4
<1>4. CASE recovering' # recovering
  <2>1. /\ LockFree /\ UNCHANGED <<journal, thread>>
        /\ journal[recovering'].status \in Blocking /\ journal[recovering'].action = "RESET"
    BY <1>1, <1>2, <1>4, ReplaySteps DEF ReplayGoesOn
  <2>2. QED  BY <2>1 DEF LockFree
<1>5. QED  BY <1>3, <1>4

LEMMA UnbegunStep ==
  ASSUME IInv, [Next]_vars
  PROVE  Unbegun'
<1>1. TypeOK /\ Lock /\ Unbegun
  BY DEF IInv
<1>2. SUFFICES ASSUME NEW o \in Ops, journal'[o].status = "UNUSED"
               PROVE  /\ thread'[o] = "none" /\ o \notin wire' /\ o \notin refused'
                      /\ remote'[o] = "NONE" /\ rows'[o] = "NONE" /\ journal'[o].source = None
  BY DEF Unbegun, Used
<1>3. o \notin Used
  BY <1>2, EntriesStay DEF Used
<1>4. /\ thread[o] = "none" /\ o \notin wire /\ o \notin refused
      /\ remote[o] = "NONE" /\ rows[o] = "NONE" /\ journal[o].source = None /\ recovering # o
  BY <1>1, <1>3, WriteAssumption DEF Unbegun, Lock, Used, Blocking, Ops
<1>5. thread'[o] = "none"
  BY <1>1, <1>2, <1>4, ThreadSteps DEF ThreadGoesOn
<1>6. o \notin wire' /\ o \notin refused'
  BY <1>1, <1>4, NetworkSteps DEF NetworkGoesOn
<1>7. remote'[o] = "NONE" /\ rows'[o] = "NONE"
  BY <1>1, <1>4, RemoteSteps, RowsSteps DEF RemoteGoesOn, RowsGrow
<1>8. journal'[o].source = None
  <2>1. CASE UNCHANGED journal
    BY <1>4, <2>1
  <2>2. CASE BeginStep
    BY <1>1, <1>2, <1>4, <2>2, BeginFacts DEF BeginStep
  <2>3. ASSUME NEW p \in Ops, Resolves(p) \/ Completes(p)
        PROVE  journal'[o].source = journal[o].source
    BY <2>3 DEF Resolves, Completes, Rejects, Writes
  <2>4. QED  BY <1>4, <2>1, <2>2, <2>3, JournalSteps DEF Used
<1>9. QED  BY <1>5, <1>6, <1>7, <1>8

LEMMA SourcesStep ==
  ASSUME IInv, [Next]_vars
  PROVE  Sources'
<1>1. TypeOK /\ Unbegun /\ Sources
  BY DEF IInv
<1> DEFINE Ok(o) == /\ journal'[o].source # None =>
                         journal'[o].source # o /\ rows'[journal'[o].source] # "NONE"
                    /\ journal'[o].action = "RESET" => journal'[o].source # None
<1>2. ASSUME NEW o \in Ops, SameWrite(o)
      PROVE  Ok(o)
  <2>1. journal[o].source \in Ops \cup {None}
    BY <1>1 DEF TypeOK, Entries
  <2>2. QED  BY <1>1, <1>2, <2>1, RowsSteps DEF Sources, SameWrite, RowsGrow
<1>3. ASSUME BeginStep, NEW o \in Ops
      PROVE  Ok(o)
  <2>1. PICK p \in Ops \ Used, action \in {"CREATE", "RESET"}, source \in Ops \cup {None}, tagged \in Tagging :
          Begin(p, action, source, tagged)
    BY <1>3 DEF BeginStep
  <2>2. CASE o = p
    BY <1>1, <2>1, <2>2, BeginFacts
  <2>3. CASE o # p
    BY <1>1, <1>2, <2>1, <2>3, BeginFacts DEF SameWrite
  <2>4. QED  BY <2>2, <2>3
<1>4. ASSUME NEW o \in Ops, NEW p \in Ops, Resolves(p) \/ Completes(p)
      PROVE  SameWrite(o)
  BY <1>4 DEF Resolves, Completes, Rejects, Writes, SameWrite
<1>5. UNCHANGED journal => \A o \in Ops : SameWrite(o)
  BY DEF SameWrite
<1>6. \A o \in Ops : Ok(o)
  BY <1>2, <1>3, <1>4, <1>5, JournalSteps DEF Used
<1>7. QED  BY <1>6 DEF Sources

LEMMA KnownStep ==
  ASSUME IInv, [Next]_vars
  PROVE  Known'
<1>1. TypeOK /\ Known
  BY DEF IInv
<1>2. \A i \in Ops : rows'[i] # "NONE" => remote'[i] # "NONE"
  BY <1>1, RowsSteps, RemoteSteps DEF RowsGrow, RemoteGoesOn, Known
<1>3. snapshot' # None => snapshot' \in Ops /\ remote[snapshot'] # "NONE"
  BY <1>1, OtherSteps DEF OthersGoOn, Active, Known
<1>4. QED  BY <1>1, <1>2, <1>3, RemoteSteps DEF RemoteGoesOn, Known

\* The source of a reset that is not running has ended.
LEMMA SourceEnded ==
  ASSUME TypeOK, Sources, Known, NEW o \in Ops, journal[o].action = "RESET"
  PROVE  /\ journal[o].source \in Ops
         /\ remote[journal[o].source] # "RUNNING" => Ending(journal[o].source)
<1>1. journal[o].source \in Ops /\ rows[journal[o].source] # "NONE"
  BY DEF Sources, TypeOK, Entries
<1>2. QED  BY <1>1 DEF Known, TypeOK, RemoteStates, Ending

LEMMA RefusalsStep ==
  ASSUME IInv, [Next]_vars
  PROVE  Refusals'
<1>1. TypeOK /\ Lock /\ Unbegun /\ Sources /\ Known /\ Refusals
  BY DEF IInv
<1>2. RemoteGoesOn /\ NetworkGoesOn /\ \A o \in Ops : ThreadGoesOn(o)
  BY <1>1, RemoteSteps, NetworkSteps, ThreadSteps
<1>3. ASSUME NEW o \in Ops
      PROVE  recovering = o => journal[o].action = "RESET" /\ o \in Used
  BY <1>1, WriteAssumption DEF Lock, Ops, Used, Blocking
<1>4. ASSUME NEW o \in Ops, o \in refused
      PROVE  /\ remote'[o] = "NONE" /\ SameWrite(o)
             /\ recovering = o => remote[journal[o].source] # "RUNNING"
             /\ journal[o].action = "CREATE" => o \notin wire'
             /\ journal[o].action = "RESET" => remote'[journal[o].source] # "RUNNING"
  <2>1. o \in Used /\ SameWrite(o)
    BY <1>1, <1>4, EntriesStay DEF Unbegun
  <2>2. /\ remote[o] = "NONE"
        /\ journal[o].action = "CREATE" => o \notin wire /\ thread[o] # "waiting"
        /\ journal[o].action = "RESET" => remote[journal[o].source] # "RUNNING"
    BY <1>1, <1>4 DEF Refusals
  <2>3. journal[o].action \in {"CREATE", "RESET"}
    BY <1>1 DEF TypeOK, Entries
  <2>4. remote'[o] = "NONE"
    BY <1>2, <2>2, <2>3 DEF RemoteGoesOn, Acceptable
  <2>5. journal[o].action = "CREATE" => o \notin wire'
    BY <1>2, <1>3, <2>2 DEF NetworkGoesOn
  <2>6. journal[o].action = "RESET" => remote'[journal[o].source] # "RUNNING"
    BY <1>1, <1>2, <2>2, SourceEnded DEF RemoteGoesOn, Ending
  <2>7. QED  BY <1>3, <2>1, <2>2, <2>4, <2>5, <2>6
<1>5. ASSUME NEW o \in Ops, o \in refused'
      PROVE  /\ remote'[o] = "NONE"
             /\ journal'[o].action = "CREATE" => o \notin wire'
             /\ journal'[o].action = "RESET" => remote'[journal'[o].source] # "RUNNING"
  <2>1. CASE o \in refused
    BY <1>4, <2>1 DEF SameWrite
  <2>2. CASE o \notin refused
    <3>1. o \notin wire' /\ remote[o] = "NONE" /\ ~Acceptable(o) /\ UNCHANGED <<remote, journal>>
      BY <1>2, <1>5, <2>2 DEF NetworkGoesOn
    <3>2. QED  BY <3>1 DEF Acceptable
  <2>3. QED  BY <2>1, <2>2
<1>6. ASSUME NEW o \in Ops, thread'[o] = "refused"
      PROVE  o \in refused' /\ o \notin wire'
  <2>1. CASE thread[o] = "refused"
    <3>1. o \in refused /\ o \notin wire
      BY <1>1, <2>1 DEF Refusals
    <3>2. QED  BY <1>2, <1>4, <2>1, <3>1 DEF NetworkGoesOn
  <2>2. CASE thread[o] # "refused"
    <3>1. UNCHANGED <<wire, refused>> /\ o \notin wire /\ o \in refused
      BY <1>2, <1>6, <2>2 DEF ThreadGoesOn
    <3>2. QED  BY <3>1
  <2>3. QED  BY <2>1, <2>2
<1>7. ASSUME NEW o \in Ops, thread'[o] = "waiting", journal'[o].action = "CREATE"
      PROVE  o \notin refused' /\ o \notin wire'
  <2>1. CASE o \notin Used
    <3>1. o \notin wire /\ o \notin refused /\ thread[o] = "none" /\ recovering # o
      BY <1>1, <1>3, <2>1 DEF Unbegun
    <3>2. QED  BY <1>2, <3>1 DEF NetworkGoesOn
  <2>2. CASE o \in Used
    <3>1. journal[o].action = "CREATE" /\ recovering # o
      BY <1>3, <1>7, <2>2, EntriesStay DEF SameWrite
    <3>2. thread[o] = "waiting"
      BY <1>2, <1>7, <2>2 DEF ThreadGoesOn, Failures
    <3>3. o \notin refused /\ o \notin wire
      BY <1>1, <3>1, <3>2 DEF Refusals
    <3>4. QED  BY <1>2, <1>7, <3>1, <3>3 DEF NetworkGoesOn
  <2>3. QED  BY <2>1, <2>2
<1>8. QED  BY <1>5, <1>6, <1>7 DEF Refusals

\* What is settled stays settled: nobody sends a rejected write again.
LEMMA SettledStays ==
  ASSUME IInv, [Next]_vars, NEW o \in Ops, journal[o].status = "REJECTED", Settled(o)
  PROVE  Settled(o)'
<1>1. TypeOK /\ Lock /\ Sources /\ Known
  BY DEF IInv
<1>2. /\ RemoteGoesOn /\ NetworkGoesOn /\ OthersGoOn /\ ThreadGoesOn(o) /\ SameWrite(o) /\ o \in Used
      /\ recovering # o
  <2>1. recovering # o
    BY <1>1, WriteAssumption DEF Lock, Blocking, Ops
  <2>2. QED
    BY <1>1, <2>1, RemoteSteps, NetworkSteps, OtherSteps, ThreadSteps, EntriesStay DEF Used
<1>3. CASE o \in forsaken
  BY <1>2, <1>3 DEF OthersGoOn, Settled
<1>4. CASE Ending(o)
  BY <1>2, <1>4 DEF RemoteGoesOn, Settled
<1>5. CASE Doomed(o)
  <2>1. journal[o].source \in Ops /\ ~Acceptable(o)
    BY <1>1, <1>5, SourceEnded DEF Doomed, Acceptable, Ending
  <2>2. remote'[o] = "NONE" /\ Ending(journal[o].source)'
    BY <1>2, <1>5, <2>1 DEF RemoteGoesOn, Doomed, SameWrite, Ending
  <2>3. journal'[o].action = "RESET"
    BY <1>2, <1>5 DEF SameWrite, Doomed
  <2>4. QED  BY <2>2, <2>3 DEF Settled, Doomed
<1>6. CASE Unsent(o)
  <2>1. remote'[o] = "NONE"
    BY <1>2, <1>6 DEF RemoteGoesOn, Unsent
  <2>2. o \notin wire' /\ thread'[o] = "none"
    BY <1>2, <1>6 DEF NetworkGoesOn, ThreadGoesOn, Unsent
  <2>3. QED  BY <2>1, <2>2 DEF Settled, Unsent
<1>7. QED  BY <1>3, <1>4, <1>5, <1>6 DEF Settled

\* A write is rejected only when it is settled.
LEMMA RejectedIsSettled ==
  ASSUME IInv, NEW o \in Ops, Rejects(o)
  PROVE  Settled(o)'
<1>1. TypeOK /\ Lock /\ Sources /\ Known /\ Refusals
  BY DEF IInv
<1>2. SameWrite(o)
  BY DEF Rejects, Writes, SameWrite
<1>3. CASE RecordFailure(o) /\ thread[o] \in {"unsent", "refused"}
  <2>1. UNCHANGED <<remote, wire>> /\ thread'[o] = "none"
    BY <1>1, <1>3 DEF RecordFailure, network, TypeOK
  <2>2. CASE thread[o] = "refused"
    <3>1. remote[o] = "NONE" /\ o \notin wire
      BY <1>1, <2>2 DEF Refusals
    <3>2. QED  BY <2>1, <3>1 DEF Settled, Unsent
  <2>3. CASE thread[o] = "unsent" /\ (o \in wire \/ remote[o] = "RUNNING")
    BY <1>3, <2>3 DEF RecordFailure, Settled
  <2>4. CASE thread[o] = "unsent" /\ o \notin wire /\ remote[o] # "RUNNING"
    <3>1. CASE remote[o] = "NONE"
      BY <2>1, <2>4, <3>1 DEF Settled, Unsent
    <3>2. CASE remote[o] # "NONE"
      BY <1>1, <2>1, <2>4, <3>2 DEF Settled, Ending, TypeOK, RemoteStates
    <3>3. QED  BY <3>1, <3>2
  <2>5. QED  BY <1>3, <2>2, <2>3, <2>4
<1>4. CASE ReplayRefused(o) /\ banned
  BY <1>4 DEF ReplayRefused, Settled
<1>5. CASE ReplayRefused(o) /\ remote[journal[o].source] = "CLEANED" /\ Active = {}
  <2>1. journal[o].action = "RESET" /\ UNCHANGED remote /\ remote[o] # "RUNNING"
    BY <1>1, <1>5, WriteAssumption DEF ReplayRefused, Lock, Ops, network, Active
  <2>2. CASE remote[o] = "NONE"
    BY <1>2, <1>5, <2>1, <2>2 DEF Settled, Doomed, SameWrite, Ending
  <2>3. CASE remote[o] # "NONE"
    BY <1>1, <2>1, <2>3 DEF Settled, Ending, TypeOK, RemoteStates
  <2>4. QED  BY <2>2, <2>3
<1>6. QED  BY <1>3, <1>4, <1>5 DEF Rejects

LEMMA RejectionsStep ==
  ASSUME IInv, [Next]_vars
  PROVE  Rejections'
<1>1. TypeOK /\ Unbegun /\ Rejections
  BY DEF IInv
<1>2. ASSUME NEW o \in Ops, journal'[o].status = "REJECTED"
      PROVE  Settled(o)'
  <2>1. CASE journal[o].status = "REJECTED"
    BY <1>1, <2>1, SettledStays DEF Rejections
  <2>2. CASE journal[o].status # "REJECTED"
    <3>1. ~BeginStep
      BY <1>1, <1>2, <2>2, BeginFacts DEF BeginStep
    <3>2. ASSUME NEW p \in Ops, Completes(p)
          PROVE  FALSE
      BY <1>2, <2>2, <3>2 DEF Completes, Writes
    <3>3. ASSUME NEW p \in Ops, Resolves(p)
          PROVE  p = o /\ Rejects(o)
      BY <1>2, <2>2, <3>3 DEF Resolves, Completes, Rejects, Writes, Blocking
    <3>4. Rejects(o)
      BY <1>2, <2>2, <3>1, <3>2, <3>3, JournalSteps DEF Used
    <3>5. QED  BY <3>4, RejectedIsSettled
  <2>3. QED  BY <2>1, <2>2
<1>3. QED  BY <1>2 DEF Rejections

LEMMA RowStep ==
  ASSUME IInv, [Next]_vars
  PROVE  CompletedHasRow'
<1>1. TypeOK /\ Unbegun /\ CompletedHasRow /\ RowsGrow
  BY RowsSteps DEF IInv
<1>2. ASSUME NEW o \in Ops, journal'[o] = journal[o]
      PROVE  journal'[o].status = "COMPLETED" => rows'[o] # "NONE" /\ journal'[o].bound
  BY <1>1, <1>2 DEF CompletedHasRow, RowsGrow
<1>3. ASSUME BeginStep, NEW o \in Ops, journal'[o].status = "COMPLETED"
      PROVE  journal'[o] = journal[o]
  BY <1>1, <1>3, BeginFacts DEF BeginStep
<1>4. ASSUME NEW p \in Ops, Resolves(p) \/ Completes(p), NEW o \in Ops, journal'[o].status = "COMPLETED"
      PROVE  journal'[o] = journal[o] \/ (rows'[o] # "NONE" /\ journal'[o].bound)
  BY <1>4 DEF Resolves, Completes, Rejects, Writes, Blocking
<1>5. QED  BY <1>2, <1>3, <1>4, JournalSteps DEF CompletedHasRow, Used

LEMMA InitInv == Init => IInv
<1> SUFFICES ASSUME Init
             PROVE  IInv
  OBVIOUS
<1> DEFINE e == [status |-> "UNUSED", action |-> "CREATE", source |-> None, tagged |-> FALSE, bound |-> FALSE]
<1>1. e \in Entries /\ e.status = "UNUSED" /\ e.source = None /\ e.action = "CREATE"
  BY DEF Entries, Statuses
<1>2. journal = [o \in Ops |-> e]
  BY DEF Init
<1> HIDE DEF e
<1>3. journal \in [Ops -> Entries] /\ \A o \in Ops : journal[o] = e
  BY <1>1, <1>2
<1>4. TypeOK
  BY <1>3 DEF Init, TypeOK, RemoteStates
<1>5. Unbegun /\ Sources
  BY <1>1, <1>3 DEF Init, Unbegun, Sources
<1>6. Lock /\ Known /\ Refusals
  BY <1>1, <1>3 DEF Init, Lock, Known, Refusals
<1>7. Rejections /\ CompletedHasRow
  BY <1>1, <1>3 DEF Rejections, CompletedHasRow
<1>8. QED  BY <1>4, <1>5, <1>6, <1>7 DEF IInv

LEMMA InvStep == IInv /\ [Next]_vars => IInv'
BY TypeStep, LockStep, UnbegunStep, SourcesStep, KnownStep, RefusalsStep, RejectionsStep, RowStep DEF IInv

LEMMA Invariance == Spec => []IInv
BY InitInv, InvStep, PTL DEF Spec

-----------------------------------------------------------------------------
(* What follows from it *)

\* Every value keeps its type.
THEOREM TypeCorrect == Spec => []TypeOK
<1>1. IInv => TypeOK
  BY DEF IInv
<1>2. QED  BY <1>1, Invariance, PTL

\* No instance runs that the backend could forget: it has a row or its write
\* blocks the user, but for the two exceptions of forsaken.
THEOREM NothingIsOrphaned == Spec => []NoLiveOrphan
<1>1. IInv => NoLiveOrphan
  <2> SUFFICES ASSUME IInv, NEW o \in Ops, remote[o] = "RUNNING"
               PROVE  rows[o] # "NONE" \/ journal[o].status \in Blocking \/ o \in forsaken
    BY DEF NoLiveOrphan
  <2>1. TypeOK /\ Unbegun /\ Rejections /\ CompletedHasRow
    BY DEF IInv
  <2>2. journal[o].status \in Statuses /\ journal[o].status # "UNUSED"
    BY <2>1 DEF TypeOK, Entries, Unbegun, Used
  <2>3. CASE journal[o].status = "COMPLETED"
    BY <2>1, <2>3 DEF CompletedHasRow
  <2>4. CASE journal[o].status = "REJECTED"
    BY <2>1, <2>4 DEF Rejections, Settled, Ending, Doomed, Unsent
  <2>5. QED  BY <2>2, <2>3, <2>4 DEF Statuses
<1>2. QED  BY <1>1, Invariance, PTL

\* A completed write has its row and knows its instance.  (complete_write)
THEOREM CompletedWritesHaveRows == Spec => []CompletedHasRow
<1>1. IInv => CompletedHasRow
  BY DEF IInv
<1>2. QED  BY <1>1, Invariance, PTL

LEMMA CompletedStays ==
  ASSUME IInv, [Next]_vars, NEW o \in Ops, journal[o].status = "COMPLETED"
  PROVE  journal'[o] = journal[o]
<1>1. TypeOK /\ Unbegun /\ CompletedHasRow
  BY DEF IInv
<1>2. ASSUME Save(o)
      PROVE  journal'[o] = journal[o]
  <2>1. journal' = [journal EXCEPT ![o] = [@ EXCEPT !.status = "COMPLETED", !.bound = TRUE]]
    BY <1>2 DEF Save
  <2>2. journal[o] \in Entries /\ journal[o].status = "COMPLETED" /\ journal[o].bound = TRUE
    BY <1>1 DEF TypeOK, Entries, CompletedHasRow
  <2>3. [journal[o] EXCEPT !.status = "COMPLETED", !.bound = TRUE] = journal[o]
    BY <2>2 DEF Entries
  <2>4. QED  BY <1>1, <2>1, <2>3 DEF TypeOK
<1>3. ASSUME NEW p \in Ops, Save(p) /\ Completes(p)
      PROVE  journal'[o] = journal[o]
  BY <1>2, <1>3 DEF Completes, Writes
<1>4. ASSUME BeginStep
      PROVE  journal'[o] = journal[o]
  BY <1>1, <1>4, BeginFacts DEF BeginStep, Used
<1>5. ASSUME NEW p \in Ops, journal[p].status # "COMPLETED", Resolves(p)
      PROVE  journal'[o] = journal[o]
  BY <1>5 DEF Resolves, Completes, Rejects, Writes
<1>6. QED  BY <1>3, <1>4, <1>5, JournalSteps DEF Used

\* A completed write stays so, whatever fails or is recovered late.
\* (record_write_failure, recover_write)
THEOREM CompletedWritesAreFinal == Spec => CompletedIsFinal
<1> DEFINE A == \A o \in Ops : journal[o].status = "COMPLETED" => journal'[o] = journal[o]
<1>1. IInv /\ [Next]_vars => [A]_vars
  BY CompletedStays
<1> HIDE DEF A
<1>2. Spec => [][A]_vars
  BY <1>1, Invariance, PTL DEF Spec
<1>3. QED  BY <1>2 DEF A, CompletedIsFinal

LEMMA CompletionRetires ==
  ASSUME IInv, [Next]_vars, NEW o \in Ops,
         journal'[o].status = "COMPLETED", journal'[o].source # None, rows'[journal'[o].source] = "RUNNING"
  PROVE  LET source == journal'[o].source IN
           /\ journal[o].status = "COMPLETED"
           /\ rows[source] = "RUNNING" \/ snapshot = source \/ thread[source] = "calling"
<1> DEFINE source == journal'[o].source
<1>1. TypeOK /\ Unbegun /\ Sources
  BY DEF IInv
<1>2. journal[o].status = "COMPLETED"
  <2>1. SUFFICES ASSUME journal[o].status # "COMPLETED"
                 PROVE  FALSE
    OBVIOUS
  <2>2. ~BeginStep
    BY <1>1, <2>1, BeginFacts DEF BeginStep
  <2>3. ASSUME NEW p \in Ops, Completes(p)
        PROVE  FALSE
    BY <2>1, <2>3 DEF Completes, Writes
  <2>4. ASSUME NEW p \in Ops, Resolves(p)
        PROVE  FALSE
    BY <2>1, <2>3, <2>4 DEF Resolves, Rejects, Writes, Blocking
  <2>5. QED  BY <2>1, <2>2, <2>3, <2>4, JournalSteps DEF Used
<1>3. SameWrite(o)
  BY <1>2, EntriesStay DEF Used
<1>4. source \in Ops /\ rows[source] # "NONE"
  BY <1>1, <1>3 DEF SameWrite, Sources, TypeOK, Entries
<1>5. RowsGrow
  BY RowsSteps
<1>6. QED
  BY <1>1, <1>2, <1>4, <1>5 DEF RowsGrow, Revived, TypeOK, RemoteStates

\* The source of a write no longer counts as running once the write is
\* completed, but for late answers and unlocked reads.  (mark_instance_replaced)
THEOREM SourcesAreRetired == Spec => SourceIsRetired
<1> DEFINE A == \A o \in Ops :
                  LET source == journal'[o].source
                  IN  journal'[o].status = "COMPLETED" /\ source # None /\ rows'[source] = "RUNNING" =>
                        /\ journal[o].status = "COMPLETED"
                        /\ rows[source] = "RUNNING" \/ snapshot = source \/ thread[source] = "calling"
<1>1. IInv /\ [Next]_vars => [A]_vars
  BY CompletionRetires
<1> HIDE DEF A
<1>2. Spec => [][A]_vars
  BY <1>1, Invariance, PTL DEF Spec
<1>3. QED  BY <1>2 DEF A, SourceIsRetired

-----------------------------------------------------------------------------
(***************************************************************************)
(* The safety half of TaggedSettles: while a write with a request id is    *)
(* open, a step that Fairness asks for is open.                            *)
(***************************************************************************)

\* A remote id that was ever heard of is one of the scheduler's.
Heard == \A o \in Ops : journal[o].bound \/ thread[o] = "unsaved" => remote[o] # "NONE"

\* Recovery can take the write up, and finds its instance or may conclude that
\* there is none; or a request holds the lock and can give its call up; or a
\* replay holds it and has an answer to act on.
SettlingGoesOn ==
  \A o \in Ops :
    journal[o].tagged /\ journal[o].status \in {"STARTED", "RECOVERY_PENDING"} =>
      \/ MayRecover(o) /\ (remote[o] # "NONE" \/ ~journal[o].bound)
      \/ \E p \in Ops : thread[p] = "calling"
      \/ \E p \in Ops : /\ recovering = p
                        /\ replayed \/ banned \/ remote[journal[p].source] # "NONE"

\* A remote id comes from an answer of the scheduler.
LEMMA HeardStep == IInv /\ Heard /\ [Next]_vars => Heard'
<1> SUFFICES ASSUME IInv, Heard, [Next]_vars PROVE Heard'
  OBVIOUS
<1> DEFINE News(o) == journal'[o].bound \/ thread'[o] = "unsaved" =>
                        journal[o].bound \/ thread[o] = "unsaved" \/ remote[o] # "NONE"
<1>1. TypeOK /\ Unbegun /\ Sources /\ RemoteGoesOn
  BY RemoteSteps DEF IInv
<1>2. \A o \in Ops : thread'[o] \in {thread[o], "none"} /\ journal'[o].bound = journal[o].bound => News(o)
  OBVIOUS
<1>3. ASSUME UNCHANGED journal, NEW o \in Ops
      PROVE  thread'[o] = "unsaved" => thread[o] = "unsaved" \/ remote[o] # "NONE"
  <2>1. ASSUME NEW p \in Ops, Fail(p)
        PROVE  thread'[o] = "unsaved" => thread[o] = "unsaved" \/ remote[o] # "NONE"
    BY <1>1, <2>1 DEF Fail, TypeOK, Failures
  <2>2. ASSUME NEW p \in Ops, Call(p) \/ Crash(p) \/ RecordFailure(p) \/ Save(p)
        PROVE  thread'[o] = "unsaved" => thread[o] = "unsaved"
    BY <1>1, <2>2 DEF Call, Crash, RecordFailure, Save, TypeOK
  <2>3. ASSUME NEW p \in Ops, NEW action, NEW source, NEW tagged, Begin(p, action, source, tagged)
        PROVE  thread'[o] = "unsaved" => thread[o] = "unsaved"
    BY <1>1, <2>3 DEF Begin, TypeOK
  <2>4. ASSUME NEW p \in Ops,
               \/ Recover(p) \/ Delete(p) \/ Reconcile(p) \/ Arrive(p) \/ Wear(p) \/ GrowOld(p)
        PROVE  UNCHANGED thread
    BY <2>4 DEF Recover, RecoverFound, RecoverUnreachable, RecoverMissing, ReplayRefused, Replay,
                ReplayAnswered, Delete, Reconcile, Arrive, Wear, GrowOld, backend
  <2>5. RecoveryCrash \/ ReadActive \/ ApplyActive \/ Ban \/ UNCHANGED vars => UNCHANGED thread
    BY DEF RecoveryCrash, ReadActive, ApplyActive, Ban, vars, backend
  <2>6. QED  BY <2>1, <2>2, <2>3, <2>4, <2>5 DEF Next
<1>4. ASSUME NEW p \in Ops, \E s : Writes(p, s), NEW o \in Ops,
             thread'[o] \in {thread[o], "none"},
             journal'[p].bound => journal[p].bound \/ thread[p] = "unsaved" \/ remote[p] # "NONE"
      PROVE  News(o)
  BY <1>4 DEF Writes
<1>5. ASSUME NEW o \in Ops
      PROVE  News(o)
  <2>1. ASSUME NEW p \in Ops, NEW action \in {"CREATE", "RESET"}, NEW source \in Ops \cup {None},
               NEW tagged \in Tagging, Begin(p, action, source, tagged)
        PROVE  News(o)
    BY <1>1, <2>1 DEF Begin, TypeOK
  <2>2. ASSUME NEW p \in Ops, Save(p)
        PROVE  News(o)
    <3>1. Writes(p, "COMPLETED") /\ remote[p] # "NONE"
      BY <1>1, <2>2, SaveCompletes DEF Completes, Save
    <3>2. thread'[o] \in {thread[o], "none"}
      BY <1>1, <2>2 DEF Save, TypeOK
    <3>3. QED  BY <1>4, <3>1, <3>2
  <2>3. ASSUME NEW p \in Ops, RecordFailure(p)
        PROVE  News(o)
    <3>1. thread'[o] \in {thread[o], "none"}
      BY <1>1, <2>3 DEF RecordFailure, TypeOK
    <3>2. CASE UNCHANGED journal
      BY <3>1, <3>2
    <3>3. CASE ~UNCHANGED journal
      <4>1. PICK s : Writes(p, s)
        BY <1>1, <2>3, <3>3, FailureWrites
      <4>2. journal'[p].bound => journal[p].bound \/ thread[p] = "unsaved"
        BY <1>1, <2>3, <3>3 DEF RecordFailure, TypeOK, Entries
      <4>3. QED  BY <1>4, <3>1, <4>1, <4>2
    <3>4. QED  BY <3>2, <3>3
  <2>4. ASSUME NEW p \in Ops, Recover(p)
        PROVE  News(o)
    <3>1. UNCHANGED thread
      BY <2>4 DEF Recover, RecoverFound, RecoverUnreachable, RecoverMissing, ReplayRefused, Replay,
                  ReplayAnswered
    <3>2. CASE UNCHANGED journal
      BY <3>1, <3>2
    <3>3. CASE RecoverFound(p) \/ (ReplayAnswered(p) /\ remote[p] # "NONE")
      <4>1. \E s : Writes(p, s)
        BY <1>1, <3>3, AdoptCompletes, ReplayAnsweredWrites DEF RecoverFound, Completes
      <4>2. QED  BY <1>4, <3>1, <3>3, <4>1 DEF RecoverFound
    <3>4. ASSUME \E s : Writes(p, s) /\ journal'[p].bound = journal[p].bound
          PROVE  News(o)
      BY <1>4, <3>1, <3>4
    <3>5. CASE RecoverUnreachable(p)
      BY <1>1, <3>4, <3>5, StatusWritten DEF RecoverUnreachable, Statuses, Blocking
    <3>6. CASE RecoverMissing(p) /\ ~UNCHANGED journal
      BY <1>1, <3>4, <3>6, NotYetFoundBlocks DEF RecoverMissing
    <3>7. CASE ReplayRefused(p)
      BY <1>1, <3>4, <3>7, ReplayRefusedWrites
    <3>8. CASE ReplayAnswered(p) /\ remote[p] = "NONE"
      <4>1. SetStatus(p, "REVIEW_REQUIRED") \/ SetStatus(p, "RECOVERY_PENDING")
        BY <3>8 DEF ReplayAnswered
      <4>2. QED  BY <1>1, <3>4, <4>1, StatusWritten DEF Statuses, Blocking
    <3>9. CASE Replay(p)
      BY <3>2, <3>9 DEF Replay
    <3>10. QED  BY <2>4, <3>2, <3>3, <3>5, <3>6, <3>7, <3>8, <3>9 DEF Recover
  <2>5. ASSUME NEW p \in Ops, \/ Call(p) \/ Fail(p) \/ Crash(p) \/ Delete(p) \/ Reconcile(p)
                              \/ Arrive(p) \/ Wear(p) \/ GrowOld(p)
        PROVE  UNCHANGED journal
    BY <2>5 DEF Call, Fail, Crash, Delete, Reconcile, Arrive, Wear, GrowOld, backend
  <2>6. RecoveryCrash \/ ReadActive \/ ApplyActive \/ Ban \/ UNCHANGED vars => UNCHANGED journal
    BY DEF RecoveryCrash, ReadActive, ApplyActive, Ban, vars, backend
  <2>7. CASE UNCHANGED journal
    BY <1>3, <2>7
  <2>8. QED  BY <2>1, <2>2, <2>3, <2>4, <2>5, <2>6, <2>7 DEF Next
<1>6. QED  BY <1>1, <1>5 DEF Heard, RemoteGoesOn

\* An open write with a request id never gets into a state where neither
\* recovery nor whoever holds the user's lock has anything left to do, and which
\* would block the user for ever: a remote id on record is one the scheduler can
\* be asked for, and a reset that is replayed has a source it knows.
\* (recover_write, replay_unaccepted_reset)
THEOREM OpenWritesCanBeSettled == Spec => []SettlingGoesOn
<1>1. Init => Heard
  <2> SUFFICES ASSUME Init, NEW o \in Ops PROVE ~journal[o].bound /\ thread[o] # "unsaved"
    BY DEF Heard
  <2>1. QED  BY DEF Init
<1>2. IInv /\ Heard => SettlingGoesOn
  <2> SUFFICES ASSUME IInv, Heard, NEW o \in Ops,
                      journal[o].tagged, journal[o].status \in {"STARTED", "RECOVERY_PENDING"}
               PROVE  \/ MayRecover(o) /\ (remote[o] # "NONE" \/ ~journal[o].bound)
                      \/ \E p \in Ops : thread[p] = "calling"
                      \/ \E p \in Ops : /\ recovering = p
                                        /\ replayed \/ banned \/ remote[journal[p].source] # "NONE"
    BY DEF SettlingGoesOn
  <2>1. CASE LockFree
    BY <2>1 DEF Heard, MayRecover
  <2>2. CASE recovering # None
    <3>1. recovering \in Ops /\ journal[recovering].action = "RESET"
      BY <2>2 DEF IInv, TypeOK, Lock
    <3>2. journal[recovering].source # None /\ rows[journal[recovering].source] # "NONE"
      BY <3>1 DEF IInv, Sources
    <3>3. journal[recovering].source \in Ops
      BY <3>1, <3>2 DEF IInv, TypeOK, Entries
    <3>4. QED  BY <3>1, <3>2, <3>3 DEF IInv, Known
  <2>3. QED  BY <2>1, <2>2 DEF LockFree
<1>3. QED  BY <1>1, <1>2, HeardStep, InitInv, InvStep, PTL DEF Spec
=============================================================================
