---------------------------- MODULE JobQueueProofs ----------------------------
(***************************************************************************)
(* Proofs about JobQueue, for any jobs, workers, call slots and sweeps, and *)
(* about SharedQueue, the same queue with its enqueues, for any players and *)
(* enqueues.                                                               *)
(***************************************************************************)
EXTENDS SharedQueue, TLAPS

(* What a handler relies on when it writes: its request passed the checks   *)
(* on the row it read.                                                      *)
CallsAdmitted ==
  \A c \in Calls :
    /\ calls[c].step = "report" => /\ calls[c].by \in Workers
                                   /\ MayReport(calls[c].seen, calls[c].by)
    /\ calls[c].step \in {"cancel", "retry", "reclip"}
         => Accepts(calls[c].step, calls[c].seen.status)

(* The inductive invariant.                                                 *)
IInv == TypeOK /\ ClaimConsistent /\ CallsAdmitted
-------------------------------------------------------------------------------
(* Lemmas about the rows the handlers write.                                *)

(* The snapshot a handler takes of a row is a snapshot.                     *)
LEMMA SnapshotType == ASSUME NEW row \in Row PROVE SnapshotOf(row) \in Snapshot
  BY DEF Row, Snapshot, SnapshotOf

(* A blank row and the idle call are well-typed.                            *)
LEMMA BlankRowType ==
  ASSUME NEW status \in JobStatus \cup {"NEW", "DELETED"}
  PROVE  BlankRow(status) \in Row
  BY JobQueueAssumption DEF JobQueueAssumption, BlankRow, Row

(* So is the call of an idle slot.                                         *)
LEMMA IdleCallType == IdleCall \in Call
<1>1. SnapshotOf(BlankRow("NEW")) \in Snapshot
  BY BlankRowType, SnapshotType
<1> QED
  BY <1>1 DEF IdleCall, Call, ReportStatus

(* Whatever a report decided on the row it read, the row it writes is a row. *)
LEMMA ReportedRowType ==
  ASSUME NEW row \in Row, NEW seen \in Snapshot, NEW w, NEW dto \in ReportStatus
  PROVE  ReportedRow(row, seen, w, dto) \in Row
<1> DEFINE requeued == WillRequeue(seen, dto)
           cleared == requeued \/ IsTerminal(seen, dto)
           status == IF requeued THEN "PENDING" ELSE IF dto = "none" THEN row.status ELSE dto
           by == IF cleared THEN NoWorker ELSE row.leasedBy
           lease == IF cleared THEN "none" ELSE IF seen.leasedBy = w THEN "live" ELSE row.lease
<1>1. status \in JobStatus \cup {"NEW", "DELETED"}
  BY DEF Row, ReportStatus, JobStatus
<1>2. by \in Workers \cup {NoWorker} /\ lease \in {"none", "live", "lapsed"}
  BY DEF Row
<1>3. ReportedResult(seen, dto) \in BOOLEAN
  BY DEF ReportedResult, Snapshot
<1>4. ReportedRow(row, seen, w, dto)
        = [row EXCEPT !.status = status, !.leasedBy = by, !.lease = lease,
                      !.result = ReportedResult(seen, dto)]
  BY DEF ReportedRow
<1> QED
  <2> HIDE DEF requeued, cleared, status, by, lease
  <2> QED
    BY <1>1, <1>2, <1>3, <1>4 DEF Row

(* So are the rows of a cancel, of a requeue and of the release statement.  *)
LEMMA AdminRowType ==
  ASSUME NEW row \in Row
  PROVE  CancelledRow(row) \in Row /\ RequeuedRow(row) \in Row /\ ReleasedRow(row) \in Row
<1>0. 0 \in 0 .. MaxAttempts
  BY JobQueueAssumption DEF JobQueueAssumption
<1>1. CancelledRow(row) \in Row
  BY DEF CancelledRow, Row, JobStatus
<1>2. RequeuedRow(row) \in Row
  BY <1>0 DEF RequeuedRow, Row, JobStatus
<1>3. ReleasedRow(row) \in Row
  BY DEF ReleasedRow, Row, JobStatus
<1> QED
  BY <1>1, <1>2, <1>3

(* A leased row stays within its attempts, because the query that claims it *)
(* checks them in the same statement.                                       *)
LEMMA LeasedRowType ==
  ASSUME NEW row \in Row, NEW w \in Workers, Leasable(row)
  PROVE  LeasedRow(row, w) \in Row
<1>1. row.attempts \in 0 .. MaxAttempts /\ row.attempts < MaxAttempts
  BY DEF Row, Leasable
<1>2. row.attempts + 1 \in 0 .. MaxAttempts
  BY <1>1, JobQueueAssumption DEF JobQueueAssumption
<1> QED
  BY <1>2 DEF LeasedRow, Row, JobStatus
-------------------------------------------------------------------------------
(* Type correctness.                                                        *)

(* The initial state is well-typed.                                         *)
LEMMA InitType == Init => TypeOK
<1> SUFFICES ASSUME Init PROVE TypeOK
  OBVIOUS
<1>1. job \in [Jobs -> Row]
  BY BlankRowType DEF Init
<1>2. calls \in [Calls -> Call]
  BY IdleCallType DEF Init
<1> QED
  BY <1>1, <1>2 DEF Init, TypeOK, IdleSweep, Sweep

(* Every step keeps the types.                                              *)
LEMMA NextType == TypeOK /\ [Next]_vars => TypeOK'
<1> SUFFICES ASSUME TypeOK, [Next]_vars PROVE TypeOK'
  OBVIOUS
<1> USE DEF TypeOK
<1>1. ASSUME NEW j \in Jobs, CreateJob(j) PROVE TypeOK'
  BY <1>1, BlankRowType DEF CreateJob, JobStatus
<1>2. ASSUME NEW j \in Jobs, DeleteJob(j) PROVE TypeOK'
  BY <1>2, BlankRowType DEF DeleteJob
<1>3. ASSUME NEW j \in Jobs, LeaseLapses(j) PROVE TypeOK'
  BY <1>3 DEF LeaseLapses, Row
<1>4. ASSUME NEW w \in Workers, NEW j \in Jobs, LeaseTo(w, j) PROVE TypeOK'
  <2>1. LeasedRow(job[j], w) \in Row
    BY <1>4, LeasedRowType DEF LeaseTo
  <2>2. job' \in [Jobs -> Row]
    BY <1>4, <2>1 DEF LeaseTo
  <2> QED
    BY <1>4, <2>2 DEF LeaseTo
<1>5. ASSUME NEW w \in Workers, Abandon(w) PROVE TypeOK'
  BY <1>5 DEF Abandon
<1>6. ASSUME NEW c \in Calls, NEW w \in Workers, NEW dto \in ReportStatus, ReportRead(c, w, dto)
      PROVE TypeOK'
  <2>1. working[w] \in Jobs
    BY <1>6 DEF ReportRead
  <2>2. SnapshotOf(job[working[w]]) \in Snapshot
    BY <2>1, SnapshotType
  <2>3. [step |-> "report", by |-> w, job |-> working[w], dto |-> dto,
         seen |-> SnapshotOf(job[working[w]])] \in Call
    BY <2>1, <2>2 DEF Call
  <2> QED
    BY <1>6, <2>3 DEF ReportRead
<1>7. ASSUME NEW c \in Calls, ReportCommit(c) PROVE TypeOK'
  <2>1. calls[c].job \in Jobs \cup {NoJob} /\ calls[c].seen \in Snapshot /\ calls[c].dto \in ReportStatus
    BY DEF Call
  <2>2. ASSUME calls[c].job \in Jobs
        PROVE  ReportedRow(job[calls[c].job], calls[c].seen, calls[c].by, calls[c].dto) \in Row
    BY <2>1, <2>2, ReportedRowType
  <2>3. job' \in [Jobs -> Row]
    BY <1>7, <2>1, <2>2 DEF ReportCommit
  <2> QED
    BY <1>7, <2>3, IdleCallType DEF ReportCommit
<1>8. ASSUME NEW c \in Calls, NEW op \in Requests \ {"delete"}, NEW j \in Jobs, AdminRead(c, op, j)
      PROVE TypeOK'
  <2>1. op \in {"cancel", "retry", "reclip"}
    BY JobQueueAssumption DEF JobQueueAssumption, RequestKinds
  <2>2. [IdleCall EXCEPT !.step = op, !.job = j, !.seen = SnapshotOf(job[j])] \in Call
    BY <2>1, SnapshotType, IdleCallType DEF Call
  <2> QED
    BY <1>8, <2>2 DEF AdminRead
<1>9. ASSUME NEW c \in Calls, AdminCommit(c) PROVE TypeOK'
  <2>1. job' \in [Jobs -> Row]
    <3>1. \A j \in Jobs : CancelledRow(job[j]) \in Row /\ RequeuedRow(job[j]) \in Row
      BY AdminRowType
    <3>2. \A j \in Jobs : job'[j] \in {job[j], CancelledRow(job[j]), RequeuedRow(job[j])}
      BY <1>9 DEF AdminCommit
    <3>3. \A j \in Jobs : job'[j] \in Row
      BY <3>1, <3>2
    <3>4. DOMAIN job' = Jobs /\ job' = [j \in DOMAIN job' |-> job'[j]]
      BY <1>9 DEF AdminCommit
    <3> QED
      BY <3>3, <3>4
  <2> QED
    BY <1>9, <2>1, IdleCallType DEF AdminCommit
<1>10. ASSUME NEW c \in Calls, CallFails(c) PROVE TypeOK'
  BY <1>10, IdleCallType DEF CallFails
<1>11. ASSUME NEW s \in Sweeps, SweepRelease(s) PROVE TypeOK'
  BY <1>11, AdminRowType DEF SweepRelease, Sweep
<1>12. ASSUME NEW s \in Sweeps, SweepSelect(s) PROVE TypeOK'
  BY <1>12 DEF SweepSelect, Sweep, IdleSweep
<1>13. ASSUME NEW s \in Sweeps, SweepFail(s) PROVE TypeOK'
  BY <1>13 DEF SweepFail, Sweep, IdleSweep, Row, JobStatus
<1>14. ASSUME NEW s \in Sweeps, SweepDies(s) PROVE TypeOK'
  BY <1>14 DEF SweepDies, Sweep, IdleSweep
<1>15. CASE UNCHANGED vars
  BY <1>15 DEF vars
<1> QED
  BY <1>1, <1>2, <1>3, <1>4, <1>5, <1>6, <1>7, <1>8, <1>9, <1>10, <1>11, <1>12, <1>13,
     <1>14, <1>15 DEF Next, CallNext, Lease, SweepStep

(* Rows, workers, handlers and sweeps keep their types; no job is leased    *)
(* more than maxAttempts times without a reset.                             *)
THEOREM TypeCorrect == Spec => []TypeOK
  BY InitType, NextType, PTL DEF Spec
-------------------------------------------------------------------------------
(* The claims in the table are consistent.                                  *)

(* The condition ClaimConsistent puts on one row.                           *)
ClaimOK(row) ==
  /\ row.status = "LEASED" => row.leasedBy # NoWorker
  /\ row.leasedBy # NoWorker => /\ row.lease # "none"
                                /\ row.attempts > 0
                                /\ row.status \in Leased \cup {"FAILED"}

(* A report keeps a row's claim consistent even when the row it decided on  *)
(* is not the row it writes: it ends a claim only together with its status, *)
(* and never sets leasedBy.                                                 *)
LEMMA ReportedRowClaim ==
  ASSUME NEW row \in Row, NEW seen \in Snapshot, NEW w, NEW dto \in ReportStatus, ClaimOK(row)
  PROVE  ClaimOK(ReportedRow(row, seen, w, dto))
  BY DEF ReportedRow, ReportedResult, WillRequeue, IsTerminal, Row, Snapshot, ReportStatus,
         JobStatus, ClaimOK, Leased

(* The other writes of rows.                                                *)
LEMMA OtherRowsClaim ==
  ASSUME NEW row \in Row, ClaimOK(row)
  PROVE  /\ ClaimOK(CancelledRow(row)) /\ ClaimOK(RequeuedRow(row)) /\ ClaimOK(ReleasedRow(row))
         /\ ClaimOK([row EXCEPT !.lease = "lapsed"]) /\ ClaimOK([row EXCEPT !.status = "FAILED"])
         /\ \A w \in Workers : ClaimOK(LeasedRow(row, w))
         /\ \A status \in {"NEW", "PENDING", "DELETED"} : ClaimOK(BlankRow(status))
<1>1. ClaimOK(CancelledRow(row)) /\ ClaimOK(RequeuedRow(row)) /\ ClaimOK(ReleasedRow(row))
  BY DEF ClaimOK, CancelledRow, RequeuedRow, ReleasedRow, Row
<1>2. ClaimOK([row EXCEPT !.lease = "lapsed"]) /\ ClaimOK([row EXCEPT !.status = "FAILED"])
  BY DEF ClaimOK, Row, Leased
<1>3. ASSUME NEW w \in Workers PROVE ClaimOK(LeasedRow(row, w))
  <2>1. row.attempts \in 0 .. MaxAttempts
    BY DEF Row
  <2>2. row.attempts + 1 > 0
    BY <2>1, JobQueueAssumption DEF JobQueueAssumption
  <2> QED
    BY <2>2, JobQueueAssumption DEF JobQueueAssumption, ClaimOK, LeasedRow, Row, Leased
<1>4. ASSUME NEW status \in {"NEW", "PENDING", "DELETED"} PROVE ClaimOK(BlankRow(status))
  BY DEF ClaimOK, BlankRow
<1> QED
  BY <1>1, <1>2, <1>3, <1>4

(* Nothing is claimed at first.                                             *)
LEMMA InitClaim == Init => ClaimConsistent
  BY DEF Init, ClaimConsistent, BlankRow

(* Every step keeps the claims consistent, row by row.                      *)
LEMMA NextClaim == TypeOK /\ ClaimConsistent /\ [Next]_vars => ClaimConsistent'
<1> SUFFICES ASSUME TypeOK, ClaimConsistent, [Next]_vars, NEW j \in Jobs
             PROVE  ClaimOK(job'[j])
  BY DEF ClaimConsistent, ClaimOK
<1>0. job \in [Jobs -> Row] /\ job[j] \in Row /\ ClaimOK(job[j])
  BY DEF TypeOK, ClaimConsistent, ClaimOK
<1>1. ASSUME NEW k \in Jobs, CreateJob(k) \/ DeleteJob(k) PROVE ClaimOK(job'[j])
  BY <1>0, <1>1, OtherRowsClaim DEF CreateJob, DeleteJob
<1>2. ASSUME NEW k \in Jobs, LeaseLapses(k) PROVE ClaimOK(job'[j])
  BY <1>0, <1>2, OtherRowsClaim DEF LeaseLapses
<1>3. ASSUME NEW w \in Workers, NEW k \in Jobs, LeaseTo(w, k) PROVE ClaimOK(job'[j])
  BY <1>0, <1>3, OtherRowsClaim DEF LeaseTo
<1>4. ASSUME NEW c \in Calls, ReportCommit(c) PROVE ClaimOK(job'[j])
  <2>1. calls[c].seen \in Snapshot /\ calls[c].dto \in ReportStatus
    BY DEF TypeOK, Call
  <2>2. ClaimOK(ReportedRow(job[j], calls[c].seen, calls[c].by, calls[c].dto))
    BY <1>0, <2>1, ReportedRowClaim
  <2> QED
    BY <1>0, <1>4, <2>2 DEF ReportCommit
<1>5. ASSUME NEW c \in Calls, AdminCommit(c) PROVE ClaimOK(job'[j])
  BY <1>0, <1>5, OtherRowsClaim DEF AdminCommit
<1>6. ASSUME NEW s \in Sweeps, SweepRelease(s) \/ SweepFail(s) PROVE ClaimOK(job'[j])
  BY <1>0, <1>6, OtherRowsClaim DEF SweepRelease, SweepFail
<1>7. ASSUME UNCHANGED job PROVE ClaimOK(job'[j])
  BY <1>0, <1>7
<1> QED
  BY <1>1, <1>2, <1>3, <1>4, <1>5, <1>6, <1>7
  DEF Next, CallNext, Lease, SweepStep, vars, Abandon, ReportRead, AdminRead, CallFails,
      SweepSelect, SweepDies

(* No interleaving leaves a LEASED row nobody can reclaim, or a queued,     *)
(* completed or cancelled row that is still claimed.                        *)
THEOREM ClaimsConsistent == Spec => []ClaimConsistent
<1>1. Init => TypeOK /\ ClaimConsistent
  BY InitType, InitClaim
<1>2. (TypeOK /\ ClaimConsistent) /\ [Next]_vars => (TypeOK /\ ClaimConsistent)'
  BY NextType, NextClaim
<1> QED
  BY <1>1, <1>2, PTL DEF Spec
-------------------------------------------------------------------------------
(* Handlers write only what they were admitted for.                         *)

(* No handler is in flight at first.                                        *)
LEMMA InitAdmitted == Init => CallsAdmitted
  BY DEF Init, CallsAdmitted, IdleCall

(* A handler enters its slot with the checks passed on what it read.        *)
LEMMA NextAdmitted == TypeOK /\ CallsAdmitted /\ [Next]_vars => CallsAdmitted'
<1> DEFINE Admitted(call) ==
             /\ call.step = "report" => call.by \in Workers /\ MayReport(call.seen, call.by)
             /\ call.step \in {"cancel", "retry", "reclip"} => Accepts(call.step, call.seen.status)
<1> SUFFICES ASSUME TypeOK, CallsAdmitted, [Next]_vars, NEW d \in Calls
             PROVE  Admitted(calls'[d])
  BY DEF CallsAdmitted
<1>0. calls \in [Calls -> Call] /\ Admitted(calls[d]) /\ Admitted(IdleCall)
  BY DEF TypeOK, CallsAdmitted, IdleCall
<1>1. ASSUME NEW c \in Calls, NEW w \in Workers, NEW dto \in ReportStatus, ReportRead(c, w, dto)
      PROVE  Admitted(calls'[d])
  <2>1. MayReport(SnapshotOf(job[working[w]]), w)
    BY <1>1 DEF ReportRead, MayReport, SnapshotOf
  <2> QED
    BY <1>0, <1>1, <2>1 DEF ReportRead
<1>2. ASSUME NEW c \in Calls, NEW op \in Requests \ {"delete"}, NEW j \in Jobs, AdminRead(c, op, j)
      PROVE  Admitted(calls'[d])
  <2> DEFINE new == [IdleCall EXCEPT !.step = op, !.job = j, !.seen = SnapshotOf(job[j])]
  <2>1. new.step = op /\ new.seen.status = job[j].status
    BY DEF IdleCall, SnapshotOf
  <2>2. Accepts(op, job[j].status) /\ op # "report"
    BY <1>2, JobQueueAssumption DEF AdminRead, JobQueueAssumption, RequestKinds
  <2>3. Admitted(new)
    BY <2>1, <2>2
  <2> QED
    BY <1>0, <1>2, <2>3 DEF AdminRead
<1>3. ASSUME NEW c \in Calls, ReportCommit(c) \/ AdminCommit(c) \/ CallFails(c)
      PROVE  Admitted(calls'[d])
  BY <1>0, <1>3 DEF ReportCommit, AdminCommit, CallFails
<1>4. ASSUME UNCHANGED calls PROVE Admitted(calls'[d])
  BY <1>0, <1>4
<1> QED
  BY <1>1, <1>2, <1>3, <1>4
  DEF Next, CallNext, Lease, LeaseTo, SweepStep, vars, CreateJob, DeleteJob, LeaseLapses, Abandon,
      SweepRelease, SweepSelect, SweepFail, SweepDies

(* The inductive invariant holds in every reachable state.                  *)
LEMMA InvariantHolds == Spec => []IInv
<1>1. Init => IInv
  BY InitType, InitClaim, InitAdmitted DEF IInv
<1>2. IInv /\ [Next]_vars => IInv'
  BY NextType, NextClaim, NextAdmitted DEF IInv
<1> QED
  BY <1>1, <1>2, PTL DEF Spec
-------------------------------------------------------------------------------
(* A live claim is not disturbed.                                           *)

(* A fresh report on a job another worker holds is impossible: the handler  *)
(* was admitted as the holder it read, and that holder is still the one.    *)
LEMMA FreshReportIsHolders ==
  ASSUME IInv, NEW c \in Calls, calls[c].step = "report", ~Stale(c),
         NEW w \in Workers, calls[c].job \in Jobs, Held(calls[c].job, w)
  PROVE  calls[c].by = w
<1>1. calls[c].seen = SnapshotOf(job[calls[c].job])
  BY DEF Stale
<1>2. MayReport(calls[c].seen, calls[c].by)
  BY DEF IInv, CallsAdmitted
<1> QED
  BY <1>1, <1>2 DEF MayReport, SnapshotOf, Held, Leased

(* A fresh retry or reclip finds the job as terminal as it read it.         *)
LEMMA FreshRequeueIsTerminal ==
  ASSUME IInv, NEW c \in Calls, calls[c].step \in {"retry", "reclip"}, ~Stale(c),
         calls[c].job \in Jobs
  PROVE  job[calls[c].job].status \in Terminal
<1>1. calls[c].seen.status = job[calls[c].job].status
  BY DEF Stale, SnapshotOf
<1>2. Accepts(calls[c].step, calls[c].seen.status)
  BY DEF IInv, CallsAdmitted
<1> QED
  BY <1>1, <1>2 DEF Accepts, Terminal

(* Which steps can take a job from a worker whose lease is live.            *)
LEMMA NextHolder ==
  ASSUME IInv, [Next]_vars, NEW j \in Jobs, NEW w \in Workers, Held(j, w),
         ~(job'[j].status \in Leased /\ job'[j].leasedBy = w)
  PROVE  \/ job'[j].status = "DELETED"
         \/ UncheckedWrite(j)
         \/ \E c \in Calls : WritesBy(c, j) /\ (calls[c].step = "cancel" \/ calls[c].by = w)
<1> DEFINE Goal == \/ job'[j].status = "DELETED"
                   \/ UncheckedWrite(j)
                   \/ \E c \in Calls : WritesBy(c, j) /\ (calls[c].step = "cancel" \/ calls[c].by = w)
<1> SUFFICES Goal
  OBVIOUS
<1>0. job \in [Jobs -> Row] /\ job[j] \in Row /\ job' # job
  BY DEF IInv, TypeOK, Held
<1>1. ASSUME NEW k \in Jobs, CreateJob(k) \/ DeleteJob(k) PROVE Goal
  BY <1>0, <1>1 DEF CreateJob, DeleteJob, BlankRow, Held, Leased
<1>2. ASSUME NEW k \in Jobs, LeaseLapses(k) PROVE Goal
  BY <1>0, <1>2 DEF LeaseLapses, Held, Row
<1>3. ASSUME NEW v \in Workers, NEW k \in Jobs, LeaseTo(v, k) PROVE Goal
  BY <1>0, <1>3 DEF LeaseTo, Leasable, Held, Leased
<1>4. ASSUME NEW c \in Calls, ReportCommit(c) PROVE Goal
  <2>1. calls[c].job = j /\ calls[c].step = "report" /\ WritesBy(c, j)
    BY <1>0, <1>4 DEF ReportCommit, WritesBy, Writing, Held, TypeOK, IInv
  <2>2. CASE Stale(c)
    BY <2>1, <2>2 DEF UncheckedWrite
  <2>3. CASE ~Stale(c)
    BY <2>1, <2>3, FreshReportIsHolders
  <2> QED
    BY <2>2, <2>3
<1>5. ASSUME NEW c \in Calls, AdminCommit(c) PROVE Goal
  <2>1. calls[c].job = j /\ calls[c].step \in {"cancel", "retry", "reclip"} /\ WritesBy(c, j)
    BY <1>0, <1>5 DEF AdminCommit, WritesBy, Writing, Held, TypeOK, IInv
  <2>2. CASE Stale(c)
    BY <2>1, <2>2 DEF UncheckedWrite
  <2>3. CASE ~Stale(c)
    <3>1. job[j].status \notin Terminal
      BY DEF Held, Leased, Terminal
    <3> QED
      BY <2>1, <2>3, <3>1, FreshRequeueIsTerminal
  <2> QED
    BY <2>2, <2>3
<1>6. ASSUME NEW s \in Sweeps, SweepRelease(s) PROVE Goal
  BY <1>0, <1>6 DEF SweepRelease, Expired, Held
<1>7. ASSUME NEW s \in Sweeps, SweepFail(s) PROVE Goal
  <2>1. j \in sweeps[s].ids
    BY <1>0, <1>7 DEF SweepFail, Held
  <2>2. sweeps'[s] = IdleSweep
    BY <1>7 DEF SweepFail, IInv, TypeOK
  <2> QED
    BY <2>1, <2>2 DEF UncheckedWrite
<1> QED
  BY <1>0, <1>1, <1>2, <1>3, <1>4, <1>5, <1>6, <1>7
  DEF Next, CallNext, Lease, SweepStep, vars, Abandon, ReportRead, AdminRead, CallFails,
      SweepSelect, SweepDies

(* While its lease is live, a worker loses its job only by its own report,  *)
(* a cancel, deletion, or a write decided on a row that has changed since.  *)
THEOREM LiveClaimUndisturbed == Spec => HolderUndisturbed
<1>1. IInv /\ [Next]_vars
        => [\A j \in Jobs, w \in Workers :
              Held(j, w) /\ ~(job'[j].status \in Leased /\ job'[j].leasedBy = w)
              => \/ job'[j].status = "DELETED"
                 \/ UncheckedWrite(j)
                 \/ \E c \in Calls : /\ WritesBy(c, j)
                                     /\ calls[c].step = "cancel" \/ calls[c].by = w]_vars
  BY NextHolder
<1> QED
  BY <1>1, InvariantHolds, PTL DEF Spec, HolderUndisturbed
-------------------------------------------------------------------------------
(* A cancel is not undone by the worker it stopped.                         *)

(* Which steps can take a job out of CANCELLED.                             *)
LEMMA NextCancelled ==
  ASSUME IInv, [Next]_vars, NEW j \in Jobs, job[j].status = "CANCELLED",
         job'[j].status \notin {"CANCELLED", "DELETED"}
  PROVE  \/ UncheckedWrite(j)
         \/ \E c \in Calls : WritesBy(c, j) /\ calls[c].step \in {"retry", "reclip"}
<1> DEFINE Goal == \/ UncheckedWrite(j)
                   \/ \E c \in Calls : WritesBy(c, j) /\ calls[c].step \in {"retry", "reclip"}
<1> SUFFICES Goal
  OBVIOUS
<1>0. job \in [Jobs -> Row] /\ job[j] \in Row /\ job' # job /\ job[j].leasedBy = NoWorker
  BY DEF IInv, TypeOK, ClaimConsistent, Leased
<1>1. ASSUME NEW k \in Jobs, CreateJob(k) \/ DeleteJob(k) \/ LeaseLapses(k) PROVE Goal
  BY <1>0, <1>1 DEF CreateJob, DeleteJob, LeaseLapses, BlankRow, Row
<1>2. ASSUME NEW v \in Workers, NEW k \in Jobs, LeaseTo(v, k) PROVE Goal
  BY <1>0, <1>2 DEF LeaseTo, Leasable, Leased
<1>3. ASSUME NEW c \in Calls, ReportCommit(c) PROVE Goal
  <2>1. calls[c].job = j /\ calls[c].step = "report" /\ WritesBy(c, j)
    BY <1>0, <1>3 DEF ReportCommit, WritesBy, Writing, TypeOK, IInv
  <2>2. CASE Stale(c)
    BY <2>1, <2>2 DEF UncheckedWrite
  <2>3. CASE ~Stale(c)
    <3>1. calls[c].seen.status = "CANCELLED" /\ calls[c].seen.leasedBy = NoWorker
      BY <1>0, <2>1, <2>3 DEF Stale, SnapshotOf
    <3>2. calls[c].by \in Workers /\ MayReport(calls[c].seen, calls[c].by)
      BY <2>1 DEF IInv, CallsAdmitted
    <3> QED
      BY <3>1, <3>2, JobQueueAssumption DEF JobQueueAssumption, MayReport
  <2> QED
    BY <2>2, <2>3
<1>4. ASSUME NEW c \in Calls, AdminCommit(c) PROVE Goal
  <2>1. calls[c].job = j /\ calls[c].step \in {"cancel", "retry", "reclip"} /\ WritesBy(c, j)
    BY <1>0, <1>4 DEF AdminCommit, WritesBy, Writing, TypeOK, IInv
  <2>2. calls[c].step # "cancel"
    BY <1>0, <1>4, <2>1 DEF AdminCommit, CancelledRow, Row
  <2> QED
    BY <2>1, <2>2
<1>5. ASSUME NEW s \in Sweeps, SweepRelease(s) PROVE Goal
  BY <1>0, <1>5 DEF SweepRelease, Expired, Leased
<1>6. ASSUME NEW s \in Sweeps, SweepFail(s) PROVE Goal
  <2>1. j \in sweeps[s].ids
    BY <1>0, <1>6 DEF SweepFail
  <2>2. sweeps'[s] = IdleSweep
    BY <1>6 DEF SweepFail, IInv, TypeOK
  <2> QED
    BY <2>1, <2>2 DEF UncheckedWrite
<1> QED
  BY <1>0, <1>1, <1>2, <1>3, <1>4, <1>5, <1>6
  DEF Next, CallNext, Lease, SweepStep, vars, Abandon, ReportRead, AdminRead, CallFails,
      SweepSelect, SweepDies

(* Only a retry, a reclip, deletion or a write decided before the cancel    *)
(* takes a job out of CANCELLED.                                            *)
THEOREM CancelHolds == Spec => CancelSticks
<1>1. IInv /\ [Next]_vars
        => [\A j \in Jobs :
              job[j].status = "CANCELLED" /\ job'[j].status \notin {"CANCELLED", "DELETED"}
              => \/ UncheckedWrite(j)
                 \/ \E c \in Calls : WritesBy(c, j) /\ calls[c].step \in {"retry", "reclip"}]_vars
  BY NextCancelled
<1> QED
  BY <1>1, InvariantHolds, PTL DEF Spec, CancelSticks
-------------------------------------------------------------------------------
(* A row that was never created has no result.                             *)
NewRowsBlank == \A j \in Jobs : job[j].status = "NEW" => ~job[j].result

LEMMA NextNewRows == TypeOK /\ NewRowsBlank /\ [Next]_vars => NewRowsBlank'
<1> SUFFICES ASSUME TypeOK, NewRowsBlank, [Next]_vars, NEW j \in Jobs, job'[j].status = "NEW"
             PROVE  job[j].status = "NEW" /\ job'[j].result = job[j].result
  BY DEF NewRowsBlank
<1>0. job \in [Jobs -> Row] /\ job[j] \in Row
  BY DEF TypeOK
<1>1. ASSUME NEW k \in Jobs, CreateJob(k) \/ DeleteJob(k) \/ LeaseLapses(k)
      PROVE  job[j].status = "NEW" /\ job'[j].result = job[j].result
  BY <1>0, <1>1 DEF CreateJob, DeleteJob, LeaseLapses, BlankRow, Row
<1>2. ASSUME NEW v \in Workers, NEW k \in Jobs, LeaseTo(v, k)
      PROVE  job[j].status = "NEW" /\ job'[j].result = job[j].result
  BY <1>0, <1>2 DEF LeaseTo, LeasedRow, Row
<1>3. ASSUME NEW c \in Calls, ReportCommit(c)
      PROVE  job[j].status = "NEW" /\ job'[j].result = job[j].result
  <2>1. calls[c].dto \in ReportStatus
    BY DEF TypeOK, Call
  <2> QED
    BY <1>0, <1>3, <2>1 DEF ReportCommit, ReportedRow, Row, ReportStatus, Exists, JobStatus
<1>4. ASSUME NEW c \in Calls, AdminCommit(c)
      PROVE  job[j].status = "NEW" /\ job'[j].result = job[j].result
  BY <1>0, <1>4 DEF AdminCommit, CancelledRow, RequeuedRow, Row
<1>5. ASSUME NEW s \in Sweeps, SweepRelease(s)
      PROVE  job[j].status = "NEW" /\ job'[j].result = job[j].result
  BY <1>0, <1>5 DEF SweepRelease, ReleasedRow, Row
<1>6. ASSUME NEW s \in Sweeps, SweepFail(s)
      PROVE  job[j].status = "NEW" /\ job'[j].result = job[j].result
  BY <1>0, <1>6 DEF SweepFail, Row
<1> QED
  BY <1>1, <1>2, <1>3, <1>4, <1>5, <1>6
  DEF Next, CallNext, Lease, SweepStep, vars, Abandon, ReportRead, AdminRead, CallFails,
      SweepSelect, SweepDies

(* Which steps lose a stored result.                                       *)
LEMMA NextResult ==
  ASSUME IInv, NewRowsBlank, [Next]_vars, NEW j \in Jobs, job[j].result, ~job'[j].result
  PROVE  job'[j].status = "DELETED" \/ UncheckedWrite(j)
<1> DEFINE Goal == job'[j].status = "DELETED" \/ UncheckedWrite(j)
<1> SUFFICES Goal
  OBVIOUS
<1>0. job \in [Jobs -> Row] /\ job[j] \in Row /\ job' # job /\ job[j].status # "NEW"
  BY DEF IInv, TypeOK, NewRowsBlank
<1>1. ASSUME NEW k \in Jobs, CreateJob(k) \/ DeleteJob(k) \/ LeaseLapses(k) PROVE Goal
  BY <1>0, <1>1 DEF CreateJob, DeleteJob, LeaseLapses, BlankRow, Row
<1>2. ASSUME NEW v \in Workers, NEW k \in Jobs, LeaseTo(v, k) PROVE Goal
  BY <1>0, <1>2 DEF LeaseTo, LeasedRow, Row
<1>3. ASSUME NEW c \in Calls, ReportCommit(c) PROVE Goal
  <2>1. calls[c].job = j /\ WritesBy(c, j)
    BY <1>0, <1>3 DEF ReportCommit, WritesBy, Writing, TypeOK, IInv
  <2>2. ~ReportedResult(calls[c].seen, calls[c].dto)
    BY <1>0, <1>3, <2>1 DEF ReportCommit, ReportedRow, Row
  <2>3. calls[c].seen # SnapshotOf(job[j])
    BY <2>2 DEF ReportedResult, SnapshotOf
  <2> QED
    BY <2>1, <2>3 DEF UncheckedWrite, Stale
<1>4. ASSUME NEW c \in Calls, AdminCommit(c) PROVE Goal
  BY <1>0, <1>4 DEF AdminCommit, CancelledRow, RequeuedRow, Row
<1>5. ASSUME NEW s \in Sweeps, SweepRelease(s) PROVE Goal
  BY <1>0, <1>5 DEF SweepRelease, ReleasedRow, Row
<1>6. ASSUME NEW s \in Sweeps, SweepFail(s) PROVE Goal
  BY <1>0, <1>6 DEF SweepFail, Row
<1> QED
  BY <1>0, <1>1, <1>2, <1>3, <1>4, <1>5, <1>6
  DEF Next, CallNext, Lease, SweepStep, vars, Abandon, ReportRead, AdminRead, CallFails,
      SweepSelect, SweepDies

(* A stored result is lost only by deletion or by a report that read the    *)
(* row before it was stored.                                               *)
THEOREM ResultsKept == Spec => ResultKept
<1>1. Init => NewRowsBlank
  BY DEF Init, NewRowsBlank, BlankRow
<1>2. IInv /\ NewRowsBlank /\ [Next]_vars => NewRowsBlank'
  BY NextNewRows DEF IInv
<1>3. IInv /\ NewRowsBlank /\ [Next]_vars
        => [\A j \in Jobs :
              job[j].result /\ ~job'[j].result
              => job'[j].status = "DELETED" \/ UncheckedWrite(j)]_vars
  BY NextResult
<1> QED
  BY <1>1, <1>2, <1>3, InvariantHolds, PTL DEF Spec, ResultKept
-------------------------------------------------------------------------------
(* The table implements the abstract lease.                                 *)

(* Initial states map to initial states.                                    *)
LEMMA InitImplements == Init => Lease0!Init
  BY DEF Init, Lease0!Init, BlankRow

(* How a row maps to the abstract claim.                                    *)
ClaimOf(row) == IF row.leasedBy # NoWorker /\ row.lease = "live" THEN "live" ELSE "over"

(* One row is written and loses its holder: a release.                      *)
LEMMA WriteRelease ==
  ASSUME job \in [Jobs -> Row], NEW k \in Jobs, NEW new, job' = [job EXCEPT ![k] = new],
         new.leasedBy = NoWorker, new.attempts = job[k].attempts
  PROVE  Lease0!Next
<1>1. {k} \in SUBSET Jobs
  OBVIOUS
<1>2. Lease0!Release({k})
  BY DEF Lease0!Release
<1> QED
  BY <1>1, <1>2 DEF Lease0!Next

(* One row is written with no holder and no attempts: a reset.              *)
LEMMA WriteReset ==
  ASSUME job \in [Jobs -> Row], NEW k \in Jobs, NEW new, job' = [job EXCEPT ![k] = new],
         new.leasedBy = NoWorker, new.attempts = 0
  PROVE  Lease0!Next
<1>1. Lease0!Reset(k)
  BY DEF Lease0!Reset
<1> QED
  BY <1>1 DEF Lease0!Next

(* One row is written, still held, with a fresh expiry: a renewal.          *)
LEMMA WriteRenew ==
  ASSUME job \in [Jobs -> Row], NEW k \in Jobs, NEW new, job' = [job EXCEPT ![k] = new],
         new.leasedBy = job[k].leasedBy, new.leasedBy # NoWorker, new.lease = "live",
         new.attempts = job[k].attempts
  PROVE  Lease0!Next
<1>1. Lease0!Renew(k)
  BY DEF Lease0!Renew
<1> QED
  BY <1>1 DEF Lease0!Next

(* Every step maps to an abstract step or to a stutter.                     *)
LEMMA StepImplements == IInv /\ [Next]_vars => [Lease0!Next]_(Lease0!leaseVars)
<1> SUFFICES ASSUME IInv, [Next]_vars PROVE Lease0!Next \/ UNCHANGED Lease0!leaseVars
  OBVIOUS
<1>0. job \in [Jobs -> Row]
  BY DEF IInv, TypeOK
<1>1. ASSUME NEW k \in Jobs, CreateJob(k) PROVE Lease0!Next
  <2>1. job' = [job EXCEPT ![k] = BlankRow("PENDING")]
    BY <1>1 DEF CreateJob
  <2>2. BlankRow("PENDING").leasedBy = NoWorker /\ BlankRow("PENDING").attempts = 0
    BY DEF BlankRow
  <2> QED
    BY <1>0, <2>1, <2>2, WriteReset
<1>2. ASSUME NEW k \in Jobs, DeleteJob(k) PROVE Lease0!Next
  <2>1. job' = [job EXCEPT ![k] = BlankRow("DELETED")]
    BY <1>2 DEF DeleteJob
  <2>2. BlankRow("DELETED").leasedBy = NoWorker /\ BlankRow("DELETED").attempts = 0
    BY DEF BlankRow
  <2> QED
    BY <1>0, <2>1, <2>2, WriteReset
<1>3. ASSUME NEW k \in Jobs, LeaseLapses(k) PROVE Lease0!Next
  <2>1. Lease0!Expire(k)
    BY <1>0, <1>3 DEF LeaseLapses, Lease0!Expire, Row
  <2> QED
    BY <2>1 DEF Lease0!Next
<1>4. ASSUME NEW w \in Workers, NEW k \in Jobs, LeaseTo(w, k) PROVE Lease0!Next
  <2>1. ~(job[k].leasedBy # NoWorker /\ job[k].lease = "live") /\ job[k].attempts < MaxAttempts
    BY <1>0, <1>4 DEF LeaseTo, Leasable, Leased, IInv, ClaimConsistent
  <2>2. Lease0!Claim(w, k)
    BY <1>0, <1>4, <2>1, JobQueueAssumption
    DEF JobQueueAssumption, LeaseTo, LeasedRow, Lease0!Claim, Row
  <2> QED
    BY <2>2 DEF Lease0!Next
<1>5. ASSUME NEW c \in Calls, ReportCommit(c) PROVE Lease0!Next \/ UNCHANGED Lease0!leaseVars
  <2>1. CASE UNCHANGED job
    BY <2>1 DEF Lease0!leaseVars
  <2>2. CASE calls[c].job \in Jobs
    <3>1. PICK k \in Jobs : k = calls[c].job
      BY <2>2
    <3>2. PICK new : new = ReportedRow(job[k], calls[c].seen, calls[c].by, calls[c].dto)
      OBVIOUS
    <3>3. job' = [job EXCEPT ![k] = new]
      BY <1>5, <3>1, <3>2 DEF ReportCommit
    <3>4. /\ new.attempts = job[k].attempts
          /\ \/ new.leasedBy = NoWorker
             \/ new.leasedBy = job[k].leasedBy /\ new.lease = "live"
             \/ new.leasedBy = job[k].leasedBy /\ new.lease = job[k].lease
      BY <1>0, <3>2 DEF ReportedRow, Row
    <3>5. CASE new.leasedBy = NoWorker
      BY <1>0, <3>3, <3>4, <3>5, WriteRelease
    <3>6. CASE new.leasedBy # NoWorker /\ new.leasedBy = job[k].leasedBy /\ new.lease = "live"
      BY <1>0, <3>3, <3>4, <3>6, WriteRenew
    <3>7. CASE new.leasedBy = job[k].leasedBy /\ new.lease = job[k].lease
      BY <1>0, <3>3, <3>4, <3>7 DEF Lease0!leaseVars
    <3> QED
      BY <3>4, <3>5, <3>6, <3>7
  <2> QED
    BY <1>0, <1>5, <2>1, <2>2 DEF ReportCommit
<1>6. ASSUME NEW c \in Calls, AdminCommit(c) PROVE Lease0!Next \/ UNCHANGED Lease0!leaseVars
  <2>1. CASE UNCHANGED job
    BY <2>1 DEF Lease0!leaseVars
  <2>2. CASE calls[c].job \in Jobs
    <3>1. PICK k \in Jobs : k = calls[c].job
      BY <2>2
    <3>2. CASE calls[c].step = "cancel"
      <4>1. job' = [job EXCEPT ![k] = CancelledRow(job[k])]
        BY <1>6, <3>1, <3>2 DEF AdminCommit
      <4>2. /\ CancelledRow(job[k]).leasedBy = NoWorker
            /\ CancelledRow(job[k]).attempts = job[k].attempts
        BY <1>0 DEF CancelledRow, Row
      <4> QED
        BY <1>0, <4>1, <4>2, WriteRelease
    <3>3. CASE calls[c].step # "cancel"
      <4>1. job' = [job EXCEPT ![k] = RequeuedRow(job[k])]
        BY <1>6, <3>1, <3>3 DEF AdminCommit
      <4>2. RequeuedRow(job[k]).leasedBy = NoWorker /\ RequeuedRow(job[k]).attempts = 0
        BY <1>0 DEF RequeuedRow, Row
      <4> QED
        BY <1>0, <4>1, <4>2, WriteReset
    <3> QED
      BY <3>2, <3>3
  <2> QED
    BY <1>0, <1>6, <2>1, <2>2 DEF AdminCommit
<1>7. ASSUME NEW s \in Sweeps, SweepRelease(s) PROVE Lease0!Next
  <2>1. PICK S \in SUBSET Jobs : S = {k \in Jobs : Expired(job[k])}
    OBVIOUS
  <2>2. \A k \in Jobs : /\ k \in S => job'[k] = ReleasedRow(job[k])
                        /\ k \notin S => job'[k] = job[k]
    BY <1>7, <2>1 DEF SweepRelease
  <2>3. ASSUME NEW k \in Jobs
        PROVE  /\ job'[k].leasedBy = IF k \in S THEN NoWorker ELSE job[k].leasedBy
               /\ ClaimOf(job'[k]) = IF k \in S THEN "over" ELSE ClaimOf(job[k])
               /\ job'[k].attempts = job[k].attempts
    <3>1. job[k] \in Row
      BY <1>0
    <3>2. ReleasedRow(job[k]).leasedBy = NoWorker /\ ReleasedRow(job[k]).attempts = job[k].attempts
      BY <3>1 DEF ReleasedRow, Row
    <3>3. ClaimOf(ReleasedRow(job[k])) = "over"
      BY <3>2 DEF ClaimOf
    <3> QED
      BY <2>2, <3>2, <3>3
  <2>4. Lease0!Release(S)
    BY <2>3 DEF Lease0!Release, ClaimOf
  <2> QED
    BY <2>4 DEF Lease0!Next
<1>8. ASSUME NEW s \in Sweeps, SweepFail(s) PROVE UNCHANGED Lease0!leaseVars
  BY <1>0, <1>8 DEF SweepFail, Lease0!leaseVars, Row
<1>9. ASSUME UNCHANGED job PROVE UNCHANGED Lease0!leaseVars
  BY <1>9 DEF Lease0!leaseVars
<1> QED
  BY <1>1, <1>2, <1>3, <1>4, <1>5, <1>6, <1>7, <1>8, <1>9
  DEF Next, CallNext, Lease, SweepStep, vars, Abandon, ReportRead, AdminRead, CallFails,
      SweepSelect, SweepDies

(* Every behaviour of the queue is a behaviour of the abstract lease: one   *)
(* holder, no live claim taken over, one attempt per claim, at most         *)
(* MaxAttempts claims between resets.                                       *)
THEOREM QueueImplementsLease == Spec => ImplementsLease
<1>1. Init => Lease0!Init
  BY InitImplements
<1>2. IInv /\ [Next]_vars => [Lease0!Next]_(Lease0!leaseVars)
  BY StepImplements
<1> QED
  BY <1>1, <1>2, InvariantHolds, PTL DEF Spec, Lease0!Spec, ImplementsLease
-------------------------------------------------------------------------------
(* The queue with its enqueues (SharedQueue).                              *)

GameProofs == INSTANCE EnqueueProofs
                WITH row <- [j \in Jobs |-> [status |-> Seen(j), trusted |-> trusted[j]]],
                     leases <- [w \in Workers |-> Reading(w)],
                     calls <- asks,
                     Calls <- Enqueues,
                     Leases <- Workers

(* A worker, or a report, has a list that was read of its job: since then   *)
(* the lists that are read of the job have only grown, races aside.        *)
WasGiven(j, list) ==
  /\ list # {} /\ j \in Jobs /\ job[j].status # "NEW"
  /\ Exists(j) => given[j] # {} /\ (j \notin raced => list \subseteq given[j])

ListsKept ==
  /\ \A w \in Workers : /\ working[w] = NoJob => render[w] = {}
                        /\ render[w] # {} => WasGiven(working[w], render[w])
  /\ \A c \in Calls : calls[c].step = "report" => WasGiven(calls[c].job, carried[c])
  /\ \A j \in Jobs : /\ ~Exists(j) => given[j] = {}
                     /\ Exists(j) /\ j \notin raced => given[j] \subseteq trusted[j]

(* The stored result was rendered for the payload.                         *)
ServedPayload == \A j \in Jobs \ raced : job[j].status = "COMPLETED" => served[j] = trusted[j]

ListTypes == /\ trusted \in [Jobs -> SUBSET Players]
             /\ render \in [Workers -> SUBSET Players]
             /\ carried \in [Calls -> SUBSET Players]
             /\ served \in [Jobs -> SUBSET Players]
             /\ handed \subseteq Jobs

(* What the lists are for.                                                 *)
ListsServe == ListsKept /\ HolderRendersPayload /\ ServedPayload

SharedInv == IInv /\ GameProofs!IInv /\ ListTypes /\ ListsServe
-------------------------------------------------------------------------------
(* The constants of the queue are as the enqueues assume.                  *)
LEMMA GameAssumption == GameProofs!EnqueueAssumption
BY JobQueueAssumption, SharedQueueAssumption
DEF JobQueueAssumption, SharedQueueAssumption, GameProofs!EnqueueAssumption

(* No worker and no job are what they say.                                 *)
LEMMA SharedNull == NoWorker \notin Workers /\ NoJob \notin Jobs
BY JobQueueAssumption DEF JobQueueAssumption

(* Every step of the whole is a step of the queue, or leaves it alone.      *)
LEMMA QueueSteps == [SharedNext]_sharedVars => [Next]_vars
<1>1. ASSUME NEW c \in Calls, NEW op \in Requests \cap {"cancel", "retry"}, NEW j \in Jobs,
             AdminRead(c, op, j)
      PROVE  Next
  BY <1>1 DEF Next, CallNext
<1>2. Administer => Next
  BY <1>1 DEF Administer, Next, CallNext
<1>3. ASSUME NEW a \in Enqueues, Ask(a) \/ Merge(a) \/ CreateFor(a)
      PROVE  [Next]_vars
  BY <1>3 DEF Ask, Merge, CreateFor, Next
<1>4. ASSUME NEW w \in Workers, (\E j \in Jobs : Claim(w, j)) \/ HandOut(w) \/ Forget(w)
      PROVE  [Next]_vars
  BY <1>4 DEF Claim, HandOut, Forget, Next, Lease
<1>5. ASSUME NEW c \in Calls, NEW w \in Workers, NEW dto \in ReportStatus, Send(c, w, dto)
      PROVE  Next
  BY <1>5 DEF Send, Next, CallNext
<1>6. ASSUME NEW c \in Calls, Store(c) \/ Drop(c)
      PROVE  Next
  BY <1>6 DEF Store, Drop, Next, CallNext
<1>7. ASSUME NEW j \in Jobs, Remove(j)
      PROVE  Next
  BY <1>7 DEF Remove, Next
<1>8. CASE UNCHANGED sharedVars
  BY <1>8 DEF sharedVars
<1> QED
  BY <1>2, <1>3, <1>4, <1>5, <1>6, <1>7, <1>8 DEF SharedNext

(* The game's steps are the same in both instances.                        *)
LEMMA SameSteps == Game!Next <=> GameProofs!Next
BY DEF Game!Next, GameProofs!Next, Game!EnqueueStart, GameProofs!EnqueueStart,
       Game!EnqueueRecheck, GameProofs!EnqueueRecheck, Game!EnqueueFind,
       GameProofs!EnqueueFind, Game!EnqueueMerge, GameProofs!EnqueueMerge,
       Game!EnqueueMergeLost, GameProofs!EnqueueMergeLost, Game!EnqueueCreate,
       GameProofs!EnqueueCreate, Game!EnqueueFails, GameProofs!EnqueueFails,
       Game!Claim, GameProofs!Claim, Game!HandOut, GameProofs!HandOut,
       Game!LeaseForgotten, GameProofs!LeaseForgotten, Game!Report, GameProofs!Report,
       Game!Delete, GameProofs!Delete, Game!Requeue, GameProofs!Requeue,
       Game!Stop, GameProofs!Stop, Game!SetStatus, GameProofs!SetStatus,
       Game!With, GameProofs!With, Game!Exists, GameProofs!Exists,
       Game!IdleCall, GameProofs!IdleCall, Game!PendingJobs, GameProofs!PendingJobs,
       Game!Mergeable, GameProofs!Mergeable, Game!Racing, GameProofs!Racing,
       Game!WithTrusted, GameProofs!WithTrusted, Game!NextId, GameProofs!NextId,
       Game!Unlinked, GameProofs!Unlinked

(* The same of the types and of what the properties say.                   *)
LEMMA SameStates ==
  /\ Game!Init <=> GameProofs!Init
  /\ Game!vars = GameProofs!vars
  /\ Game!TypeOK <=> GameProofs!TypeOK
  /\ Game!PayloadMatchesLinks <=> GameProofs!PayloadMatchesLinks
  /\ Game!LinkedIsRendered <=> GameProofs!LinkedIsRendered
BY DEF Game!Init, GameProofs!Init, Game!vars, GameProofs!vars, Game!IdleCall,
       GameProofs!IdleCall, Game!TypeOK, GameProofs!TypeOK, Game!Exists, GameProofs!Exists,
       Game!Status, GameProofs!Status, Game!PayloadMatchesLinks,
       GameProofs!PayloadMatchesLinks, Game!LinkedIsRendered, GameProofs!LinkedIsRendered

(* What the common table shows of a job to either side.                    *)
LEMMA TableViews ==
  ASSUME SharedInv, NEW j \in Jobs
  PROVE  /\ Exists(j) <=> Seen(j) \notin {"NEW", "DELETED"}
         /\ Seen(j) = "PENDING" <=> job[j].status = "PENDING"
         /\ Seen(j) = "NEW" <=> job[j].status = "NEW"
         /\ Seen(j) = "COMPLETED" <=> job[j].status = "COMPLETED"
         /\ Exists(j) => trusted[j] # {}
         /\ Seen(j) \in {"NEW", "DELETED", "PENDING", "CLAIMED", "LEASED", "STOPPED", "COMPLETED"}
<1>1. job[j].status \in JobStatus \cup {"NEW", "DELETED"}
  BY DEF SharedInv, IInv, TypeOK, Row
<1>2. /\ Exists(j) <=> Seen(j) \notin {"NEW", "DELETED"}
      /\ Seen(j) = "PENDING" <=> job[j].status = "PENDING"
      /\ Seen(j) = "NEW" <=> job[j].status = "NEW"
      /\ Seen(j) = "COMPLETED" <=> job[j].status = "COMPLETED"
      /\ Seen(j) \in {"NEW", "DELETED", "PENDING", "CLAIMED", "LEASED", "STOPPED", "COMPLETED"}
  BY <1>1 DEF Exists, Seen, JobStatus
<1>3. Seen(j) \notin {"NEW", "DELETED"} => trusted[j] # {}
  BY DEF SharedInv, GameProofs!IInv, GameProofs!TypeOK, GameProofs!Exists
<1> QED
  BY <1>2, <1>3
-------------------------------------------------------------------------------
(* What most writes leave of a row: it is there as before, nobody new       *)
(* holds it, and it did not complete.                                       *)
RowQuiet(j) == /\ job'[j].leasedBy \in {job[j].leasedBy, NoWorker}
               /\ (job'[j].status = "NEW") <=> (job[j].status = "NEW")
               /\ Exists(j)' <=> Exists(j)
               /\ job'[j].status = "COMPLETED" => job[j].status = "COMPLETED"

(* The rows of the table are rows.                                         *)
LEMMA RowTypes ==
  ASSUME SharedInv, NEW j \in Jobs
  PROVE  /\ job \in [Jobs -> Row] /\ job[j] \in Row
         /\ job[j].status \in JobStatus \cup {"NEW", "DELETED"}
BY DEF SharedInv, IInv, TypeOK, Row

(* Of a report, if it does not complete the job.                            *)
LEMMA ReportQuiet ==
  ASSUME SharedInv, NEW c \in Calls, ReportCommit(c), NEW j \in Jobs
  PROVE  /\ j # calls[c].job \/ calls[c].dto # "COMPLETED" => RowQuiet(j)
         /\ job'[j].leasedBy \in {job[j].leasedBy, NoWorker}
         /\ Exists(j)' <=> Exists(j)
         /\ (job'[j].status = "NEW") <=> (job[j].status = "NEW")
         /\ j # calls[c].job => job'[j] = job[j]
         /\ LET dto == calls[c].dto
            IN  j = calls[c].job =>
                  /\ dto = "none" => job'[j].status = job[j].status
                  /\ dto \in {"PROCESSING", "COMPLETED"} => job'[j].status = dto
                  /\ dto = "FAILED" => job'[j].status \in {"FAILED", "PENDING"}
<1> DEFINE k == calls[c].job
           seen == calls[c].seen
           dto == calls[c].dto
           new == ReportedRow(job[k], seen, calls[c].by, dto)
<1>1. /\ k \in Jobs /\ dto \in ReportStatus /\ Exists(k)
      /\ job' = [job EXCEPT ![k] = new]
  BY DEF SharedInv, IInv, TypeOK, Call, ListsServe, ListsKept, WasGiven, ReportCommit
<1>2. job \in [Jobs -> Row] /\ job[k] \in Row /\ job[j] \in Row
  BY <1>1, RowTypes
<1>3. job'[j] = IF j = k THEN new ELSE job[j]
  BY <1>1, <1>2
<1>4. /\ new.leasedBy \in {job[k].leasedBy, NoWorker}
      /\ dto = "none" => new.status = job[k].status
      /\ dto \in {"PROCESSING", "COMPLETED"} => new.status = dto
      /\ dto = "FAILED" => new.status \in {"FAILED", "PENDING"}
  BY <1>1, <1>2 DEF ReportedRow, WillRequeue, Row
<1>5. new.status \in JobStatus /\ (dto # "COMPLETED" /\ new.status = "COMPLETED"
                                     => job[k].status = "COMPLETED")
  BY <1>1, <1>4 DEF ReportStatus, JobStatus, Exists
<1>6. /\ Exists(j)' <=> Exists(j)
      /\ (job'[j].status = "NEW") <=> (job[j].status = "NEW")
  BY <1>1, <1>3, <1>5 DEF Exists, JobStatus
<1> QED
  BY <1>3, <1>4, <1>5, <1>6 DEF RowQuiet

(* Cancels, retries, sweeps and lapses are quiet.                           *)
LEMMA AdminQuiet ==
  ASSUME SharedInv, Administer, NEW j \in Jobs
  PROVE  RowQuiet(j)
<1>1. job \in [Jobs -> Row] /\ job[j] \in Row
  BY RowTypes
<1>2. ASSUME NEW k \in Jobs, LeaseLapses(k)
      PROVE  RowQuiet(j)
  BY <1>1, <1>2 DEF LeaseLapses, RowQuiet, Row, Exists
<1>3. ASSUME NEW c \in Calls, AdminCommit(c)
      PROVE  RowQuiet(j)
  BY <1>1, <1>3 DEF AdminCommit, RowQuiet, Row, Exists, JobStatus, CancelledRow, RequeuedRow
<1>4. ASSUME NEW s \in Sweeps, SweepRelease(s)
      PROVE  RowQuiet(j)
  BY <1>1, <1>4 DEF SweepRelease, RowQuiet, Row, Exists, JobStatus, ReleasedRow, Expired, Leased
<1>5. ASSUME NEW s \in Sweeps, SweepFail(s)
      PROVE  RowQuiet(j)
  BY <1>1, <1>5 DEF SweepFail, RowQuiet, Row, Exists, JobStatus
<1>6. ASSUME UNCHANGED job
      PROVE  RowQuiet(j)
  BY <1>6 DEF RowQuiet, Exists
<1> QED
  BY <1>2, <1>3, <1>4, <1>5, <1>6 DEF Administer, SweepStep, AdminRead, SweepSelect, SweepDies
-------------------------------------------------------------------------------
(* How a step may change the list that was last read of a job.              *)
Grown(j) == job[j].status # "NEW" =>
              /\ job'[j].status # "NEW"
              /\ Exists(j)' => /\ Exists(j)
                               /\ given[j] # {} => given'[j] # {}
                               /\ j \notin raced' => /\ j \notin raced
                                                    /\ given[j] \subseteq given'[j]

(* Then who has been given a list, still has one.                           *)
LEMMA ListsStay ==
  ASSUME SharedInv, \A j \in Jobs : Grown(j),
         \A w \in Workers :
            /\ working'[w] = NoJob => render'[w] = {}
            /\ render'[w] # {} => \/ working'[w] = working[w] /\ render'[w] = render[w]
                                 \/ WasGiven(working[w], render[w])',
         \A c \in Calls : calls'[c].step = "report" =>
                            \/ calls'[c] = calls[c] /\ carried'[c] = carried[c]
                            \/ WasGiven(calls[c].job, carried[c])',
         \A j \in Jobs : /\ ~Exists(j)' => given'[j] = {}
                         /\ Exists(j)' /\ j \notin raced' => given'[j] \subseteq trusted'[j]
  PROVE  ListsKept'
<1>1. ASSUME NEW w \in Workers, render'[w] # {}
      PROVE  WasGiven(working[w], render[w])'
  BY <1>1 DEF SharedInv, ListsServe, ListsKept, WasGiven, Grown
<1>2. ASSUME NEW c \in Calls, calls'[c].step = "report"
      PROVE  WasGiven(calls[c].job, carried[c])'
  BY <1>2 DEF SharedInv, ListsServe, ListsKept, WasGiven, Grown
<1> QED
  BY <1>1, <1>2 DEF ListsKept

(* A quiet step that leaves the lists alone keeps what they are for.        *)
LEMMA QuietKeeps ==
  ASSUME SharedInv, \A j \in Jobs : RowQuiet(j), UNCHANGED <<trusted, given, raced, served>>
  PROVE  /\ \A j \in Jobs : Grown(j)
         /\ \A j \in Jobs : /\ ~Exists(j)' => given'[j] = {}
                            /\ Exists(j)' /\ j \notin raced' => given'[j] \subseteq trusted'[j]
         /\ ServedPayload'
BY DEF SharedInv, ListsServe, ListsKept, ServedPayload, RowQuiet, Grown
-------------------------------------------------------------------------------
(* A quiet step keeps who renders the payload, when the workers stay as     *)
(* they are or forget their jobs.                                           *)
LEMMA QuietHolders ==
  ASSUME SharedInv, \A j \in Jobs : RowQuiet(j), UNCHANGED trusted,
         \A w \in Workers : /\ working'[w] \in {working[w], NoJob}
                            /\ render'[w] \in {render[w], {}}
  PROVE  HolderRendersPayload'
BY SharedNull DEF SharedInv, ListsServe, HolderRendersPayload, RowQuiet

(* Cancels, retries, sweeps and lapses keep what the lists are for.        *)
LEMMA AdministerKeeps ==
  ASSUME SharedInv, Administer
  PROVE  ListTypes' /\ ListsServe'
<1>1. /\ \A j \in Jobs : RowQuiet(j)
      /\ UNCHANGED <<working, trusted, render, carried, served, given, handed, raced>>
  BY AdminQuiet
  DEF Administer, lists, LeaseLapses, AdminRead, AdminCommit, SweepStep, SweepRelease,
      SweepSelect, SweepFail, SweepDies
<1>2. ASSUME NEW c \in Calls, calls'[c].step = "report"
      PROVE  calls'[c] = calls[c]
  <2>1. calls \in [Calls -> Call]
    BY DEF SharedInv, IInv, TypeOK
  <2>2. ASSUME NEW b \in Calls, NEW op \in Requests \cap {"cancel", "retry"}, NEW j \in Jobs,
               AdminRead(b, op, j)
        PROVE  calls'[c] = calls[c]
    BY <1>2, <2>1, <2>2 DEF AdminRead, IdleCall
  <2>3. ASSUME NEW b \in Calls, AdminCommit(b)
        PROVE  calls'[c] = calls[c]
    BY <1>2, <2>1, <2>3 DEF AdminCommit, IdleCall
  <2> QED
    BY <2>2, <2>3 DEF Administer, LeaseLapses, SweepStep, SweepRelease, SweepSelect, SweepFail,
                      SweepDies
<1>3. ListsKept'
  BY <1>1, <1>2, QuietKeeps, ListsStay DEF SharedInv, ListsServe, ListsKept
<1>4. HolderRendersPayload'
  BY <1>1, QuietHolders
<1>5. ServedPayload'
  BY <1>1, QuietKeeps
<1> QED
  BY <1>1, <1>3, <1>4, <1>5 DEF SharedInv, ListTypes, ListsServe

(* Enqueues.                                                                *)
LEMMA AskKeeps ==
  ASSUME SharedInv, NEW a \in Enqueues, Ask(a)
  PROVE  ListTypes' /\ ListsServe'
<1>1. UNCHANGED <<job, working, calls, trusted, render, carried, served, given, handed, raced>>
  BY DEF Ask, vars, Game!EnqueueStart, Game!EnqueueRecheck, Game!EnqueueFind,
         Game!EnqueueMergeLost, Game!EnqueueFails
<1> QED
  BY <1>1 DEF SharedInv, ListTypes, ListsServe, ListsKept, WasGiven, HolderRendersPayload,
              ServedPayload, Exists

(* A merge writes the payload of a job that nobody holds, and unless it    *)
(* races the list only grows.                                              *)
LEMMA MergeServes ==
  ASSUME SharedInv, NEW a \in Enqueues, Merge(a)
  PROVE  ListTypes' /\ ListsServe'
<1> DEFINE m == asks[a].job
           p == asks[a].player
           seen == asks[a].seen
<1>1. /\ m \in Jobs /\ p \in Players /\ seen \subseteq Players
      /\ job[m].status = "PENDING"
      /\ trusted' = [trusted EXCEPT ![m] = seen \cup {p}]
      /\ raced \subseteq raced'
      /\ m \notin raced' => trusted[m] = seen
      /\ UNCHANGED <<job, working, calls, render, carried, served, given, handed>>
  <2>1. m \in Jobs /\ p \in Players /\ seen \subseteq Players
    BY DEF Merge, SharedInv, GameProofs!IInv, GameProofs!TypeOK, GameProofs!CallsFormed
  <2>2. Seen(m) = "PENDING"
    BY <2>1 DEF Merge, Game!EnqueueMerge, Game!Mergeable
  <2>3. job[m].status = "PENDING"
    BY <2>1, <2>2, TableViews
  <2> QED
    BY <2>1, <2>3 DEF Merge, Game!EnqueueMerge, Game!WithTrusted, Game!Racing, vars
<1>2. trusted \in [Jobs -> SUBSET Players] /\ \A j \in Jobs \ {m} : trusted'[j] = trusted[j]
  BY <1>1 DEF SharedInv, ListTypes
<1>3. \A j \in Jobs \ raced' : trusted[j] \subseteq trusted'[j]
  BY <1>1, <1>2
<1>4. job[m].leasedBy = NoWorker
  BY <1>1, SharedNull, RowTypes DEF SharedInv, IInv, ClaimConsistent, Leased, Row
<1>5. \A j \in Jobs : Grown(j)
  BY <1>1 DEF Grown, Exists
<1>6. ListsKept'
  <2>1. \A j \in Jobs : /\ ~Exists(j)' => given'[j] = {}
                        /\ Exists(j)' /\ j \notin raced' => given'[j] \subseteq trusted'[j]
    BY <1>1, <1>3 DEF SharedInv, ListsServe, ListsKept, Exists
  <2> QED
    BY <1>1, <1>5, <2>1, ListsStay DEF SharedInv, ListsServe, ListsKept
<1>7. HolderRendersPayload'
  BY <1>1, <1>2, <1>4, SharedNull DEF SharedInv, ListsServe, HolderRendersPayload
<1>8. ServedPayload'
  BY <1>1, <1>2 DEF SharedInv, ListsServe, ServedPayload
<1>9. ListTypes'
  BY <1>1 DEF SharedInv, ListTypes
<1> QED
  BY <1>6, <1>7, <1>8, <1>9 DEF ListsServe

(* A new job has no lists yet.                                             *)
LEMMA CreateServes ==
  ASSUME SharedInv, NEW a \in Enqueues, CreateFor(a)
  PROVE  ListTypes' /\ ListsServe'
<1>1. PICK m \in Jobs : /\ CreateJob(m)
                        /\ trusted' = [trusted EXCEPT ![m] = {asks[a].player}]
                        /\ UNCHANGED <<render, carried, served, handed>>
                        /\ Game!EnqueueCreate(a)
  BY DEF CreateFor
<1>2. asks[a].player \in Players /\ given' = given /\ raced \subseteq raced'
  BY <1>1 DEF SharedInv, GameProofs!IInv, GameProofs!TypeOK, GameProofs!CallsFormed,
              Game!EnqueueCreate
<1>3. /\ job[m].status = "NEW" /\ job' = [job EXCEPT ![m] = BlankRow("PENDING")]
      /\ UNCHANGED <<working, calls>>
  BY <1>1 DEF CreateJob
<1>4. /\ trusted \in [Jobs -> SUBSET Players] /\ job \in [Jobs -> Row]
      /\ \A j \in Jobs \ {m} : trusted'[j] = trusted[j] /\ job'[j] = job[j]
      /\ job'[m].status = "PENDING" /\ job'[m].leasedBy = NoWorker
      /\ ~Exists(m) /\ given'[m] = {}
  BY <1>1, <1>2, <1>3, RowTypes
  DEF SharedInv, ListTypes, ListsServe, ListsKept, BlankRow, Exists, JobStatus
<1>5. \A j \in Jobs : Grown(j)
  BY <1>2, <1>3, <1>4 DEF Grown, Exists
<1>6. ListsKept'
  <2>1. \A j \in Jobs : /\ ~Exists(j)' => given'[j] = {}
                        /\ Exists(j)' /\ j \notin raced' => given'[j] \subseteq trusted'[j]
    BY <1>2, <1>4 DEF SharedInv, ListsServe, ListsKept, Exists
  <2> QED
    BY <1>1, <1>3, <1>5, <2>1, ListsStay DEF SharedInv, ListsServe, ListsKept
<1>7. HolderRendersPayload'
  BY <1>1, <1>3, <1>4, SharedNull DEF SharedInv, ListsServe, HolderRendersPayload
<1>8. ServedPayload'
  BY <1>1, <1>2, <1>4 DEF SharedInv, ListsServe, ServedPayload
<1>9. ListTypes'
  BY <1>1, <1>2 DEF SharedInv, ListTypes
<1> QED
  BY <1>6, <1>7, <1>8, <1>9 DEF ListsServe
-------------------------------------------------------------------------------
(* Leases.                                                                  *)
(* A claim gives no list: the holder has none until the job is read.       *)
LEMMA ClaimServes ==
  ASSUME SharedInv, NEW w \in Workers, NEW k \in Jobs, Claim(w, k)
  PROVE  ListTypes' /\ ListsServe'
<1>1. /\ working[w] = NoJob /\ render[w] = {}
      /\ job[k].status \in {"PENDING", "LEASED", "PROCESSING"}
      /\ job' = [job EXCEPT ![k] = LeasedRow(job[k], w)]
      /\ UNCHANGED <<calls, trusted, render, carried, served, given, raced>>
      /\ working' \in {working, [working EXCEPT ![w] = k]}
      /\ handed' \subseteq handed
  BY DEF Claim, LeaseTo, Leasable, Leased, SharedInv, ListsServe, ListsKept
<1>2. /\ working \in [Workers -> Jobs \cup {NoJob}] /\ job \in [Jobs -> Row]
      /\ \A j \in Jobs \ {k} : job'[j] = job[j]
      /\ job'[k].status = "LEASED" /\ job'[k].leasedBy = w
      /\ Exists(k) /\ Exists(k)'
  BY <1>1 DEF SharedInv, IInv, TypeOK, LeasedRow, Row, Exists, JobStatus
<1>3. \A j \in Jobs : Grown(j)
  BY <1>1, <1>2 DEF Grown, Exists
<1>4. ListsKept'
  <2>1. \A j \in Jobs : /\ ~Exists(j)' => given'[j] = {}
                        /\ Exists(j)' /\ j \notin raced' => given'[j] \subseteq trusted'[j]
    BY <1>1, <1>2 DEF SharedInv, ListsServe, ListsKept, Exists
  <2>2. \A v \in Workers : /\ working'[v] = NoJob => render'[v] = {}
                           /\ render'[v] # {} => working'[v] = working[v] /\ render'[v] = render[v]
    BY <1>1, <1>2 DEF SharedInv, ListsServe, ListsKept
  <2> QED
    BY <1>1, <1>3, <2>1, <2>2, ListsStay
<1>5. HolderRendersPayload'
  BY <1>1, <1>2 DEF SharedInv, ListsServe, HolderRendersPayload
<1>6. ServedPayload'
  BY <1>1, <1>2 DEF SharedInv, ListsServe, ServedPayload
<1>7. ListTypes'
  BY <1>1 DEF SharedInv, ListTypes
<1> QED
  BY <1>4, <1>5, <1>6, <1>7 DEF ListsServe

(* The read gives the payload as it is, which no list read before exceeds. *)
LEMMA HandOutServes ==
  ASSUME SharedInv, NEW w \in Workers, HandOut(w)
  PROVE  ListTypes' /\ ListsServe'
<1> DEFINE k == working[w]
<1>1. /\ k \in Jobs /\ render[w] = {} /\ Exists(k)
      /\ render' = [render EXCEPT ![w] = trusted[k]]
      /\ given' = [given EXCEPT ![k] = trusted[k]]
      /\ handed' = handed \cup {k}
      /\ UNCHANGED <<job, working, calls, trusted, carried, served, raced>>
  BY DEF HandOut, vars, SharedInv, IInv, TypeOK
<1>2. trusted[k] # {} /\ trusted[k] \subseteq Players /\ job[k].status # "NEW"
  BY <1>1, TableViews DEF SharedInv, ListTypes, Exists, JobStatus
<1>3. /\ given'[k] = trusted[k] /\ \A j \in Jobs \ {k} : given'[j] = given[j]
      /\ render'[w] = trusted[k] /\ \A v \in Workers \ {w} : render'[v] = render[v]
  <2>1. given \in [Jobs -> SUBSET Players] /\ render \in [Workers -> SUBSET Players]
    BY DEF SharedInv, GameProofs!IInv, GameProofs!TypeOK, ListTypes
  <2> QED
    BY <1>1, <2>1
<1>4. \A j \in Jobs : Grown(j)
  BY <1>1, <1>2, <1>3 DEF Grown, Exists, SharedInv, ListsServe, ListsKept
<1>5. ListsKept'
  <2>1. \A j \in Jobs : /\ ~Exists(j)' => given'[j] = {}
                        /\ Exists(j)' /\ j \notin raced' => given'[j] \subseteq trusted'[j]
    BY <1>1, <1>3 DEF SharedInv, ListsServe, ListsKept, Exists
  <2>2. WasGiven(working[w], render[w])'
    BY <1>1, <1>2, <1>3 DEF WasGiven
  <2>3. \A v \in Workers : working'[v] = NoJob => render'[v] = {}
    BY <1>1, <1>3, SharedNull DEF SharedInv, ListsServe, ListsKept
  <2> QED
    BY <1>1, <1>3, <1>4, <2>1, <2>2, <2>3, ListsStay
<1>6. HolderRendersPayload'
  BY <1>1, <1>3 DEF SharedInv, ListsServe, HolderRendersPayload
<1>7. ServedPayload'
  BY <1>1 DEF SharedInv, ListsServe, ServedPayload
<1>8. ListTypes'
  BY <1>1, <1>2 DEF SharedInv, ListTypes
<1> QED
  BY <1>5, <1>6, <1>7, <1>8 DEF ListsServe

(* Steps that leave the rows and what is read of them alone.                *)
LEMMA WorkerServes ==
  ASSUME SharedInv, UNCHANGED <<job, trusted, served, given, handed, raced>>,
         \A v \in Workers : /\ working'[v] \in {working[v], NoJob}
                            /\ working'[v] = NoJob => render'[v] = {}
                            /\ render'[v] \in {render[v], {}},
         render' \in [Workers -> SUBSET Players], carried' \in [Calls -> SUBSET Players],
         \A c \in Calls : calls'[c].step = "report" =>
                            \/ calls'[c] = calls[c] /\ carried'[c] = carried[c]
                            \/ WasGiven(calls[c].job, carried[c])'
  PROVE  ListTypes' /\ ListsServe'
<1>1. \A j \in Jobs : RowQuiet(j)
  BY DEF RowQuiet, Exists
<1>2. ListsKept'
  BY <1>1, QuietKeeps, ListsStay
<1>3. HolderRendersPayload'
  BY <1>1, QuietHolders
<1>4. ServedPayload'
  BY <1>1, QuietKeeps
<1>5. ListTypes'
  BY DEF SharedInv, ListTypes
<1> QED
  BY <1>2, <1>3, <1>4, <1>5 DEF ListsServe

(* A worker that forgets its job, forgets its list.                        *)
LEMMA ForgetServes ==
  ASSUME SharedInv, NEW w \in Workers, Forget(w)
  PROVE  ListTypes' /\ ListsServe'
<1>1. /\ UNCHANGED <<job, calls, trusted, carried, served, given, handed, raced>>
      /\ working' = [working EXCEPT ![w] = NoJob]
      /\ render' = [render EXCEPT ![w] = {}]
  BY DEF Forget, Abandon
<1>2. /\ working \in [Workers -> Jobs \cup {NoJob}]
      /\ render \in [Workers -> SUBSET Players] /\ carried \in [Calls -> SUBSET Players]
      /\ \A v \in Workers : working[v] = NoJob => render[v] = {}
  BY DEF SharedInv, IInv, TypeOK, ListTypes, ListsServe, ListsKept
<1>3. \A v \in Workers : /\ working'[v] \in {working[v], NoJob}
                         /\ working'[v] = NoJob => render'[v] = {}
                         /\ render'[v] \in {render[v], {}}
  BY <1>1, <1>2
<1>4. render' \in [Workers -> SUBSET Players] /\ carried' \in [Calls -> SUBSET Players]
  BY <1>1, <1>2
<1> QED
  BY <1>1, <1>3, <1>4, WorkerServes

(* A report carries the list its worker was given.                         *)
LEMMA SendServes ==
  ASSUME SharedInv, NEW c \in Calls, NEW w \in Workers, NEW dto \in ReportStatus, Send(c, w, dto)
  PROVE  ListTypes' /\ ListsServe'
<1>1. /\ UNCHANGED <<job, trusted, served, given, handed, raced>>
      /\ render[w] # {}
      /\ working' = IF dto \in Final THEN [working EXCEPT ![w] = NoJob] ELSE working
      /\ render' = [render EXCEPT ![w] = IF dto \in Final THEN {} ELSE @]
      /\ carried' = [carried EXCEPT ![c] = render[w]]
      /\ calls' = [calls EXCEPT ![c] = [step |-> "report", by |-> w, job |-> working[w],
                                        dto |-> dto, seen |-> SnapshotOf(job[working[w]])]]
  BY DEF Send, ReportRead
<1>2. /\ working \in [Workers -> Jobs \cup {NoJob}] /\ calls \in [Calls -> Call]
      /\ render \in [Workers -> SUBSET Players] /\ carried \in [Calls -> SUBSET Players]
      /\ \A v \in Workers : working[v] = NoJob => render[v] = {}
      /\ WasGiven(working[w], render[w])
  BY <1>1 DEF SharedInv, IInv, TypeOK, ListTypes, ListsServe, ListsKept
<1>3. \A v \in Workers : /\ working'[v] \in {working[v], NoJob}
                         /\ working'[v] = NoJob => render'[v] = {}
                         /\ render'[v] \in {render[v], {}}
  BY <1>1, <1>2
<1>4. render' \in [Workers -> SUBSET Players] /\ carried' \in [Calls -> SUBSET Players]
  BY <1>1, <1>2
<1>5. /\ calls'[c].job = working[w] /\ carried'[c] = render[w]
      /\ \A b \in Calls \ {c} : calls'[b] = calls[b] /\ carried'[b] = carried[b]
  BY <1>1, <1>2
<1>6. WasGiven(calls[c].job, carried[c])'
  BY <1>1, <1>2, <1>5 DEF WasGiven, Exists
<1> QED
  BY <1>1, <1>3, <1>4, <1>5, <1>6, WorkerServes

(* A report that is not stored changes nothing.                            *)
LEMMA DropServes ==
  ASSUME SharedInv, NEW c \in Calls, Drop(c)
  PROVE  ListTypes' /\ ListsServe'
<1>1. /\ UNCHANGED <<job, working, trusted, render, served, given, handed, raced>>
      /\ carried' = [carried EXCEPT ![c] = {}]
      /\ calls' = [calls EXCEPT ![c] = IdleCall]
  BY DEF Drop, CallFails
<1>2. /\ calls \in [Calls -> Call] /\ render \in [Workers -> SUBSET Players]
      /\ carried \in [Calls -> SUBSET Players]
      /\ \A v \in Workers : working[v] = NoJob => render[v] = {}
  BY DEF SharedInv, IInv, TypeOK, ListTypes, ListsServe, ListsKept
<1>3. render' \in [Workers -> SUBSET Players] /\ carried' \in [Calls -> SUBSET Players]
  BY <1>1, <1>2
<1>4. \A b \in Calls : calls'[b].step = "report" =>
                         calls'[b] = calls[b] /\ carried'[b] = carried[b]
  BY <1>1, <1>2 DEF IdleCall
<1> QED
  BY <1>1, <1>2, <1>3, <1>4, WorkerServes
-------------------------------------------------------------------------------
(* The write of a report.                                                   *)
LEMMA StoreServes ==
  ASSUME SharedInv, NEW c \in Calls, Store(c)
  PROVE  ListTypes' /\ ListsServe'
<1> DEFINE k == calls[c].job
           dto == calls[c].dto
<1>1. /\ ReportCommit(c)
      /\ carried' = [carried EXCEPT ![c] = {}]
      /\ served' = [served EXCEPT ![k] = IF dto = "COMPLETED" THEN carried[c] ELSE @]
      /\ raced' = IF Outdated(c, k) THEN raced \cup {k} ELSE raced
      /\ calls' = [calls EXCEPT ![c] = IdleCall]
      /\ UNCHANGED <<working, trusted, render, given, handed>>
  BY DEF Store, ReportCommit
<1>2. /\ calls \in [Calls -> Call] /\ k \in Jobs
      /\ render \in [Workers -> SUBSET Players] /\ carried \in [Calls -> SUBSET Players]
      /\ served \in [Jobs -> SUBSET Players]
      /\ \A v \in Workers : working[v] = NoJob => render[v] = {}
  BY <1>1 DEF ReportCommit, SharedInv, IInv, TypeOK, ListTypes, ListsServe, ListsKept, WasGiven
<1>3. \A j \in Jobs : /\ job'[j].leasedBy \in {job[j].leasedBy, NoWorker}
                      /\ Exists(j)' <=> Exists(j)
                      /\ (job'[j].status = "NEW") <=> (job[j].status = "NEW")
                      /\ j # k \/ dto # "COMPLETED" => RowQuiet(j)
  BY <1>1, ReportQuiet
<1>4. \A j \in Jobs : Grown(j)
  BY <1>1, <1>3 DEF Grown
<1>5. \A b \in Calls : calls'[b].step = "report" =>
                         calls'[b] = calls[b] /\ carried'[b] = carried[b]
  BY <1>1, <1>2 DEF IdleCall
<1>6. ListsKept'
  <2>1. \A j \in Jobs : /\ ~Exists(j)' => given'[j] = {}
                        /\ Exists(j)' /\ j \notin raced' => given'[j] \subseteq trusted'[j]
    BY <1>1, <1>3 DEF SharedInv, ListsServe, ListsKept
  <2> QED
    BY <1>1, <1>2, <1>4, <1>5, <2>1, ListsStay
<1>7. HolderRendersPayload'
  BY <1>1, <1>3, SharedNull DEF SharedInv, ListsServe, HolderRendersPayload
<1>8. ServedPayload'
  <2> SUFFICES ASSUME NEW j \in Jobs \ raced', job'[j].status = "COMPLETED"
               PROVE  served'[j] = trusted[j]
    BY <1>1 DEF ServedPayload
  <2>1. CASE j = k /\ dto = "COMPLETED"
    <3>1. ~Outdated(c, k)
      BY <1>1, <2>1
    <3> QED
      BY <1>1, <1>2, <2>1, <3>1 DEF Outdated
  <2>2. CASE j # k \/ dto # "COMPLETED"
    <3>1. job[j].status = "COMPLETED"
      BY <1>3, <2>2 DEF RowQuiet
    <3>2. served'[j] = served[j]
      BY <1>1, <1>2, <2>2
    <3> QED
      BY <1>1, <3>1, <3>2 DEF SharedInv, ListsServe, ServedPayload
  <2> QED
    BY <2>1, <2>2
<1>9. ListTypes'
  BY <1>1, <1>2 DEF SharedInv, ListTypes
<1> QED
  BY <1>6, <1>7, <1>8, <1>9 DEF ListsServe

(* With the row its lists go.                                              *)
LEMMA RemoveServes ==
  ASSUME SharedInv, NEW k \in Jobs, Remove(k)
  PROVE  ListTypes' /\ ListsServe'
<1>1. /\ Exists(k) /\ job' = [job EXCEPT ![k] = BlankRow("DELETED")]
      /\ trusted' = [trusted EXCEPT ![k] = {}]
      /\ given' = [given EXCEPT ![k] = {}]
      /\ UNCHANGED <<working, calls, render, carried, served, handed, raced>>
  BY DEF Remove, DeleteJob
<1>2. /\ job \in [Jobs -> Row] /\ trusted \in [Jobs -> SUBSET Players]
      /\ given \in [Jobs -> SUBSET Players]
  BY RowTypes DEF SharedInv, GameProofs!IInv, GameProofs!TypeOK, ListTypes
<1>3. /\ \A j \in Jobs \ {k} : /\ job'[j] = job[j] /\ trusted'[j] = trusted[j]
                               /\ given'[j] = given[j]
      /\ job'[k].status = "DELETED" /\ job'[k].leasedBy = NoWorker
      /\ given'[k] = {} /\ ~Exists(k)'
  BY <1>1, <1>2 DEF BlankRow, Exists, JobStatus
<1>4. \A j \in Jobs : Grown(j)
  BY <1>1, <1>3 DEF Grown, Exists
<1>5. ListsKept'
  <2>1. \A j \in Jobs : /\ ~Exists(j)' => given'[j] = {}
                        /\ Exists(j)' /\ j \notin raced' => given'[j] \subseteq trusted'[j]
    BY <1>1, <1>3 DEF SharedInv, ListsServe, ListsKept, Exists
  <2>2. \A v \in Workers : working'[v] = NoJob => render'[v] = {}
    BY <1>1 DEF SharedInv, ListsServe, ListsKept
  <2> QED
    BY <1>1, <1>4, <2>1, <2>2, ListsStay
<1>6. HolderRendersPayload'
  BY <1>1, <1>3, SharedNull DEF SharedInv, ListsServe, HolderRendersPayload
<1>7. ServedPayload'
  BY <1>1, <1>3 DEF SharedInv, ListsServe, ServedPayload
<1>8. ListTypes'
  BY <1>1 DEF SharedInv, ListTypes
<1> QED
  BY <1>5, <1>6, <1>7, <1>8 DEF ListsServe

(* Every step of the whole keeps what the lists are for.                   *)
LEMMA NextServes ==
  ASSUME SharedInv, [SharedNext]_sharedVars
  PROVE  ListTypes' /\ ListsServe'
<1>1. CASE UNCHANGED sharedVars
  <2>1. UNCHANGED <<job, working, calls, trusted, render, carried, served, given, handed, raced>>
    BY <1>1 DEF sharedVars, vars, lists
  <2> QED
    BY <2>1 DEF SharedInv, ListTypes, ListsServe, ListsKept, WasGiven, HolderRendersPayload,
                ServedPayload, Exists
<1> QED
  BY <1>1, AskKeeps, MergeServes, CreateServes, ClaimServes, HandOutServes, ForgetServes,
     SendServes, StoreServes, DropServes, RemoveServes, AdministerKeeps
  DEF SharedNext
-------------------------------------------------------------------------------
(* The steps of the queue, as the enqueues see them.                        *)

(* A write of the same status to some jobs.                                 *)
LEMMA StatusMoves ==
  ASSUME NEW jobs, NEW status, UNCHANGED <<trusted, link, asks>>,
         \A j \in Jobs : Seen(j)' = IF j \in jobs THEN status ELSE Seen(j)
  PROVE  Game!SetStatus(jobs, status)
<1>1. ASSUME NEW j \in Jobs
      PROVE  [status |-> Seen(j)', trusted |-> trusted'[j]] =
               IF j \in jobs THEN [[status |-> Seen(j), trusted |-> trusted[j]]
                                     EXCEPT !.status = status]
               ELSE [status |-> Seen(j), trusted |-> trusted[j]]
  BY <1>1
<1> QED
  BY <1>1 DEF Game!SetStatus

(* Jobs go back to the queue or stop, and nothing else is seen.             *)
LEMMA QuietStep ==
  ASSUME SharedInv, NEW status \in {"PENDING", "STOPPED"},
         UNCHANGED <<trusted, link, asks, given, raced>>,
         \A w \in Workers : Reading(w)' = Reading(w),
         \A j \in Jobs : \/ Seen(j)' = Seen(j)
                         \/ Exists(j) /\ Seen(j)' = status
  PROVE  Game!Next
<1>1. PICK jobs \in SUBSET Jobs : \A j \in Jobs : j \in jobs <=> Seen(j)' # Seen(j)
  <2>1. {j \in Jobs : Seen(j)' # Seen(j)} \in SUBSET Jobs
    BY DEF Seen
  <2> QED
    BY <2>1 DEF Seen
<1>2. Game!SetStatus(jobs, status)
  <2>1. \A j \in Jobs : Seen(j)' = IF j \in jobs THEN status ELSE Seen(j)
    BY <1>1 DEF Seen
  <2> QED
    BY <2>1, StatusMoves
<1>3. \A j \in jobs : Seen(j) \in {"PENDING", "CLAIMED", "LEASED", "STOPPED", "COMPLETED"} \ {status}
  BY <1>1, TableViews
<1>4. UNCHANGED <<given, [w \in Workers |-> Reading(w)], raced>>
  OBVIOUS
<1>5. Game!Requeue(jobs) \/ Game!Stop(jobs)
  <2>1. CASE status = "PENDING"
    <3>1. jobs \subseteq Game!With({"CLAIMED", "LEASED", "STOPPED", "COMPLETED"})
      BY <1>3, <2>1 DEF Game!With
    <3> QED
      BY <1>2, <1>4, <2>1, <3>1 DEF Game!Requeue
  <2>2. CASE status = "STOPPED"
    <3>1. jobs \subseteq Game!With({"PENDING", "CLAIMED", "LEASED", "COMPLETED"})
      BY <1>3, <2>2 DEF Game!With
    <3> QED
      BY <1>2, <1>4, <2>2, <3>1 DEF Game!Stop
  <2> QED
    BY <2>1, <2>2
<1> QED
  BY <1>5 DEF Game!Next
-------------------------------------------------------------------------------
(* The same, in terms of the rows.                                          *)
LEMMA QuietRows ==
  ASSUME SharedInv, NEW written \in {"PENDING", "FAILED", "CANCELLED"},
         UNCHANGED <<trusted, link, asks, given, raced, handed>>,
         \A w \in Workers : Reading(w)' = Reading(w),
         \A j \in Jobs : \/ job'[j].status = job[j].status
                         \/ Exists(j) /\ job'[j].status = written
  PROVE  Game!Next
<1> DEFINE status == IF written = "PENDING" THEN written ELSE "STOPPED"
<1>1. \A j \in Jobs : \/ Seen(j)' = Seen(j)
                      \/ Exists(j) /\ Seen(j)' = status
  BY DEF Seen
<1>2. status \in {"PENDING", "STOPPED"}
  OBVIOUS
<1> HIDE DEF status
<1> QED
  BY <1>1, <1>2, QuietStep

(* Cancels, retries and sweeps: jobs requeued or stopped.                  *)
LEMMA AdministerSeen ==
  ASSUME SharedInv, Administer
  PROVE  Game!Next
<1>1. /\ UNCHANGED <<working, trusted, link, asks, render, given, handed, raced>>
      /\ job \in [Jobs -> Row]
  BY RowTypes
  DEF Administer, lists, LeaseLapses, AdminRead, AdminCommit, SweepStep, SweepRelease,
      SweepSelect, SweepFail, SweepDies, SharedInv, IInv, TypeOK
<1>2. \A w \in Workers : Reading(w)' = Reading(w)
  BY <1>1 DEF Reading
<1>3. ASSUME NEW written \in {"PENDING", "FAILED", "CANCELLED"},
             \A j \in Jobs : \/ job'[j].status = job[j].status
                             \/ Exists(j) /\ job'[j].status = written
      PROVE  Game!Next
  BY <1>1, <1>2, <1>3, QuietRows
<1>4. ASSUME NEW k \in Jobs, LeaseLapses(k)
      PROVE  Game!Next
  <2>1. \A j \in Jobs : job'[j].status = job[j].status
    BY <1>1, <1>4 DEF LeaseLapses, Row
  <2> QED
    BY <1>3, <2>1
<1>5. ASSUME NEW c \in Calls, AdminCommit(c)
      PROVE  Game!Next
  <2>1. CASE calls[c].step = "cancel"
    <3>1. \A j \in Jobs : \/ job'[j].status = job[j].status
                          \/ Exists(j) /\ job'[j].status = "CANCELLED"
      BY <1>1, <1>5, <2>1 DEF AdminCommit, Row, CancelledRow
    <3> QED
      BY <1>3, <3>1
  <2>2. CASE calls[c].step # "cancel"
    <3>1. \A j \in Jobs : \/ job'[j].status = job[j].status
                          \/ Exists(j) /\ job'[j].status = "PENDING"
      BY <1>1, <1>5, <2>2 DEF AdminCommit, Row, RequeuedRow
    <3> QED
      BY <1>3, <3>1
  <2> QED
    BY <2>1, <2>2
<1>6. ASSUME NEW s \in Sweeps, SweepRelease(s)
      PROVE  Game!Next
  <2>1. \A j \in Jobs : \/ job'[j].status = job[j].status
                        \/ Exists(j) /\ job'[j].status = "PENDING"
    BY <1>1, <1>6 DEF SweepRelease, Row, ReleasedRow, Expired, Leased, Exists, JobStatus
  <2> QED
    BY <1>3, <2>1
<1>7. ASSUME NEW s \in Sweeps, SweepFail(s)
      PROVE  Game!Next
  <2>1. \A j \in Jobs : \/ job'[j].status = job[j].status
                        \/ Exists(j) /\ job'[j].status = "FAILED"
    BY <1>1, <1>7 DEF SweepFail, Row
  <2> QED
    BY <1>3, <2>1
<1>8. ASSUME UNCHANGED job
      PROVE  Game!Next
  BY <1>3, <1>8
<1> QED
  BY <1>4, <1>5, <1>6, <1>7, <1>8
  DEF Administer, SweepStep, AdminRead, SweepSelect, SweepDies

(* The steps of the enqueues are their own.                                *)
LEMMA EnqueueSeen ==
  ASSUME SharedInv, NEW a \in Enqueues, Ask(a) \/ Merge(a) \/ CreateFor(a)
  PROVE  Game!Next
BY DEF Ask, Merge, CreateFor, Game!Next

(* A claim, whether its answer reaches the worker or not.                  *)
LEMMA ClaimSeen ==
  ASSUME SharedInv, NEW w \in Workers, NEW k \in Jobs, Claim(w, k)
  PROVE  Game!Next
<1>1. /\ working[w] = NoJob /\ render[w] = {}
      /\ job[k].status \in {"PENDING", "LEASED", "PROCESSING"}
      /\ job' = [job EXCEPT ![k] = LeasedRow(job[k], w)]
      /\ UNCHANGED <<trusted, link, asks, render, given, raced>>
      /\ working' \in {working, [working EXCEPT ![w] = k]}
      /\ handed' = handed \ {k}
  BY DEF Claim, LeaseTo, Leasable, Leased, SharedInv, ListsServe, ListsKept
<1>2. /\ working \in [Workers -> Jobs \cup {NoJob}] /\ job \in [Jobs -> Row]
      /\ \A j \in Jobs \ {k} : job'[j] = job[j]
      /\ job'[k].status = "LEASED"
  BY <1>1 DEF SharedInv, IInv, TypeOK, LeasedRow, Row
<1>3. \A j \in Jobs : Seen(j)' = IF j \in {k} THEN "CLAIMED" ELSE Seen(j)
  BY <1>1, <1>2 DEF Seen
<1>4. Game!SetStatus({k}, "CLAIMED")
  BY <1>1, <1>3, StatusMoves
<1>5. k \in Game!With({"PENDING", "CLAIMED", "LEASED"})
  BY <1>1 DEF Game!With, Seen
<1>6. \/ [v \in Workers |-> Reading(v)]' = [[v \in Workers |-> Reading(v)] EXCEPT ![w] = k]
      \/ UNCHANGED [v \in Workers |-> Reading(v)]
  BY <1>1, <1>2 DEF Reading
<1>7. [v \in Workers |-> Reading(v)][w] = NoJob
  BY <1>1 DEF Reading
<1>8. Game!Claim(w, k)
  BY <1>1, <1>4, <1>5, <1>6, <1>7 DEF Game!Claim
<1> QED
  BY <1>8 DEF Game!Next

(* The read of the job for the worker.                                     *)
LEMMA HandOutSeen ==
  ASSUME SharedInv, NEW w \in Workers, HandOut(w)
  PROVE  Game!Next
<1> DEFINE k == working[w]
<1>1. /\ k \in Jobs /\ k # NoJob /\ render[w] = {} /\ Exists(k)
      /\ render' = [render EXCEPT ![w] = trusted[k]]
      /\ given' = [given EXCEPT ![k] = trusted[k]]
      /\ handed' = handed \cup {k}
      /\ UNCHANGED <<job, working, trusted, link, asks, raced>>
  BY DEF HandOut, vars, SharedInv, IInv, TypeOK
<1>2. trusted[k] # {} /\ render \in [Workers -> SUBSET Players]
  BY <1>1, TableViews DEF SharedInv, ListTypes
<1>3. Seen(k) \notin {"NEW", "DELETED"}
  BY <1>1, TableViews
<1>4. \A j \in Jobs : Seen(j)' = IF j \in {k} \cap Game!With({"CLAIMED"}) THEN "LEASED" ELSE Seen(j)
  <2>1. k \in Game!With({"CLAIMED"}) <=> Seen(k) = "CLAIMED"
    BY <1>1 DEF Game!With
  <2>2. \A j \in Jobs : Seen(j)' = IF j = k /\ Seen(k) = "CLAIMED" THEN "LEASED" ELSE Seen(j)
    BY <1>1 DEF Seen, Exists, JobStatus
  <2> QED
    BY <2>1, <2>2
<1>5. Game!SetStatus({k} \cap Game!With({"CLAIMED"}), "LEASED")
  BY <1>1, <1>4, StatusMoves
<1>6. /\ [v \in Workers |-> Reading(v)]' = [[v \in Workers |-> Reading(v)] EXCEPT ![w] = NoJob]
      /\ Reading(w) = k
  BY <1>1, <1>2 DEF Reading
<1>7. given' = [given EXCEPT ![k] = [j \in Jobs |-> [status |-> Seen(j),
                                                     trusted |-> trusted[j]]][k].trusted]
  BY <1>1
<1>8. Game!Exists(k)
  BY <1>1, <1>3 DEF Game!Exists
<1>9. Game!HandOut(w)
  <2> HIDE DEF k
  <2> QED
    BY <1>1, <1>5, <1>6, <1>7, <1>8 DEF Game!HandOut
<1> QED
  BY <1>9 DEF Game!Next

(* A worker that gives up: its lease handler is forgotten, or nothing is seen.*)
LEMMA ForgetSeen ==
  ASSUME SharedInv, NEW w \in Workers, Forget(w)
  PROVE  Game!Next
<1>1. /\ working[w] # NoJob
      /\ working' = [working EXCEPT ![w] = NoJob]
      /\ render' = [render EXCEPT ![w] = {}]
      /\ UNCHANGED <<job, trusted, link, asks, given, handed, raced>>
  BY DEF Forget, Abandon
<1>2. working \in [Workers -> Jobs \cup {NoJob}] /\ render \in [Workers -> SUBSET Players]
  BY DEF SharedInv, IInv, TypeOK, ListTypes
<1>3. CASE render[w] = {}
  <2>1. /\ Reading(w) # NoJob
        /\ [v \in Workers |-> Reading(v)]' = [[v \in Workers |-> Reading(v)] EXCEPT ![w] = NoJob]
    BY <1>1, <1>2, <1>3 DEF Reading
  <2>2. UNCHANGED [j \in Jobs |-> [status |-> Seen(j), trusted |-> trusted[j]]]
    BY <1>1 DEF Seen
  <2>3. Game!LeaseForgotten(w)
    BY <1>1, <2>1, <2>2 DEF Game!LeaseForgotten
  <2> QED
    BY <2>3 DEF Game!Next
<1>4. CASE render[w] # {}
  <2>1. \A v \in Workers : Reading(v)' = Reading(v)
    BY <1>1, <1>2, <1>4 DEF Reading
  <2> QED
    BY <1>1, <2>1, QuietRows
<1> QED
  BY <1>3, <1>4

(* A report is seen when it is stored.                                     *)
LEMMA SendSeen ==
  ASSUME SharedInv, NEW c \in Calls, NEW w \in Workers, NEW dto \in ReportStatus, Send(c, w, dto)
  PROVE  Game!Next
<1>1. /\ render[w] # {}
      /\ working' = IF dto \in Final THEN [working EXCEPT ![w] = NoJob] ELSE working
      /\ render' = [render EXCEPT ![w] = IF dto \in Final THEN {} ELSE @]
      /\ UNCHANGED <<job, trusted, link, asks, given, handed, raced>>
  BY DEF Send, ReportRead
<1>2. working \in [Workers -> Jobs \cup {NoJob}] /\ render \in [Workers -> SUBSET Players]
  BY DEF SharedInv, IInv, TypeOK, ListTypes
<1>3. \A v \in Workers : Reading(v)' = Reading(v)
  BY <1>1, <1>2 DEF Reading
<1> QED
  BY <1>1, <1>3, QuietRows

(* Not stored, it is not seen.                                             *)
LEMMA DropSeen ==
  ASSUME SharedInv, NEW c \in Calls, Drop(c)
  PROVE  Game!Next
<1>1. UNCHANGED <<job, working, trusted, link, asks, render, given, handed, raced>>
  BY DEF Drop, CallFails
<1>2. \A v \in Workers : Reading(v)' = Reading(v)
  BY <1>1 DEF Reading
<1> QED
  BY <1>1, <1>2, QuietRows

(* A stored report is a report, a failure requeues or stops the job, and a *)
(* heartbeat is not seen.  Whose list is not the payload any more, races.  *)
LEMMA StoreSeen ==
  ASSUME SharedInv, NEW c \in Calls, Store(c)
  PROVE  Game!Next
<1> DEFINE k == calls[c].job
           dto == calls[c].dto
<1>1. /\ ReportCommit(c) /\ calls[c].step = "report"
      /\ raced' = IF Outdated(c, k) THEN raced \cup {k} ELSE raced
      /\ UNCHANGED <<working, trusted, link, asks, render, given, handed>>
  BY DEF Store, ReportCommit
<1>2. /\ dto \in ReportStatus /\ WasGiven(k, carried[c]) /\ k \in Jobs /\ Exists(k)
  BY <1>1 DEF ReportCommit, SharedInv, IInv, TypeOK, Call, ListsServe, ListsKept, WasGiven
<1>3. \A v \in Workers : Reading(v)' = Reading(v)
  BY <1>1 DEF Reading
<1>4. \A j \in Jobs : /\ j # k => job'[j] = job[j]
                      /\ j = k =>
                           /\ dto = "none" => job'[j].status = job[j].status
                           /\ dto \in {"PROCESSING", "COMPLETED"} => job'[j].status = dto
                           /\ dto = "FAILED" => job'[j].status \in {"FAILED", "PENDING"}
  BY <1>1, ReportQuiet
<1>5. CASE dto \in {"PROCESSING", "COMPLETED"}
  <2>1. ASSUME dto = "PROCESSING"
        PROVE  Game!SetStatus({k}, "LEASED")
    <3>1. \A j \in Jobs : Seen(j)' = IF j \in {k} THEN "LEASED" ELSE Seen(j)
      BY <1>1, <1>4, <2>1 DEF Seen
    <3> QED
      BY <1>1, <3>1, StatusMoves
  <2>2. ASSUME dto = "COMPLETED"
        PROVE  Game!SetStatus({k}, "COMPLETED")
    <3>1. \A j \in Jobs : Seen(j)' = IF j \in {k} THEN "COMPLETED" ELSE Seen(j)
      BY <1>1, <1>4, <2>2 DEF Seen
    <3> QED
      BY <1>1, <3>1, StatusMoves
  <2>3. given[k] # {} /\ (k \notin raced => /\ carried[c] \subseteq given[k]
                                            /\ given[k] \subseteq trusted[k])
    BY <1>2 DEF WasGiven, SharedInv, ListsServe, ListsKept
  <2>4. \/ given[k] = trusted[k] /\ UNCHANGED raced
        \/ raced' = raced \cup {k}
    BY <1>1, <1>5, <2>3 DEF Outdated
  <2>5. Game!Exists(k)
    BY <1>2, TableViews DEF Game!Exists
  <2>6. UNCHANGED [w \in Workers |-> Reading(w)]
    BY <1>3
  <2>7. Game!Report(k)
    <3>1. \E status \in {"LEASED", "COMPLETED"} : Game!SetStatus({k}, status)
      BY <1>5, <2>1, <2>2
    <3>2. given[k] = [j \in Jobs |-> [status |-> Seen(j), trusted |-> trusted[j]]][k].trusted
          \/ raced' = raced \cup {k}
      BY <1>2, <2>4
    <3> HIDE DEF k
    <3> QED
      BY <1>1, <2>3, <2>4, <2>5, <2>6, <3>1, <3>2 DEF Game!Report
  <2> QED
    BY <1>2, <2>7 DEF Game!Next
<1>6. CASE dto \notin {"PROCESSING", "COMPLETED"}
  <2>1. UNCHANGED raced
    BY <1>1, <1>6 DEF Outdated
  <2>2. CASE job'[k].status = "PENDING"
    <3>1. \A j \in Jobs : \/ job'[j].status = job[j].status
                          \/ Exists(j) /\ job'[j].status = "PENDING"
      BY <1>2, <1>4, <2>2
    <3> QED
      BY <1>1, <1>3, <2>1, <3>1, QuietRows
  <2>3. CASE job'[k].status # "PENDING"
    <3>1. \A j \in Jobs : \/ job'[j].status = job[j].status
                          \/ Exists(j) /\ job'[j].status = "FAILED"
      BY <1>2, <1>4, <1>6, <2>3 DEF ReportStatus
    <3> QED
      BY <1>1, <1>3, <2>1, <3>1, QuietRows
  <2> QED
    BY <2>2, <2>3
<1> QED
  BY <1>5, <1>6

(* A deletion.                                                             *)
LEMMA RemoveSeen ==
  ASSUME SharedInv, NEW k \in Jobs, Remove(k)
  PROVE  Game!Next
<1>1. /\ Exists(k) /\ job' = [job EXCEPT ![k] = BlankRow("DELETED")]
      /\ trusted' = [trusted EXCEPT ![k] = {}]
      /\ link' = Game!Unlinked(k)
      /\ given' = [given EXCEPT ![k] = {}]
      /\ UNCHANGED <<working, asks, render, handed, raced>>
  BY DEF Remove, DeleteJob
<1>2. job \in [Jobs -> Row] /\ trusted \in [Jobs -> SUBSET Players]
  BY RowTypes DEF SharedInv, ListTypes
<1>3. \A j \in Jobs : /\ Seen(j)' = IF j = k THEN "DELETED" ELSE Seen(j)
                      /\ trusted'[j] = IF j = k THEN {} ELSE trusted[j]
  BY <1>1, <1>2 DEF Seen, BlankRow
<1>4. [j \in Jobs |-> [status |-> Seen(j), trusted |-> trusted[j]]]' =
        [[j \in Jobs |-> [status |-> Seen(j), trusted |-> trusted[j]]]
           EXCEPT ![k] = [status |-> "DELETED", trusted |-> {}]]
  BY <1>3
<1>5. Game!Exists(k)
  BY <1>1, TableViews DEF Game!Exists
<1>6. UNCHANGED [w \in Workers |-> Reading(w)]
  BY <1>1 DEF Reading
<1>7. Game!Delete(k)
  BY <1>1, <1>4, <1>5, <1>6 DEF Game!Delete
<1> QED
  BY <1>7 DEF Game!Next

(* Every step of the whole is a step of the enqueues on their reduced queue,*)
(* or leaves it alone.                                                     *)
LEMMA NextSeen ==
  ASSUME SharedInv, [SharedNext]_sharedVars
  PROVE  [Game!Next]_(Game!vars)
<1>1. CASE UNCHANGED sharedVars
  <2>1. UNCHANGED <<job, working, trusted, link, asks, render, given, handed, raced>>
    BY <1>1 DEF sharedVars, vars, lists
  <2> QED
    BY <2>1 DEF Game!vars, Seen, Reading
<1> QED
  BY <1>1, EnqueueSeen, ClaimSeen, HandOutSeen, ForgetSeen, SendSeen, StoreSeen, DropSeen,
     RemoveSeen, AdministerSeen
  DEF SharedNext
-------------------------------------------------------------------------------
(* The whole starts with everything empty.                                 *)
LEMMA InitShared == SharedInit => SharedInv /\ Game!Init
<1> SUFFICES ASSUME SharedInit
             PROVE  SharedInv /\ Game!Init
  OBVIOUS
<1>1. IInv
  BY InitType, InitClaim, InitAdmitted DEF SharedInit, IInv
<1>2. \A j \in Jobs : /\ job[j] = BlankRow("NEW") /\ Seen(j) = "NEW" /\ ~Exists(j)
  BY DEF SharedInit, Init, BlankRow, Seen, Exists, JobStatus
<1>3. Game!Init
  <2>1. [j \in Jobs |-> [status |-> Seen(j), trusted |-> trusted[j]]] =
          [j \in Jobs |-> [status |-> "NEW", trusted |-> {}]]
    BY <1>2 DEF SharedInit
  <2>2. [w \in Workers |-> Reading(w)] = [w \in Workers |-> NoJob]
    BY DEF SharedInit, Init, Reading
  <2> QED
    BY <2>1, <2>2 DEF SharedInit, Game!Init, Game!IdleCall
<1>4. GameProofs!IInv
  BY <1>3, SameStates, GameProofs!InitIInv, GameAssumption DEF GameProofs!InitIInv
<1>5. ListTypes /\ ListsServe
  BY <1>2 DEF SharedInit, Init, IdleCall, ListTypes, ListsServe, ListsKept, WasGiven,
              HolderRendersPayload, ServedPayload, BlankRow
<1> QED
  BY <1>1, <1>3, <1>4, <1>5 DEF SharedInv

(* SharedInv is inductive: each part of it with the steps of its side.     *)
LEMMA NextShared == SharedInv /\ [SharedNext]_sharedVars => SharedInv'
<1> SUFFICES ASSUME SharedInv, [SharedNext]_sharedVars
             PROVE  SharedInv'
  OBVIOUS
<1>1. IInv'
  BY QueueSteps, NextType, NextClaim, NextAdmitted DEF SharedInv, IInv
<1>2. GameProofs!IInv'
  <2>1. [GameProofs!Next]_(GameProofs!vars)
    BY NextSeen, SameSteps DEF Game!vars, GameProofs!vars
  <2> QED
    BY <2>1, GameProofs!NextIInv, GameAssumption
    DEF GameProofs!NextIInv, GameProofs!EnqueueAssumption, SharedInv
<1> QED
  BY <1>1, <1>2, NextServes DEF SharedInv

(* It holds in every reachable state.                                      *)
LEMMA SharedHolds == SharedSpec => []SharedInv
BY InitShared, NextShared, PTL DEF SharedSpec

(* What is proved of the queue holds with the enqueues around it.           *)
THEOREM QueueRefined == SharedSpec => Spec
<1>1. SharedInit => Init
  BY DEF SharedInit
<1> QED
  BY <1>1, QueueSteps, PTL DEF SharedSpec, Spec

(* The reduced queue of Enqueue is an abstraction of the whole queue: leases*)
(* (claim and payload read), reports, admin requests, sweeps, lapses and   *)
(* deletions of jobs.service.ts are each one of its steps or none.         *)
THEOREM SharedImplementsEnqueue == SharedSpec => ImplementsEnqueue
BY InitShared, SharedHolds, NextSeen, PTL DEF SharedSpec, ImplementsEnqueue, Game!Spec

(* Both sides keep their types on the common table.                        *)
THEOREM SharedTypes == SharedSpec => []SharedTypeOK
<1>1. SharedInv => SharedTypeOK
  BY SameStates
  DEF SharedInv, IInv, GameProofs!IInv, ListTypes, ListsServe, ListsKept, SharedTypeOK
<1> QED
  BY <1>1, SharedHolds, PTL

(* Whatever interleaves with the two statements of the lease, the holder of a*)
(* job renders its payload (jobs.service.ts:357-359).                      *)
THEOREM HoldersRenderPayload == SharedSpec => []HolderRendersPayload
<1>1. SharedInv => HolderRendersPayload
  BY DEF SharedInv, ListsServe
<1> QED
  BY <1>1, SharedHolds, PTL

(* A COMPLETED job's result was rendered for every player linked to it, races*)
(* and outdated reports aside (jobs.service.ts:284).                       *)
THEOREM ResultsServeLinked == SharedSpec => []ResultServesLinked
<1>1. SharedInv => ResultServesLinked
  <2> SUFFICES ASSUME SharedInv, NEW j \in Jobs \ raced, NEW p \in Players,
                      job[j].status = "COMPLETED", link[p] = j
               PROVE  p \in served[j]
    BY DEF ResultServesLinked
  <2>1. GameProofs!Exists(j)
    BY TableViews DEF GameProofs!Exists
  <2>2. p \in trusted[j]
    BY <2>1 DEF SharedInv, GameProofs!IInv, GameProofs!PayloadMatchesLinks
  <2> QED
    BY <2>2 DEF SharedInv, ListsServe, ServedPayload
<1> QED
  BY <1>1, SharedHolds, PTL

(* Races aside, the whole queue never lists for a job other players than    *)
(* those whose Match rows link it.                                          *)
THEOREM SharedPayloadsMatch == SharedSpec => []PayloadMatchesLinks
<1>1. SharedInv => PayloadMatchesLinks
  BY SameStates DEF SharedInv, GameProofs!IInv, PayloadMatchesLinks
<1> QED
  BY <1>1, SharedHolds, PTL

(* So nobody joins a job whose payload was read in the whole queue either. *)
THEOREM SharedLinkedRendered == SharedSpec => []LinkedIsRendered
<1>1. SharedInv => LinkedIsRendered
  <2>1. GameProofs!IInv => GameProofs!LinkedIsRendered
    BY DEF GameProofs!IInv, GameProofs!LinkedIsRendered, GameProofs!PayloadMatchesLinks,
           GameProofs!RenderedAsGiven, GameProofs!Exists
  <2> QED
    BY <2>1, SameStates DEF SharedInv, LinkedIsRendered
<1> QED
  BY <1>1, SharedHolds, PTL
===============================================================================
