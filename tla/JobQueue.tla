------------------------------- MODULE JobQueue -------------------------------
(***************************************************************************)
(* The clip job queue of aimtracer-api: one row per job in Postgres, the   *)
(* worker protocol (lease, report), the admin requests (cancel, retry,     *)
(* reclip, delete) and the maintenance sweep cleanupStaleLeases.           *)
(*                                                                         *)
(* Every request is a handler on Node's event loop that may be suspended   *)
(* at each await.  A handler that reads a row and later writes it is       *)
(* therefore two steps, and its call record keeps the row it read (seen).  *)
(* A single SQL statement is one step.                                     *)
(*                                                                         *)
(* Time appears only as the state of a row's lease: "none" (lease_expires_ *)
(* at is null), "live" (in the future) or "lapsed" (in the past).          *)
(***************************************************************************)
EXTENDS Naturals, FiniteSets

CONSTANTS Jobs,         \* job ids, ordered as created_at orders the rows
          Workers,      \* enabled render machines
          Calls,        \* slots for report and admin requests in flight
          Sweeps,       \* slots for cleanupStaleLeases runs in flight
          MaxAttempts,  \* maxAttempts of every job
          SweepLimit,   \* LIMIT of the sweep's second statement
          Requests,     \* admin and player requests the environment makes
          NoWorker, NoJob

RequestKinds == {"cancel", "retry", "reclip", "delete"}

ASSUME JobQueueAssumption ==
  /\ Jobs \subseteq Nat
  /\ MaxAttempts \in Nat \ {0}
  /\ SweepLimit \in Nat \ {0}
  /\ Requests \subseteq RequestKinds
  /\ NoWorker \notin Workers
  /\ NoJob \notin Jobs

VARIABLES job,      \* [Jobs -> Row]: the table "jobs"
          working,  \* [Workers -> Jobs \cup {NoJob}]: what each worker renders
          calls,    \* [Calls -> Call]: report and admin handlers in flight
          sweeps    \* [Sweeps -> Sweep]: cleanup runs in flight

vars == <<job, working, calls, sweeps>>
-------------------------------------------------------------------------------
(* Rows.  NEW is a job not created yet, DELETED one whose row is gone.     *)

JobStatus == {"PENDING", "LEASED", "PROCESSING", "COMPLETED", "FAILED", "CANCELLED"}
Terminal == {"COMPLETED", "FAILED", "CANCELLED"}
Leased == {"LEASED", "PROCESSING"}

Row == [status : JobStatus \cup {"NEW", "DELETED"},
        leasedBy : Workers \cup {NoWorker},
        lease : {"none", "live", "lapsed"},
        attempts : 0 .. MaxAttempts,
        result : BOOLEAN]            \* result is not null

BlankRow(status) == [status |-> status, leasedBy |-> NoWorker, lease |-> "none",
                     attempts |-> 0, result |-> FALSE]

Exists(j) == job[j].status \in JobStatus

(* What a handler keeps of the row it read.  (It reads the expiry too, but  *)
(* only an empty branch looks at it.)                                      *)
Snapshot == [status : JobStatus \cup {"NEW", "DELETED"},
             leasedBy : Workers \cup {NoWorker},
             attempts : 0 .. MaxAttempts,
             result : BOOLEAN]

SnapshotOf(row) == [status |-> row.status, leasedBy |-> row.leasedBy,
                    attempts |-> row.attempts, result |-> row.result]

(* Handlers between their read and their write; dto is the status a report *)
(* carries ("none" for a plain heartbeat).                                 *)

ReportStatus == {"none", "PROCESSING", "COMPLETED", "FAILED"}
Final == {"COMPLETED", "FAILED"}

Call == [step : {"idle", "report", "cancel", "retry", "reclip"},
         by : Workers \cup {NoWorker},
         job : Jobs \cup {NoJob},
         dto : ReportStatus,
         seen : Snapshot]

IdleCall == [step |-> "idle", by |-> NoWorker, job |-> NoJob, dto |-> "none",
             seen |-> SnapshotOf(BlankRow("NEW"))]

Sweep == [step : {"idle", "released", "selected"}, ids : SUBSET Jobs]

IdleSweep == [step |-> "idle", ids |-> {}]

Writing(c) == calls[c].step # "idle"

(* A statement that may be executing holds the lock of the row it writes.  *)
Locked(j) == \/ \E c \in Calls : Writing(c) /\ calls[c].job = j
             \/ \E s \in Sweeps : j \in sweeps[s].ids

Init == /\ job = [j \in Jobs |-> BlankRow("NEW")]
        /\ working = [w \in Workers |-> NoJob]
        /\ calls = [c \in Calls |-> IdleCall]
        /\ sweeps = [s \in Sweeps |-> IdleSweep]
-------------------------------------------------------------------------------
(* Creating and deleting rows.                                             *)

CreateJob(j) ==
  /\ job[j].status = "NEW"
  /\ \A k \in Jobs : k < j => job[k].status # "NEW"
  /\ job' = [job EXCEPT ![j] = BlankRow("PENDING")]
  /\ UNCHANGED <<working, calls, sweeps>>

DeleteJob(j) ==
  /\ "delete" \in Requests
  /\ Exists(j)
  /\ job' = [job EXCEPT ![j] = BlankRow("DELETED")]
  /\ UNCHANGED <<working, calls, sweeps>>

(* The visibility timeout of a lease passes.                               *)
LeaseLapses(j) ==
  /\ job[j].lease = "live"
  /\ job' = [job EXCEPT ![j].lease = "lapsed"]
  /\ UNCHANGED <<working, calls, sweeps>>
-------------------------------------------------------------------------------
(* Leasing.                                                                *)

(* Variants of Leasable with one condition of the query wrong: the attempt  *)
(* bound, the lapsed expiry, the status.                                   *)
LeasableNoBound(row) == \/ row.status = "PENDING"
                        \/ row.status \in Leased /\ row.lease = "lapsed"

LeasableLive(row) == /\ row.attempts < MaxAttempts
                     /\ row.status \in Leased \cup {"PENDING"}

LeasableCancelled(row) == /\ row.attempts < MaxAttempts
                          /\ \/ row.status \in {"PENDING", "CANCELLED"}
                             \/ row.status \in Leased /\ row.lease = "lapsed"

(* The candidates of the lease query.                                      *)
Leasable(row) ==
  /\ row.attempts < MaxAttempts
  /\ \/ row.status = "PENDING"
     \/ row.status \in Leased /\ row.lease = "lapsed"

LeasedRow(row, w) == [row EXCEPT !.status = "LEASED", !.leasedBy = w,
                                 !.lease = "live", !.attempts = @ + 1]

(* The oldest leasable row whose lock is free (SKIP LOCKED) is claimed in  *)
(* one statement.  The answer reaches the worker, or is lost with it.      *)
LeaseTo(w, j) ==
  /\ working[w] = NoJob
  /\ Leasable(job[j])
  /\ \A k \in Jobs : k < j /\ Leasable(job[k]) => Locked(k)
  /\ job' = [job EXCEPT ![j] = LeasedRow(@, w)]
  /\ \/ working' = [working EXCEPT ![w] = j]
     \/ UNCHANGED working
  /\ UNCHANGED <<calls, sweeps>>

Lease(w) == \E j \in Jobs : LeaseTo(w, j)
-------------------------------------------------------------------------------
(* The worker process.  It renders one job at a time, reports as often as  *)
(* it likes, and on any exception (a crash, a timeout, a report answered   *)
(* 400 or 404) forgets the job and polls again.                            *)

Abandon(w) ==
  /\ working[w] # NoJob
  /\ working' = [working EXCEPT ![w] = NoJob]
  /\ UNCHANGED <<job, calls, sweeps>>
-------------------------------------------------------------------------------
(* Reports: PATCH /worker/jobs/:id.                                        *)

(* Variant: every terminal row is exempt from the holder check.            *)
MayReportAnyTerminal(row, w) == row.leasedBy = w \/ row.status \in Terminal

(* The holder may report; on a COMPLETED or FAILED row anybody may.        *)
MayReport(row, w) == row.leasedBy = w \/ row.status \in {"COMPLETED", "FAILED"}

(* A reported failure is terminal only when the attempts are burnt.        *)
WillRequeue(seen, dto) == dto = "FAILED" /\ seen.attempts < MaxAttempts

IsTerminal(seen, dto) == \/ dto = "COMPLETED"
                         \/ dto = "FAILED" /\ ~WillRequeue(seen, dto)

(* Variant: a report without a result clears the stored one.              *)
OnlyReportedResult(seen, dto) == dto = "COMPLETED"

(* dto.result if the report carries one (COMPLETED does), else the result  *)
(* of the row that was read.                                               *)
ReportedResult(seen, dto) == seen.result \/ dto = "COMPLETED"

(* The row after the update: what the handler decided on the row it read,  *)
(* applied to the row as it is now.                                        *)
ReportedRow(row, seen, w, dto) ==
  LET cleared == WillRequeue(seen, dto) \/ IsTerminal(seen, dto)
  IN [row EXCEPT
        !.status = IF WillRequeue(seen, dto) THEN "PENDING"
                   ELSE IF dto = "none" THEN @ ELSE dto,
        !.leasedBy = IF cleared THEN NoWorker ELSE @,
        !.lease = IF cleared THEN "none" ELSE IF seen.leasedBy = w THEN "live" ELSE @,
        !.result = ReportedResult(seen, dto)]

(* Guard and read.  The worker goes on rendering meanwhile and may send    *)
(* more reports before the handler writes; after its final report it does  *)
(* not wait for more than the answer, or the client's timeout.  A          *)
(* report that is not admitted changes nothing (see Abandon).              *)
ReportRead(c, w, dto) ==
  /\ calls[c].step = "idle"
  /\ working[w] # NoJob
  /\ Exists(working[w])
  /\ MayReport(job[working[w]], w)
  /\ calls' = [calls EXCEPT ![c] = [step |-> "report", by |-> w, job |-> working[w],
                                   dto |-> dto, seen |-> SnapshotOf(job[working[w]])]]
  /\ working' = IF dto \in Final THEN [working EXCEPT ![w] = NoJob] ELSE working
  /\ UNCHANGED <<job, sweeps>>

ReportCommit(c) ==
  /\ calls[c].step = "report"
  /\ Exists(calls[c].job)
  /\ job' = [job EXCEPT ![calls[c].job] =
               ReportedRow(@, calls[c].seen, calls[c].by, calls[c].dto)]
  /\ calls' = [calls EXCEPT ![c] = IdleCall]
  /\ UNCHANGED <<working, sweeps>>
-------------------------------------------------------------------------------
(* Admin requests: each reads the row, refuses some statuses, and then     *)
(* updates the row by id alone.                                            *)

Accepts(op, status) ==
  \/ op = "cancel" /\ status \notin Terminal
  \/ op = "retry"  /\ status \in {"FAILED", "CANCELLED"}
  \/ op = "reclip" /\ status \in Terminal

AdminRead(c, op, j) ==
  /\ calls[c].step = "idle"
  /\ Exists(j)
  /\ Accepts(op, job[j].status)
  /\ calls' = [calls EXCEPT ![c] = [IdleCall EXCEPT !.step = op, !.job = j,
                                                    !.seen = SnapshotOf(job[j])]]
  /\ UNCHANGED <<job, working, sweeps>>

(* Variant: the cancel forgets to clear leasedBy.                          *)
CancelledRowStillHeld(row) == [row EXCEPT !.status = "CANCELLED", !.lease = "none"]

CancelledRow(row) == [row EXCEPT !.status = "CANCELLED", !.leasedBy = NoWorker,
                                 !.lease = "none"]

(* retryJob and the requeue branch of reclipByShareCode write the same.    *)
RequeuedRow(row) == [row EXCEPT !.status = "PENDING", !.leasedBy = NoWorker,
                                !.lease = "none", !.attempts = 0]

AdminCommit(c) ==
  /\ calls[c].step \in {"cancel", "retry", "reclip"}
  /\ Exists(calls[c].job)
  /\ job' = [job EXCEPT ![calls[c].job] =
               IF calls[c].step = "cancel" THEN CancelledRow(@) ELSE RequeuedRow(@)]
  /\ calls' = [calls EXCEPT ![c] = IdleCall]
  /\ UNCHANGED <<working, sweeps>>

(* The handler ends without its write: the row was deleted after the read  *)
(* (P2025), the database refused, or the API process was restarted.        *)
CallFails(c) ==
  /\ Writing(c)
  /\ calls' = [calls EXCEPT ![c] = IdleCall]
  /\ UNCHANGED <<job, working, sweeps>>
-------------------------------------------------------------------------------
(* cleanupStaleLeases: three statements, nothing held between them.        *)

(* Variant: the release statement without its lease_expires_at condition.  *)
ExpiredAny(row) == row.status \in Leased /\ row.lease # "none"

Expired(row) == row.status \in Leased /\ row.lease = "lapsed"

ReleasedRow(row) == [row EXCEPT !.status = "PENDING", !.leasedBy = NoWorker,
                                !.lease = "none"]

SweepRelease(s) ==
  /\ sweeps[s].step = "idle"
  /\ job' = [j \in Jobs |-> IF Expired(job[j]) THEN ReleasedRow(job[j]) ELSE job[j]]
  /\ sweeps' = [sweeps EXCEPT ![s].step = "released"]
  /\ UNCHANGED <<working, calls>>

(* Variant: an off-by-one in the attempts condition.                       *)
ExhaustedLate(row) == /\ row.attempts > MaxAttempts
                      /\ row.status \in JobStatus \ Terminal

Exhausted(row) == /\ row.attempts >= MaxAttempts
                  /\ row.status \in JobStatus \ Terminal

SweepSelect(s) ==
  /\ sweeps[s].step = "released"
  /\ \E ids \in SUBSET {j \in Jobs : Exhausted(job[j])} :
       /\ Cardinality(ids) = SweepLimit \/ ids = {j \in Jobs : Exhausted(job[j])}
       /\ Cardinality(ids) <= SweepLimit
       /\ sweeps' = [sweeps EXCEPT ![s] = IF ids = {} THEN IdleSweep
                                          ELSE [step |-> "selected", ids |-> ids]]
  /\ UNCHANGED <<job, working, calls>>

(* By id alone, and without clearing leasedBy or the lease.                *)
SweepFail(s) ==
  /\ sweeps[s].step = "selected"
  /\ job' = [j \in Jobs |-> IF j \in sweeps[s].ids /\ Exists(j)
                            THEN [job[j] EXCEPT !.status = "FAILED"] ELSE job[j]]
  /\ sweeps' = [sweeps EXCEPT ![s] = IdleSweep]
  /\ UNCHANGED <<working, calls>>

(* The run throws, or the API process is restarted, between statements.    *)
SweepDies(s) ==
  /\ sweeps[s].step # "idle"
  /\ sweeps' = [sweeps EXCEPT ![s] = IdleSweep]
  /\ UNCHANGED <<job, working, calls>>

SweepStep(s) == SweepRelease(s) \/ SweepSelect(s) \/ SweepFail(s)
-------------------------------------------------------------------------------
CallNext(c) ==
  \/ \E w \in Workers, dto \in ReportStatus : ReportRead(c, w, dto)
  \/ ReportCommit(c)
  \/ \E op \in Requests \ {"delete"}, j \in Jobs : AdminRead(c, op, j)
  \/ AdminCommit(c)
  \/ CallFails(c)

Next ==
  \/ \E j \in Jobs : CreateJob(j) \/ DeleteJob(j) \/ LeaseLapses(j)
  \/ \E w \in Workers : Lease(w) \/ Abandon(w)
  \/ \E c \in Calls : CallNext(c)
  \/ \E s \in Sweeps : SweepStep(s) \/ SweepDies(s)

Spec == Init /\ [][Next]_vars
-------------------------------------------------------------------------------
(* What holds in every state.                                              *)

(* TypeOK: every variable keeps its type; in particular the attempt counter *)
(* the lease query increments (jobs.service.ts:88) never passes maxAttempts. *)
TypeOK == /\ job \in [Jobs -> Row]
          /\ working \in [Workers -> Jobs \cup {NoJob}]
          /\ calls \in [Calls -> Call]
          /\ sweeps \in [Sweeps -> Sweep]

(* ClaimConsistent: whatever handlers interleave, a LEASED row always has a *)
(* holder and an expiry, so it can be reclaimed; and a row with a holder    *)
(* has an expiry and a burnt attempt, and is being rendered (or was failed  *)
(* by the sweep, which leaves the claim in place): no PENDING, COMPLETED or *)
(* CANCELLED row is still claimed.                                          *)
ClaimConsistent ==
  \A j \in Jobs :
    /\ job[j].status = "LEASED" => job[j].leasedBy # NoWorker
    /\ job[j].leasedBy # NoWorker => /\ job[j].lease # "none"
                                     /\ job[j].attempts > 0
                                     /\ job[j].status \in Leased \cup {"FAILED"}
-------------------------------------------------------------------------------
(* What a step may not do.  A handler's write is stale when another write  *)
(* reached the row since the handler read it; the code does not detect it. *)
(* The sweep fails the ids it selected without looking at the rows again.  *)

Stale(c) == SnapshotOf(job[calls[c].job]) # calls[c].seen

WritesBy(c, j) == Writing(c) /\ calls[c].job = j /\ calls'[c] = IdleCall

UncheckedWrite(j) == \/ \E c \in Calls : WritesBy(c, j) /\ Stale(c)
                     \/ \E s \in Sweeps : j \in sweeps[s].ids /\ sweeps'[s] = IdleSweep

(* CancelSticks: a cancelled job leaves CANCELLED only by an admin's retry  *)
(* or reclip, by deletion, or by a write decided before the cancel.  No     *)
(* report, lease or sweep that starts after the cancel revives it.          *)
CancelSticks ==
  [][\A j \in Jobs :
       job[j].status = "CANCELLED" /\ job'[j].status \notin {"CANCELLED", "DELETED"}
       => \/ UncheckedWrite(j)
          \/ \E c \in Calls : WritesBy(c, j) /\ calls[c].step \in {"retry", "reclip"}]_vars

Held(j, w) == /\ job[j].status \in Leased
              /\ job[j].leasedBy = w
              /\ job[j].lease = "live"

(* HolderUndisturbed: while a worker's lease is live, the job is taken from *)
(* it only by its own report, by a cancel, by deletion, by a write decided  *)
(* on a row that has changed since, or by the sweep's last statement: no    *)
(* lease, release, fresh requeue or fresh report of another worker does.    *)
HolderUndisturbed ==
  [][\A j \in Jobs, w \in Workers :
       Held(j, w) /\ ~(job'[j].status \in Leased /\ job'[j].leasedBy = w)
       => \/ job'[j].status = "DELETED"
          \/ UncheckedWrite(j)
          \/ \E c \in Calls : /\ WritesBy(c, j)
                              /\ calls[c].step = "cancel" \/ calls[c].by = w]_vars

(* ResultKept: the result a worker stored with COMPLETED is lost only by    *)
(* deletion or by a report that read the row before it was stored: later    *)
(* heartbeats, requeues, retries and sweeps all carry it along.             *)
ResultKept ==
  [][\A j \in Jobs :
       job[j].result /\ ~job'[j].result => job'[j].status = "DELETED" \/ UncheckedWrite(j)]_vars
-------------------------------------------------------------------------------
(* The claims of the table implement the abstract lease.                   *)

Lease0 == INSTANCE JobLease
            WITH holder <- [j \in Jobs |-> job[j].leasedBy],
                 claim <- [j \in Jobs |-> IF job[j].leasedBy # NoWorker /\ job[j].lease = "live"
                                          THEN "live" ELSE "over"],
                 attempts <- [j \in Jobs |-> job[j].attempts]

(* ImplementsLease: at most one holder, no live claim taken over, one       *)
(* attempt per claim and never more than MaxAttempts of them, through every *)
(* interleaving of leases, reports, admin requests and sweeps.              *)
ImplementsLease == Lease0!Spec
-------------------------------------------------------------------------------
(* Liveness.  Workers keep polling and their renders end; a lease nobody    *)
(* renews lapses; sweeps keep running and do not fail at every attempt.     *)
(* Nothing is assumed of reports, admins or the answers to them.            *)

LapseUnattended(j) == (\A w \in Workers : working[w] # j) /\ LeaseLapses(j)

Fairness == /\ WF_vars(\E w \in Workers : Lease(w))
            /\ \A w \in Workers : WF_vars(Abandon(w))
            /\ \A j \in Jobs : WF_vars(LapseUnattended(j))
            /\ \A s \in Sweeps : /\ WF_vars(SweepStep(s))
                                 /\ SF_vars(SweepSelect(s))
                                 /\ SF_vars(SweepFail(s))

FairSpec == Spec /\ Fairness

(* PROCESSING with no expiry and attempts left: neither the lease query nor *)
(* a statement of the sweep ever selects such a row.                        *)
Stranded(j) == /\ job[j].status = "PROCESSING"
               /\ job[j].lease = "none"
               /\ job[j].attempts < MaxAttempts

(* EveryJobSettles: a queued or claimed job, whatever its workers do, ends  *)
(* COMPLETED, FAILED or CANCELLED (or is deleted, or stranded as above).    *)
EveryJobSettles ==
  \A j \in Jobs :
    (job[j].status \in JobStatus \ Terminal /\ ~Stranded(j))
      ~> (job[j].status \in Terminal \cup {"DELETED"} \/ Stranded(j))
-------------------------------------------------------------------------------
(* What the repository says and the code does not do.                       *)

(* SweepSparesLiveLease: the sweep ends only stuck leases, so a job whose   *)
(* lease is live is not failed by it ("Releases truly stuck leases and      *)
(* marks exhausted attempts as FAILED", jobs.service.ts:728-730; a claim    *)
(* ends when its visibility timeout passes, CONTEXT.md:12).                  *)
SweepSparesLiveLease ==
  [][\A s \in Sweeps, j \in Jobs, w \in Workers :
       SweepFail(s) /\ Held(j, w) => job'[j].status # "FAILED"]_vars
===============================================================================
