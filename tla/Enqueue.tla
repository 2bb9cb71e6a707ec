-------------------------------- MODULE Enqueue --------------------------------
(***************************************************************************)
(* enqueueClipForPlayer for the players of one game (one share code): a    *)
(* player joins a job of the game that is still PENDING, or gets a job of  *)
(* their own.  Each player's Match row links the job that serves them; the *)
(* job's payload lists the steam ids the worker will render (trusted).     *)
(*                                                                         *)
(* Handlers interleave with each other and with the queue, which is here   *)
(* reduced to what enqueueing sees of it: PENDING or not, and the lists    *)
(* the lease handlers read.  CLAIMED and LEASED are the row status LEASED  *)
(* or PROCESSING before and after a lease handler has read the payload     *)
(* since the job was leased.  The transaction runs at READ COMMITTED: each *)
(* of its reads is a step, and its writes, which the row lock taken by the *)
(* first of them ties together, are one.                                   *)
(***************************************************************************)
EXTENDS Naturals, FiniteSets

CONSTANTS Players,  \* players of the game with an account
          Jobs,     \* job ids, ordered by age; their number bounds the runs
          Calls,    \* slots for enqueue requests in flight
          Leases,   \* slots for lease requests in flight
          NoPlayer, NoJob

ASSUME EnqueueAssumption ==
  /\ Jobs \subseteq Nat
  /\ NoPlayer \notin Players
  /\ NoJob \notin Jobs

VARIABLES row,    \* [Jobs -> status and payload of the job]
          link,   \* [Players -> Jobs \cup {NoJob}]: jobId of the Match row, if any
          given,  \* [Jobs -> SUBSET Players]: the list last read for a worker
          leases, \* [Leases -> Jobs \cup {NoJob}]: leased, payload not read yet
          calls,  \* [Calls -> enqueue handler]
          raced   \* jobs that a racing enqueue or an outdated report wrote (bookkeeping)

vars == <<row, link, given, leases, calls, raced>>

Status == {"NEW", "PENDING", "CLAIMED", "LEASED", "COMPLETED", "STOPPED", "DELETED"}

Exists(j) == row[j].status \notin {"NEW", "DELETED"}

IdleCall == [step |-> "idle", player |-> NoPlayer, job |-> NoJob, seen |-> {}]

Init == /\ row = [j \in Jobs |-> [status |-> "NEW", trusted |-> {}]]
        /\ link = [p \in Players |-> NoJob]
        /\ given = [j \in Jobs |-> {}]
        /\ leases = [l \in Leases |-> NoJob]
        /\ calls = [c \in Calls |-> IdleCall]
        /\ raced = {}
-------------------------------------------------------------------------------
(* The handler, from its first read to its commit.                         *)

(* The first read finds no linked job; otherwise that job is the answer    *)
(* and nothing changes.                                                    *)
EnqueueStart(c, p) ==
  /\ calls[c].step = "idle"
  /\ link[p] = NoJob
  /\ calls' = [calls EXCEPT ![c] = [IdleCall EXCEPT !.step = "recheck", !.player = p]]
  /\ UNCHANGED <<row, link, given, leases, raced>>

(* The same read again, inside the transaction.                            *)
EnqueueRecheck(c) ==
  /\ calls[c].step = "recheck"
  /\ calls' = [calls EXCEPT ![c] = IF link[calls[c].player] # NoJob THEN IdleCall
                                   ELSE [@ EXCEPT !.step = "find"]]
  /\ UNCHANGED <<row, link, given, leases, raced>>

PendingJobs == {j \in Jobs : row[j].status = "PENDING"}

(* The oldest PENDING job of the game, with the payload it has now.        *)
EnqueueFind(c) ==
  /\ calls[c].step = "find"
  /\ \/ /\ PendingJobs = {}
        /\ calls' = [calls EXCEPT ![c] = [@ EXCEPT !.step = "create"]]
     \/ \E j \in PendingJobs :
          /\ \A k \in PendingJobs : j <= k
          /\ calls' = [calls EXCEPT ![c] = [@ EXCEPT !.step = "merge", !.job = j,
                                                     !.seen = row[j].trusted]]
  /\ UNCHANGED <<row, link, given, leases, raced>>

(* Variant: the merge is not guarded on the job still being PENDING.       *)
MergeableIfExists(j) == Exists(j)

Mergeable(j) == row[j].status = "PENDING"

(* Variant: the merge writes the new player alone.                         *)
OnlyNewPlayer(seen, p) == {p}

(* The payload that was read, with the player's steam id in it.            *)
WithTrusted(seen, p) == seen \cup {p}

(* Bookkeeping: player p of call c is linked to j.  A job p was linked to  *)
(* meanwhile is taken over, and a payload somebody changed meanwhile is    *)
(* written back as it was.                                                 *)
Racing(p, j, stale) == (IF stale THEN {j} ELSE {}) \cup ({link[p]} \ {NoJob})

(* The job is still PENDING: payload and link are written together.        *)
EnqueueMerge(c) ==
  LET p == calls[c].player
      j == calls[c].job
  IN /\ calls[c].step = "merge"
     /\ Mergeable(j)
     /\ row' = [row EXCEPT ![j].trusted = WithTrusted(calls[c].seen, p)]
     /\ link' = [link EXCEPT ![p] = j]
     /\ raced' = raced \cup Racing(p, j, row[j].trusted # calls[c].seen)
     /\ calls' = [calls EXCEPT ![c] = IdleCall]
     /\ UNCHANGED <<given, leases>>

(* It was leased, ended or deleted since: fall through.                    *)
EnqueueMergeLost(c) ==
  /\ calls[c].step = "merge"
  /\ ~Mergeable(calls[c].job)
  /\ calls' = [calls EXCEPT ![c] = [@ EXCEPT !.step = "create", !.job = NoJob, !.seen = {}]]
  /\ UNCHANGED <<row, link, given, leases, raced>>

NextId(j) == row[j].status = "NEW" /\ \A k \in Jobs : k < j => row[k].status # "NEW"

EnqueueCreate(c) ==
  \E j \in Jobs :
    /\ calls[c].step = "create"
    /\ NextId(j)
    /\ row' = [row EXCEPT ![j] = [status |-> "PENDING", trusted |-> {calls[c].player}]]
    /\ link' = [link EXCEPT ![calls[c].player] = j]
    /\ raced' = raced \cup Racing(calls[c].player, j, FALSE)
    /\ calls' = [calls EXCEPT ![c] = IdleCall]
    /\ UNCHANGED <<given, leases>>

(* The transaction is rolled back, or the process restarted, before it.    *)
EnqueueFails(c) ==
  /\ calls[c].step # "idle"
  /\ calls' = [calls EXCEPT ![c] = IdleCall]
  /\ UNCHANGED <<row, link, given, leases, raced>>
-------------------------------------------------------------------------------
(* The queue, as far as enqueueing sees it (JobQueue has the whole of it). *)

SetStatus(jobs, status) ==
  /\ row' = [j \in Jobs |-> IF j \in jobs THEN [row[j] EXCEPT !.status = status] ELSE row[j]]
  /\ UNCHANGED <<link, calls>>

With(statuses) == {j \in Jobs : row[j].status \in statuses}

(* The lease statement, of a PENDING job or of one whose lease lapsed.  Its *)
(* handler goes on to read the job, unless it ends here.                   *)
Claim(l, j) == /\ leases[l] = NoJob
               /\ j \in With({"PENDING", "CLAIMED", "LEASED"})
               /\ SetStatus({j}, "CLAIMED")
               /\ \/ leases' = [leases EXCEPT ![l] = j]
                  \/ UNCHANGED leases
               /\ UNCHANGED <<given, raced>>

(* The read of the job for the worker.  It is a statement of its own, and  *)
(* the job may have left the lease, or been leased again, before it.       *)
HandOut(l) == LET j == leases[l]
              IN /\ j # NoJob /\ Exists(j)
                 /\ SetStatus({j} \cap With({"CLAIMED"}), "LEASED")
                 /\ given' = [given EXCEPT ![j] = row[j].trusted]
                 /\ leases' = [leases EXCEPT ![l] = NoJob]
                 /\ UNCHANGED raced

(* The job is gone, the process restarted, or the worker does not wait for *)
(* the answer.                                                             *)
LeaseForgotten(l) == /\ leases[l] # NoJob
                     /\ leases' = [leases EXCEPT ![l] = NoJob]
                     /\ UNCHANGED <<row, link, given, calls, raced>>

(* Back in the queue: a failed attempt, lapsed leases (one statement), an   *)
(* admin's retry, a failure reported on a COMPLETED job that has attempts  *)
(* left.                                                                   *)
Requeue(jobs) == /\ jobs \subseteq With({"CLAIMED", "LEASED", "STOPPED", "COMPLETED"})
                 /\ SetStatus(jobs, "PENDING")
                 /\ UNCHANGED <<given, leases, raced>>

(* CANCELLED, or FAILED for good (a COMPLETED job by a stale cancel or      *)
(* sweep; the sweep fails many in one statement).                          *)
Stop(jobs) == /\ jobs \subseteq With({"PENDING", "CLAIMED", "LEASED", "COMPLETED"})
              /\ SetStatus(jobs, "STOPPED")
              /\ UNCHANGED <<given, leases, raced>>

(* A worker that was handed the job goes on with it or completes it, also   *)
(* when it is too late (on a job that has ended, or with a write decided   *)
(* before its lease ended; JobQueue has the ways).  It renders the list    *)
(* that was last read for a worker, or an older one.  Bookkeeping: a list  *)
(* that is not the payload any more races.                                 *)
Report(j) == /\ Exists(j)
             /\ given[j] # {}
             /\ \E status \in {"LEASED", "COMPLETED"} : SetStatus({j}, status)
             /\ \/ given[j] = row[j].trusted /\ UNCHANGED raced
                \/ raced' = raced \cup {j}
             /\ UNCHANGED <<given, leases>>

(* Variant: onDelete of Match.job leaves the column alone.                 *)
KeepsLinks(j) == link

(* onDelete: SetNull unlinks every Match row.                              *)
Unlinked(j) == [p \in Players |-> IF link[p] = j THEN NoJob ELSE link[p]]

(* The owner deletes the job.                                              *)
Delete(j) ==
  /\ Exists(j)
  /\ row' = [row EXCEPT ![j] = [status |-> "DELETED", trusted |-> {}]]
  /\ link' = Unlinked(j)
  /\ given' = [given EXCEPT ![j] = {}]
  /\ UNCHANGED <<leases, calls, raced>>
-------------------------------------------------------------------------------
Next ==
  \/ \E c \in Calls : \/ \E p \in Players : EnqueueStart(c, p)
                      \/ EnqueueRecheck(c) \/ EnqueueFind(c) \/ EnqueueMerge(c)
                      \/ EnqueueMergeLost(c) \/ EnqueueCreate(c) \/ EnqueueFails(c)
  \/ \E l \in Leases : (\E j \in Jobs : Claim(l, j)) \/ HandOut(l) \/ LeaseForgotten(l)
  \/ \E j \in Jobs : Report(j) \/ Delete(j)
  \/ \E jobs \in SUBSET Jobs : Requeue(jobs) \/ Stop(jobs)

Spec == Init /\ [][Next]_vars
-------------------------------------------------------------------------------
(* TypeOK: the variables have their types, a Match row links an existing   *)
(* job (the foreign key), and no job has an empty list of players.         *)
TypeOK ==
  /\ row \in [Jobs -> [status : Status, trusted : SUBSET Players]]
  /\ link \in [Players -> {j \in Jobs : Exists(j)} \cup {NoJob}]
  /\ \A j \in Jobs : Exists(j) => row[j].trusted # {}
  /\ given \in [Jobs -> SUBSET Players]
  /\ leases \in [Leases -> Jobs \cup {NoJob}]
  /\ calls \in [Calls -> [step : {"idle", "recheck", "find", "merge", "create"},
                          player : Players \cup {NoPlayer},
                          job : Jobs \cup {NoJob},
                          seen : SUBSET Players]]
  /\ raced \subseteq Jobs

(* PayloadMatchesLinks: a job renders exactly the players whose Match rows  *)
(* link it ("their steamid is added to trustedSteamIds and their Match row  *)
(* links the same job"), unless two enqueues raced on it.                   *)
PayloadMatchesLinks ==
  \A j \in Jobs \ raced, p \in Players :
    Exists(j) => (p \in row[j].trusted <=> link[p] = j)

(* LinkedIsRendered: a player linked to a job that a worker has, or that is *)
(* COMPLETED, is on the list that worker was given: no player joins a job   *)
(* after its payload was read (the guard at jobs.service.ts:357-362), as   *)
(* long as enqueues do not race on it and no report of an outdated list    *)
(* revives it.                                                             *)
LinkedIsRendered ==
  \A j \in Jobs \ raced, p \in Players :
    link[p] = j /\ row[j].status \in {"LEASED", "COMPLETED"} => p \in given[j]

(* LinkedIsTrusted: "whichever commit wins, the payload the worker reads is *)
(* consistent" (jobs.service.ts:357-359) and one render serves everyone who *)
(* joined: a linked player is always on the payload's list.                 *)
LinkedIsTrusted ==
  \A j \in Jobs, p \in Players : link[p] = j => p \in row[j].trusted
===============================================================================
