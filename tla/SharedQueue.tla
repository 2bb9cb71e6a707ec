------------------------------ MODULE SharedQueue ------------------------------
(***************************************************************************)
(* The whole queue of JobQueue under the enqueues of Enqueue: the jobs of  *)
(* one game with their payloads, the players' Match rows, and what each    *)
(* worker renders.  Enqueue is used here as a component: its handlers run  *)
(* on the table of JobQueue, and what it says of the queue around them is  *)
(* what the leases, reports, admin requests and sweeps of JobQueue do      *)
(* (ImplementsEnqueue).  Jobs are created by enqueues alone; the admin's   *)
(* reclip, which rewrites payloads, is in Reclip.                          *)
(***************************************************************************)
EXTENDS JobQueue

CONSTANTS Players,   \* players of the game with an account
          NoPlayer,
          Enqueues   \* slots for enqueue requests in flight

ASSUME SharedQueueAssumption == NoPlayer \notin Players

VARIABLES trusted,  \* [Jobs -> SUBSET Players]: the payload's trustedSteamIds
          link,     \* [Players -> Jobs \cup {NoJob}]: jobId of the Match row, if any
          asks,     \* [Enqueues -> enqueue handler]
          render,   \* [Workers -> SUBSET Players]: the list the worker has, none
                    \*   until the lease handler has read it
          carried,  \* [Calls -> SUBSET Players]: the list behind a report (bookkeeping)
          served,   \* [Jobs -> SUBSET Players]: the list of the stored result (bookkeeping)
          given,    \* [Jobs -> SUBSET Players]: the list last read for a worker (bookkeeping)
          handed,   \* jobs whose payload was read since they were leased (bookkeeping)
          raced     \* jobs that a racing enqueue or an outdated report wrote (bookkeeping)

lists == <<trusted, link, asks, render, carried, served, given, handed, raced>>

sharedVars == <<vars, lists>>

SharedInit == /\ Init
              /\ trusted = [j \in Jobs |-> {}]
              /\ link = [p \in Players |-> NoJob]
              /\ asks = [a \in Enqueues |-> [step |-> "idle", player |-> NoPlayer,
                                             job |-> NoJob, seen |-> {}]]
              /\ render = [w \in Workers |-> {}]
              /\ carried = [c \in Calls |-> {}]
              /\ served = [j \in Jobs |-> {}]
              /\ given = [j \in Jobs |-> {}]
              /\ handed = {}
              /\ raced = {}
-------------------------------------------------------------------------------
(* The queue as enqueueing sees it.                                        *)

Seen(j) == IF job[j].status = "LEASED" THEN IF j \in handed THEN "LEASED" ELSE "CLAIMED"
           ELSE IF job[j].status = "PROCESSING" THEN "LEASED"
           ELSE IF job[j].status \in {"FAILED", "CANCELLED"} THEN "STOPPED"
           ELSE job[j].status

(* The lease handler of w that has not read the payload yet.               *)
Reading(w) == IF render[w] = {} THEN working[w] ELSE NoJob

Game == INSTANCE Enqueue
          WITH row <- [j \in Jobs |-> [status |-> Seen(j), trusted |-> trusted[j]]],
               leases <- [w \in Workers |-> Reading(w)],
               calls <- asks,
               Calls <- Enqueues,
               Leases <- Workers
-------------------------------------------------------------------------------
(* Enqueues.  They write payloads and links, and create rows.              *)

Ask(a) ==
  /\ UNCHANGED <<vars, trusted, render, carried, served, handed>>
  /\ \/ \E p \in Players : Game!EnqueueStart(a, p)
     \/ Game!EnqueueRecheck(a) \/ Game!EnqueueFind(a)
     \/ Game!EnqueueMergeLost(a) \/ Game!EnqueueFails(a)

Merge(a) ==
  /\ asks[a].step = "merge"
  /\ trusted' = [trusted EXCEPT ![asks[a].job] =
                   Game!WithTrusted(asks[a].seen, asks[a].player)]
  /\ UNCHANGED <<vars, render, carried, served, handed>>
  /\ Game!EnqueueMerge(a)

CreateFor(a) ==
  \E j \in Jobs :
    /\ CreateJob(j)
    /\ trusted' = [trusted EXCEPT ![j] = {asks[a].player}]
    /\ UNCHANGED <<render, carried, served, handed>>
    /\ Game!EnqueueCreate(a)
-------------------------------------------------------------------------------
(* Leases, in two statements: the claim, and the read of the job.          *)

Claim(w, j) ==
  /\ LeaseTo(w, j)
  /\ handed' = handed \ {j}
  /\ UNCHANGED <<trusted, link, asks, render, carried, served, given, raced>>

(* Whoever holds the job by now, the handler answers with what it reads.   *)
HandOut(w) ==
  LET j == working[w]
  IN /\ j # NoJob /\ render[w] = {} /\ Exists(j)
     /\ render' = [render EXCEPT ![w] = trusted[j]]
     /\ given' = [given EXCEPT ![j] = trusted[j]]
     /\ handed' = handed \cup {j}
     /\ UNCHANGED <<vars, trusted, link, asks, carried, served, raced>>

Forget(w) ==
  /\ Abandon(w)
  /\ render' = [render EXCEPT ![w] = {}]
  /\ UNCHANGED <<trusted, link, asks, carried, served, given, handed, raced>>
-------------------------------------------------------------------------------
(* Reports, of a worker that has the payload.                              *)

Send(c, w, dto) ==
  /\ render[w] # {}
  /\ ReportRead(c, w, dto)
  /\ carried' = [carried EXCEPT ![c] = render[w]]
  /\ render' = [render EXCEPT ![w] = IF dto \in Final THEN {} ELSE @]
  /\ UNCHANGED <<trusted, link, asks, served, given, handed, raced>>

(* Bookkeeping: the worker goes on with, or completes, an outdated list.   *)
Outdated(c, j) == /\ calls[c].dto \in {"PROCESSING", "COMPLETED"}
                  /\ carried[c] # trusted[j]

Store(c) ==
  LET j == calls[c].job
  IN /\ ReportCommit(c)
     /\ carried' = [carried EXCEPT ![c] = {}]
     /\ served' = [served EXCEPT ![j] = IF calls[c].dto = "COMPLETED" THEN carried[c] ELSE @]
     /\ raced' = IF Outdated(c, j) THEN raced \cup {j} ELSE raced
     /\ UNCHANGED <<trusted, link, asks, render, given, handed>>

Drop(c) == /\ CallFails(c)
           /\ carried' = [carried EXCEPT ![c] = {}]
           /\ UNCHANGED <<trusted, link, asks, render, served, given, handed, raced>>
-------------------------------------------------------------------------------
(* The row goes, and its payload and links with it.                        *)
Remove(j) ==
  /\ DeleteJob(j)
  /\ trusted' = [trusted EXCEPT ![j] = {}]
  /\ link' = Game!Unlinked(j)
  /\ given' = [given EXCEPT ![j] = {}]
  /\ UNCHANGED <<asks, render, carried, served, handed, raced>>

(* Cancels, retries and sweeps leave payloads and links alone.             *)
Administer ==
  /\ \/ \E j \in Jobs : LeaseLapses(j)
     \/ \E c \in Calls :
          \/ \E op \in Requests \cap {"cancel", "retry"}, j \in Jobs : AdminRead(c, op, j)
          \/ AdminCommit(c)
     \/ \E s \in Sweeps : SweepStep(s) \/ SweepDies(s)
  /\ UNCHANGED lists

SharedNext ==
  \/ \E a \in Enqueues : Ask(a) \/ Merge(a) \/ CreateFor(a)
  \/ \E w \in Workers : \/ \E j \in Jobs : Claim(w, j)
                        \/ HandOut(w) \/ Forget(w)
  \/ \E c \in Calls : \/ \E w \in Workers, dto \in ReportStatus : Send(c, w, dto)
                      \/ Store(c) \/ Drop(c)
  \/ \E j \in Jobs : Remove(j)
  \/ Administer

SharedSpec == SharedInit /\ [][SharedNext]_sharedVars
-------------------------------------------------------------------------------
(* SharedTypeOK: the queue and the enqueues have their types on the common *)
(* table; a worker that has no job has no list.                            *)
SharedTypeOK ==
  /\ TypeOK
  /\ Game!TypeOK
  /\ trusted \in [Jobs -> SUBSET Players]
  /\ render \in [Workers -> SUBSET Players]
  /\ carried \in [Calls -> SUBSET Players]
  /\ served \in [Jobs -> SUBSET Players]
  /\ handed \subseteq Jobs
  /\ \A w \in Workers : working[w] = NoJob => render[w] = {}

(* HolderRendersPayload: "whichever commit wins, the payload the worker     *)
(* reads is consistent" (jobs.service.ts:357-359): as long as a worker     *)
(* holds the job it renders, its list is the job's payload, through every  *)
(* interleaving of merges, lapses, sweeps and requeues with the two        *)
(* statements of the lease.                                                *)
HolderRendersPayload ==
  \A w \in Workers, j \in Jobs :
    working[w] = j /\ job[j].leasedBy = w /\ render[w] # {} => render[w] = trusted[j]

(* ResultServesLinked: "one render serves everyone who played the game"     *)
(* (jobs.service.ts:284): the result of a COMPLETED job was rendered for   *)
(* every player linked to the job, unless enqueues raced on it or a worker *)
(* reported on it with a list that had grown since.                        *)
ResultServesLinked ==
  \A j \in Jobs \ raced, p \in Players :
    job[j].status = "COMPLETED" /\ link[p] = j => p \in served[j]

(* PayloadMatchesLinks: what Enqueue says of payloads and links holds with  *)
(* the whole queue around it: a job renders exactly the players whose Match *)
(* rows link it, unless two enqueues raced on it (or an outdated report).   *)
PayloadMatchesLinks == Game!PayloadMatchesLinks

(* LinkedIsRendered: so does what it says of workers (jobs.service.ts:      *)
(* 357-362): a player linked to a job that a worker has read, or that is    *)
(* COMPLETED, is on the list that was last read of it, races aside.         *)
LinkedIsRendered == Game!LinkedIsRendered

(* ImplementsEnqueue: with the whole queue around them the enqueues behave *)
(* as with the reduced queue of Enqueue, so what holds there holds here.   *)
ImplementsEnqueue == Game!Spec
===============================================================================
