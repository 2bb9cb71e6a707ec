# aimtracer-api in TLA+

TLA+ models of the backend under `src/`: an API (NestJS, Prisma, Postgres) that
hands CS2 demo-clipping jobs to outbound-only render workers, and turns their
results into matches and clips. The models cover the API's concurrency: request
handlers that suspend at every `await`, read-then-write updates by id, leases
that lapse, sweeps and polls in the background, S3 and Steam beside the
database. TLC checks them on small instances; TLAPS proves every safety property
of the passing runs for all parameters.

Check a run with `tlc -config <run>.cfg <module>.tla` and the proofs with
`tlapm <module>Proofs.tla`. `PROJECT.json` lists the components, the runs, the
mutants that show each property can fail, the source lines each definition
stands for, the hazards, the findings and the theorems.

## The system

All state is in Postgres (and S3 for the media). Nothing is held in memory
between requests except the poller's `running` flag. Prisma calls outside
`$transaction` are one statement each; transactions run at READ COMMITTED.

| Component | State | Operations | Interacts with | Hard behaviour | Module |
|---|---|---|---|---|---|
| Job queue (`jobs.service.ts`, `worker.controller.ts`) | `jobs`: status, leasedBy, expiry, attempts, result | lease, report (PATCH), create, delete, cancel, retry, reclip, sweep | workers poll it; reports call the projection | report and admin updates by id after a check on an older row; leases lapse while workers live; sweeps from three callers | `JobQueue`, abstractly `JobLease` |
| Render worker (`examples/worker-poller.example.py`) | the job it renders | poll, render, upload, heartbeat, report | queue, S3 | crashes, lost answers, renders that outlive the lease | environment of `JobQueue` and `ClipStore` |
| Enqueue and merge (`jobs.service.ts`, `job-payload.util.ts`) | job payload (trusted steam ids), `matches.job_id` | enqueueClipForPlayer | queue, match history, frontend | merge into a PENDING job races leases and other merges; re-check in a transaction without a lock | `Enqueue` |
| Reclip (`jobs.service.ts`) | the same, over all jobs of a game | reclipByShareCode | queue, admin | four statements without a transaction among enqueues and leases | `Reclip` |
| Match and clip projection (`clips.service.ts`, `clip-ingest.util.ts`) | `matches.status`, `clips` | ingest, advance, fail, bulk updates | reports, admin requests, sweep | projections follow the job's write in later statements and may be lost; status compared with an earlier read | `MatchProjection` |
| Match history (`match-history.*`) | enrollment: status, auth code, tip of the share-code chain | enroll, re-anchor, baseline, enable, disable, delete, poll | Steam, enqueue | a poll in flight over a re-anchor; tip stored before the seeds are enqueued; caps checked before the enqueue; restarts | `MatchHistory` |
| Clip store (`s3-media.service.ts`, `admin.service.ts`, `clips.service.ts`) | clip rows, favorites, S3 objects | upload, ingest, delete clip/match/demo, orphan sweep, favorite | projection, workers, Discord | rows and objects listed at different moments; deletes in several steps | `ClipStore` |
| Discord (`discord-notify.service.ts`) | none | announce with retries | ingestion | retry limits, a dead webhook | `ClipStore` |
| Auth (`auth.service.ts`, `steam-openid.ts`, `player-session.guard.ts`) | invites, login states, players, sessions | begin/complete login, consume an invite, guard, logout | Steam OpenID | one-time state read before it is deleted; the last use of an invite | `Auth` |
| Workers and their logs (`worker-logs.service.ts`, bootstrap, setup) | `workers`, log lines | register, ship a batch, prune, tail | workers, dashboard | prunes in two statements overlap; ids are taken before they are committed | `WorkerLogs` |
| Admin lists, read API, guards, plumbing | none | queries, formatting, one lookup per request | all | none | not modelled |

## Modules

Each component has a module `X`, a module `MCX` with small instances, and a
module `XProofs` with its theorems. A handler that reads a row and later writes
it is several actions, one per statement, and what it read is kept in its call
record; a single SQL statement or transaction that cannot be split is one
action. Every handler may die between two of its steps (an exception, a lost
connection, a restart). Variables marked *bookkeeping* record which races
happened; no guard reads them.

| Module | Extends | Models |
|---|---|---|
| `JobLease` | - | abstract specification: jobs, their holder, whether the claim is live, attempts |
| `JobQueue` | - | the `jobs` table with lease, report, admin and sweep handlers and the workers; implements `JobLease` |
| `Enqueue` | - | `enqueueClipForPlayer` for the players of one game, with the queue as its environment |
| `SharedQueue` | `JobQueue` | the whole queue under the handlers of `Enqueue`, on one table; implements `Enqueue` and `JobQueue` |
| `Reclip` | `Enqueue` | `reclipByShareCode` composed with the enqueues and the queue of `Enqueue` |
| `MatchProjection` | - | Match and Clip rows of one job, with all handlers that write them |
| `MatchHistory` | - | one player's enrollment, the Steam chain, requests, polls, caps |
| `ClipStore` | - | rows, bucket, favorites, deletes, the orphan sweep, announcements of one game |
| `Auth` | - | invites, login states, players, sessions |
| `WorkerLogs` | - | worker rows, log lines, prunes, a dashboard that follows one worker |

Where components meet, each module keeps what it needs of the other and allows
every transition the other can make: `Enqueue` and `MatchProjection` reduce the
job to its status (PENDING or not; ended or not), `MatchHistory` takes one
enqueue as one idempotent step, `ClipStore` starts from a stored result. For
`Enqueue` this is not left to the reader: `SharedQueue` puts its handlers on the
table of `JobQueue`, and every step of the whole is shown to be one of its steps.

**JobQueue.** A row is `[status, leasedBy, lease, attempts, result]`. Time appears
only as the state of the row's lease: `none`, `live`, `lapsed`. Reports and admin
requests are `...Read`/`...Commit`; `LeaseTo` and `DeleteJob` are one statement;
`cleanupStaleLeases` is `SweepRelease`, `SweepSelect`, `SweepFail`. The answer to
a lease may be lost. A worker renders one job, reports as often as it likes and
may forget the job at any time (`Abandon`).

**Enqueue.** `row[j]` is a job's status and payload, `link[p]` the job of a
player's Match row, `given[j]` the list last read for a worker, `leases` the
lease handlers that have claimed a job and not read it yet. The handler's reads
(outside and inside the transaction) are steps of their own; its writes, tied
together by the row lock of the guarded update, are one. The queue around it is
`Claim`, `HandOut`, `Report`, `Requeue`, `Stop` and `Delete`; a lease reads the
payload after its claim, whatever became of the job in between. `raced`
(bookkeeping) holds the jobs that racing enqueues or a report with an outdated
list wrote.

**SharedQueue.** The variables of `JobQueue`, with each job's payload
(`trusted`), the Match rows (`link`), the enqueue handlers (`asks`) and each
worker's list (`render`). `Game == INSTANCE Enqueue WITH ...` maps the table to
the one `Enqueue` sees (`Seen`: the row status LEASED is CLAIMED until the lease
handler has read the payload, PROCESSING is LEASED, FAILED and CANCELLED are
STOPPED); its enqueue actions are used as they are, and the actions of
`JobQueue` say what they do to the lists. A lease is `Claim`, then `HandOut`; a
report needs a list to render (`Send`), and stores what came of it (`Store`). A
worker's lease request is taken to end before the same worker asks again: the
clients wait 30 and 35 seconds, the long poll ends after 25, and each worker id
is one process. Jobs are created by enqueues alone. The reclip rewrites payloads
and is composed with `Enqueue` in `Reclip`, not here.

**Reclip.** An admin's handler reads the Match rows, then the jobs, and chooses:
refresh the newest PENDING job, requeue an ended one, or create one; it then
links every Match row of the game and cancels the other PENDING jobs, each write
by id. `EnqueueStep` is a step of `Enqueue`. `late` records jobs refreshed after
they had left PENDING, `spared` duplicates that were queued again or whose
cancel failed (the code swallows that error).

**MatchProjection.** A handler writes the job's status (`Begin`) and goes on to
the projections statement by statement: `FindMatches`, one `SaveClip` per file,
one `AdvanceMatch` per match; or one `BulkUpdate`. `disorder` records that a
projection failed or was written after another handler had changed the job or
the match. Which clips a render yields is a parameter.

**MatchHistory.** A share code is its position in Steam's chain. A handler keeps
what it read of the row (`auth`, `start`) and where its walk is (`tip`, `next`);
`WalkNext` is one page. `fate[g]` says what became of a game. The `running` flag
is in memory: `Restart` clears it and every handler. Steam refuses an auth code
that was replaced, and any request when the platform key is bad; the client
takes every 403 for a refused auth code (`Answers`), so a valid enrollment may be
marked INVALID_AUTH. `seen` is the status a request read before it goes on to
write ACTIVE.

**ClipStore.** An object is `<<file, part>>`; a clip's public code numbers its
rows, so a deleted and re-rendered clip has another. An ingestion saves a clip
with its owner's match if it found that one, else with any it found, else with
none (`MatchOfSaved`). Deletes look up the files,
remove rows, the match, then objects; the sweep lists objects and rows at once in
either order. The job cancels that precede a delete are requests of `JobQueue`.
`leaked`, `since`, `pending`, `announced` and `readers` are bookkeeping.

**Auth.** A login is `begin`, (Steam's assertion), `complete`: read the state,
delete it, verify, look the player up, consume the invite in a transaction, open
the session. Expiries are actions of their own.

**WorkerLogs.** Lines are known by the ids the database's sequence gives. An
insert takes its ids one by one and commits them together, so a later id may be
visible first. `ReadCutoff` and `Prune` are the two statements of the prune.

## Runs

| Run | Instance | Distinct states | Shows |
|---|---|---|---|
| `queue_races` | 1 job, 2 workers, 2 calls, 1 sweep, 2 attempts, all admin requests | 1.9 M | `TypeOK`, `ClaimConsistent`, `CancelSticks`, `HolderUndisturbed`, `ResultKept`, and `ImplementsLease`: the table is an abstract lease |
| `queue_settle` | 1 job, 2 workers, 1 call, 1 sweep, 3 attempts, fairness | | `EveryJobSettles`: a queued or claimed job ends |
| `shared_queue` | 1 job, 2 players, 2 workers, 2 enqueues, 1 call, 1 sweep, 2 attempts, cancel and delete | 0.5 M | `SharedTypeOK`, `PayloadMatchesLinks`, `LinkedIsRendered`, `HolderRendersPayload`, `ResultServesLinked`, and `ImplementsEnqueue`: the whole queue does to the enqueues what `Enqueue` says |
| `reclip_collapses` | 2 players, 2 jobs, 1 enqueue, 1 lease, 1 reclip in flight, up to the states where every job is raced or late | 1.0 M | `ReclipTypeOK`, `LinkedIsListed`, `RenderedTogether`, `Collapses` |
| `projection_orders` | 2 players, a clip of each, 2 handlers, 3 public codes | 0.9 M | `TypeOK`, `MatchesAgree`, `ClipsOwned`, `RenderedStays`, `CodesStick` |
| `history_polls` | 3 games, 2 auth codes, 2 handlers, a cap of 1, 2 requests or failures, fairness | 0.5 M | `TypeOK`, `TipOwesNothing`, `DailyCap`, `ReauthRequired`, `BacklogEmpties` |
| `clip_store` | a file with its video and poster, 2 matches, 2 handlers, 2 rows, 2 posts | 2.7 M | `TypeOK`, `NothingLeaks`, `AnnouncedOnce`, `ObjectsSpared` |
| `auth_logins` | 2 people, 2 single-use invites, 2 states, 2 sessions, 2 calls | 0.4 M | `TypeOK`, `UsesPaid`, `StateUsedOnce`, `SessionsEarned` |
| `worker_logs` | 2 workers, 4 lines, 2 kept, 2 per page and batch, 2 calls | 2.7 M | `TypeOK`, `NewestKept`, `TailBounded`, `GapsExplained` |
| `sweep_fails_live` | as `queue_races`, 1 worker | | violation of `SweepSparesLiveLease` |
| `merge_loses_player` | `Enqueue` alone: 3 players, 2 jobs, 2 enqueues and 2 leases in flight | | violation of `LinkedIsTrusted` |
| `held_game_skipped` | as `history_polls`, safety only | | violation of `HeldGamesRetried` |

Why the bounds are enough. Two requests in flight give every pairwise race of
read and write, and in `JobQueue` a sweep makes a third actor; reports, admin
requests and sweeps touch one row, so one job suffices, and the lease's choice
among jobs changes nothing of another row. Two attempts separate "attempts left"
from "burnt", three leave a lease after a lost one. In `shared_queue` one job
shows every order of claim, merge, read, lapse and report; two enqueues race on
it, and two workers report on what the other holds; retries requeue a job as a
late failure report does, and are left to the theorems. Jobs taken over by another
one need two of them: `reclip_collapses` has two, where a reclip finds a
duplicate, somebody joins late (two players) and a late read follows a second
claim; its constraint `OneClean` stops the search where `raced` and `late` leave
no job that its invariants speak of. The properties of `Enqueue` also hold on the instance of
`merge_loses_player` (1.1 M states), where a player can lose a merge to two
others. In `MatchProjection` two handlers give every stale read, and `Movable`
(players another job takes over) is the creator alone, which reaches the
ownership fallback and the legacy lookup. In `MatchHistory` a walk of three
games with one seed has games to skip and to hold, two auth codes make one
obsolete, and two upsets give a race of two requests or of a request with a
failure. A clip with a companion object and two rows is deleted and rendered
again, and a second match lets an ingestion attach it to another one than its
owner's; two people race for one use, or one person for two invites, and two
completions for one state. Four lines
with two kept make a full prune overlap a second batch. Larger instances
(`ClipStore` with a third handler or a second file, `Reclip` with a second
admin, `SharedQueue` with retries or a second report) were searched without a
violation but do not finish in minutes; the theorems hold for them. Symmetry is used over interchangeable values in the
safety runs and never with a liveness property.

Deadlock is not checked in `auth_logins`, `worker_logs` and `reclip_collapses`,
where a bounded supply (states and tokens, line ids, job ids) lets a run stop,
which the system with its unbounded supply does not.

### Findings

The violation runs are disagreements between the code and its own comments;
`PROJECT.json` quotes both.

- `sweep_fails_live`: `attempts` counts the lease in progress, so the sweep
  fails a job on its last attempt while its worker renders it.
- `merge_loses_player`: of two merges into one PENDING job the later write
  drops the earlier player from the payload, whose match stays linked.
- `held_game_skipped`: a game held back by a cap ("Held games retry next tick")
  is given up when another game is played before the next poll, which keeps
  only the newest.

Seen while modelling, and excepted by name in the properties instead of having
a run of their own:

- A late PROCESSING report on a COMPLETED or FAILED row leaves it without an
  expiry, and nothing reclaims it (`Stranded`, excepted by `EveryJobSettles`).
- Two enqueues of one player and share code may both create a job; a status
  compared with an earlier read may move a match back (`disorder`, and the stale
  writer of `RenderedStays`).
- Overlapping deletes can unlink a clip and then remove its objects while its
  row stays; the sweep may remove an upload that is not ingested yet. Both are
  exceptions of `ObjectsSpared`.
- `deleteMatch` says "Does not delete S3 objects" (`admin.service.ts:556`); the
  code deletes them.
- Reclip swallows the error of a cancel (`spared`), and links a player who
  joined after its read to a list without them (`raced`).
- A comment in the schema says the tip "only advances after enqueue"; requests
  store it first and enqueue the seeds after, so `TipOwesNothing` excepts
  seeds still being enqueued, and a restart in between skips them.
- A poll in flight marks an enrollment by player id, so a refusal of a replaced
  auth code, or of the platform key, disables a valid enrollment; nothing but the
  player enrolling again repairs it. No property forbids it. An `enable` or
  `baseline` that read the row before the mark undoes it (excepted by
  `ReauthRequired`), and so does disabling and enabling the enrollment, which
  gets round REAUTH_REQUIRED with the refused code.
- `workerSetup` may hand out the token of a disabled worker.

### What the exceptions mean

Several properties except, by a bookkeeping variable or by naming the handler,
exactly the race that a hazard describes, because the code has it. Such a
property does not show that the race is harmless: it bounds the damage, as no
other step and no other order of steps has the effect. `raced` and `late`
(`Enqueue`, `Reclip`, `SharedQueue`), `spared`, `disorder`, `leaked`, `since`,
`readers`, `late` in `WorkerLogs`, `Stranded`, and the stale writers of
`HolderUndisturbed`, `CancelSticks`, `RenderedStays` and `ReauthRequired` are of
this kind; each hazard in `PROJECT.json` says in its `note` what is excepted, and
which hazard no property covers.

### Fairness

`queue_settle`: workers keep polling (`WF` on some lease), because the poller
loops for ever; each render ends (`WF` on `Abandon`), by a result or a timeout; a
lease nobody renders lapses (`WF`), because time passes; sweeps keep running
(`WF`) since every lease request and every poller tick starts one, and a sweep
does not die at the same statement every time (`SF`). Nothing is assumed of
reports, admins, answers or deletions.

`history_polls`: the cron ticks for ever (`SF` on `Tick`: there is not always a
slot for it, but a server accepts one in the end); days pass (`WF`); a handler
goes on (`WF` on its steps), as a promise chain does; and the queue is not found
full at every look (`SF` on `CheckPasses`). Failures and requests of the player
are finite by `MaxUpsets`; nothing else is assumed of them.

## Proofs

All theorems hold for arbitrary sets of jobs, workers, players, files, tokens,
handler slots and so on, and arbitrary limits, under the named assumptions of the
modules: ids are numbers, limits are positive, null values are not members, and
where cardinalities are counted the sets are finite. Each proof module defines
an inductive invariant, has one lemma per action (or per group of alike ones),
and derives the properties from it. TLC checked each invariant before the proof.

| Module | Inductive invariant | Why it is needed | Theorems |
|---|---|---|---|
| `JobQueueProofs` | `TypeOK`, `ClaimConsistent`, `CallsAdmitted` | a handler about to write passed its check on the row it *read*, which separates fresh writes from stale ones | `TypeCorrect`, `ClaimsConsistent`, `LiveClaimUndisturbed`, `CancelHolds`, `ResultsKept`, `QueueImplementsLease` |
| `JobQueueProofs`, on `SharedQueue` | `SharedInv`: the invariants of `JobQueue` and `Enqueue`, `ListsKept`, `ServedPayload`, `HolderRendersPayload` | a worker, or a report of its, has a list that was read of its job, and the lists read of a job since then have only grown, races aside; so a report whose list is the payload is one of the latest list | `QueueRefined`, `SharedImplementsEnqueue`, `SharedTypes`, `HoldersRenderPayload`, `ResultsServeLinked`, `SharedPayloadsMatch`, `SharedLinkedRendered` |
| `EnqueueProofs` | `TypeOK`, `CallsFormed`, `PayloadMatchesLinks`, `RenderedAsGiven` | the payload of a job under way is still what its worker was given, as merges touch PENDING rows only | `TypeCorrect`, `PayloadsMatch`, `LinkedRendered` |
| `ReclipProofs` | `Base`, `Enlisted`, `Reclipping` | what a reclip has read is not undone: the players it listed stay listed unless a race is on record, and a duplicate it is done with is not PENDING | `ReclipTypeCorrect`, `LinkedAreListed`, `LinkedRenderTogether`, `DuplicatesCollapse` |
| `MatchProjectionProofs` | `TypeOK`, `OwnersFound`, `CallsFormed`, `ClipsOwned`; then `Agreeing` | the owner's match was found before the first clip was saved; a match that does not agree with the job is one that a handler still owes a write | `TypeCorrect`, `OwnersRight`, `ShareLinksStick`, `RenderedHolds`, `MatchesSettle` |
| `MatchHistoryProofs` | `Shape`, `TipOwesNothing`, `Behind` | what a poll has behind it is settled, or too old for its walk, and skipped when it stores its tip; a request that goes on to write ACTIVE has read a row that was not INVALID_AUTH | `TypeCorrect`, `TipsOweNothing`, `CapHolds`, `ReauthIsRequired` |
| `ClipStoreProofs` | `Shape`, `Spared`, `Paid`, `NothingLeaks` | a delete or sweep knows, of every clip not saved since it looked, whether the clip is to go; announcements made or still to come are paid for by the ingestions under way when the row was created | `TypeCorrect`, `NothingIsLeaked`, `AnnouncedOnceEach`, `ObjectsAreSpared` |
| `AuthProofs` | `TypeOK`, `CallsFormed`, `TakenOnce`, `StateUsedOnce`, `Unpaid`, `UsesPaid`, `SessionsEarned` | between taking a state and opening its session exactly one request holds it; a use is counted in the step that creates its player | `TypeCorrect`, `UsesArePaid`, `StatesUsedOnce`, `SessionsAreEarned` |
| `WorkerLogsProofs` | `Shape`, `Fresh`, `CutoffsHold`, `NewestKept`, `Settling`, `GapsExplained` | whichever of the requests that have read a cutoff prune first, what they leave is bounded, as the last of them to read had seen the others' batches | `TypeCorrect`, `NewestAreKept`, `TailIsBounded`, `GapsAreExplained` |

The composition is proved from both sides. `QueueSteps` shows that a step of the
whole is a step of `JobQueue` or a stutter, hence `QueueRefined`, by which every
theorem about `JobQueue` holds of the whole, and one half of `SharedInv`.
`NextSeen` shows, action by action, that it is a step of `Enqueue` under the
refinement mapping or a stutter: a step that only moves statuses is a `Requeue`
or a `Stop` of some set of jobs (`QuietStep`). As `SharedInv` contains the
inductive invariant of `EnqueueProofs` (instantiated with the same mapping as
`GameProofs`), that invariant is kept by the lemma `NextIInv` proved there, and
`SharedImplementsEnqueue` follows. The remaining part says what the lists are
for (`NextServes`). The refinement shaped `Enqueue`: its queue has late reads of
the payload, leases lost with their answers, claims of lapsed leases, sweeps over
many rows and reports with outdated lists because the whole queue has them.

`CapHolds` and `AnnouncedOnceEach` count handlers with the library's theorems on
cardinalities; `WorkerLogsProofs` first proves what the cutoff line and the newest
lines of a finite set of ids are, by its least and greatest elements.

Only model-checked: `EveryJobSettles` and `BacklogEmpties` (liveness under
fairness and `ENABLED` are out of the prover's reach), and the three violations.
No recursive operator is used; results about recursive definitions over all
inputs would need induction with operator parameters, which the provers cannot
instantiate.

## Not modelled

- Read-only queries, lists, formatting, signed URLs, throttling, configuration,
  encryption, logging: stateless or pure I/O.
- `cancelStaleAutoJobs` (a loop of the cancels of `JobQueue`), the start-up
  backfills of the clips, legacy jobs without a share code.
- Nothing in the repository disables a player or a worker; the models have the
  operator do it in the database (`Disable`).
- Player deletion; job deletion under a running projection (it fails with a
  foreign-key error, which is `ProjectionFails`).
- Persona refresh and the allow-list of return URLs in `Auth`; the depth of the
  queue in `MatchHistory` (a check may find it full or not).
- Schema, migrations, deployment, scripts.

## Plan

What is left would deepen rather than widen: the reclip in `SharedQueue`, whose
unguarded writes make its own exceptions; a second job and share code in
`ClipStore`; and `MatchHistory` over several players, whose only meeting point is
the depth of the queue.
