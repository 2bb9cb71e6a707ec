----------------------------- MODULE ReclipProofs -----------------------------
(***************************************************************************)
(* Reclips among enqueues, for any players, jobs and requests in flight:   *)
(* links and lists agree, what a worker has serves everyone linked to it,  *)
(* and duplicates are cancelled.                                           *)
(***************************************************************************)
EXTENDS Reclip, TLAPS

EnqueueCall == [step : {"idle", "recheck", "find", "merge", "create"},
                player : Players \cup {NoPlayer},
                job : Jobs \cup {NoJob},
                seen : SUBSET Players]

ReclipCall == [step : {"idle", "jobs", "refresh", "requeue", "create", "link", "cancel"},
               matched : SUBSET Players,
               view : [Jobs -> [status : Status, trusted : SUBSET Players]],
               trusted : SUBSET Players,
               target : Jobs \cup {NoJob}, list : SUBSET Players,
               duplicates : SUBSET Jobs, others : SUBSET Jobs,
               spared : SUBSET Jobs]

(* An enqueue past its first read works for a player, and one that merges  *)
(* has a job.                                                              *)
CallFormed(k) == /\ k.step # "idle" => k.player \in Players
                 /\ k.step = "merge" => k.job \in Jobs

(* A reclip that has picked its job lists everyone it read.                *)
ReclipFormed(r) ==
  /\ r.step \in {"refresh", "requeue", "link"} => r.target \in Jobs
  /\ r.step \in {"refresh", "requeue", "create", "link"}
       => /\ r.trusted # {} /\ r.matched \subseteq r.trusted /\ r.list \subseteq r.trusted
          /\ r.others = r.duplicates
  /\ r.step \in {"idle", "jobs"} => r.duplicates = {}

(* What it has read is not undone: no job is new again, the players it has *)
(* listed stay listed, and a duplicate it is done with is not PENDING.     *)
ReclipKnows(r) ==
  /\ \A j \in Jobs : row[j].status = "NEW" => r.view[j].status = "NEW" /\ j \notin r.duplicates
  /\ r.step \in {"refresh", "requeue", "link"} => row[r.target].status # "NEW"
  /\ r.step = "link" /\ Exists(r.target) /\ r.target \notin raced
       => r.trusted \subseteq row[r.target].trusted
  /\ \A j \in r.duplicates \ (r.others \cup r.spared) : row[j].status # "PENDING"

(* What the worker was given is still the payload while it renders.        *)
RenderedAsGiven ==
  \A j \in Jobs \ (raced \cup late) :
    row[j].status \in {"LEASED", "COMPLETED"} => row[j].trusted = given[j]

(* The jobs, the links and the enqueues.                                   *)
Base == /\ TypeOK /\ late \subseteq Jobs
        /\ \A c \in Calls : CallFormed(calls[c])
        /\ LinkedIsListed /\ RenderedAsGiven

Enlisted == matched \subseteq Players /\ \A p \in Players : link[p] # NoJob => p \in matched

Reclipping ==
  /\ reclips \in [Admins -> ReclipCall]
  /\ \A a \in Admins : ReclipFormed(reclips[a]) /\ ReclipKnows(reclips[a])

IInv == Base /\ Enlisted /\ Reclipping

(* No step of anybody makes a job new again, brings a deleted one back, or *)
(* takes a player off a list, but by a write that races.                   *)
Grows ==
  /\ raced \subseteq raced'
  /\ \A j \in Jobs :
       row[j].status # "NEW"
         => /\ row'[j].status # "NEW"
            /\ Exists(j)' => Exists(j) /\ (j \notin raced' => row[j].trusted \subseteq row'[j].trusted)
-------------------------------------------------------------------------------
LEMMA Bounds == Jobs \subseteq Nat /\ NoPlayer \notin Players /\ NoJob \notin Jobs
BY EnqueueAssumption DEF EnqueueAssumption

LEMMA IdleIsCall == /\ IdleReclip \in ReclipCall /\ ReclipFormed(IdleReclip)
                    /\ IdleReclip.step = "idle" /\ ReclipKnows(IdleReclip)
BY DEF IdleReclip, ReclipCall, ReclipFormed, ReclipKnows, NoView, Status

LEMMA InitIInv == ReclipInit => IInv
<1> SUFFICES ASSUME ReclipInit
             PROVE  IInv
  OBVIOUS
<1>1. Base
  BY Bounds DEF ReclipInit, Init, Base, TypeOK, CallFormed, LinkedIsListed, RenderedAsGiven,
                IdleCall, Status, Exists
<1>2. Enlisted
  BY DEF ReclipInit, Init, Enlisted
<1>3. Reclipping
  BY IdleIsCall DEF ReclipInit, Reclipping
<1> QED
  BY <1>1, <1>2, <1>3 DEF IInv
-------------------------------------------------------------------------------
(* Enqueues and the queue.                                                 *)

LEMMA ReadKeeps ==
  ASSUME Base, NEW c \in Calls, UNCHANGED <<row, link, given, leases, raced, late>>,
         NEW call, calls' = [calls EXCEPT ![c] = call],
         call \in EnqueueCall, CallFormed(call)
  PROVE  Base' /\ Grows
<1>1. TypeOK'
  BY DEF Base, TypeOK, Exists, EnqueueCall
<1>2. \A d \in Calls : CallFormed(calls[d])'
  BY DEF Base, TypeOK, CallFormed
<1>3. LinkedIsListed' /\ RenderedAsGiven' /\ Grows
  BY DEF Base, LinkedIsListed, RenderedAsGiven, Grows, Exists
<1> QED
  BY <1>1, <1>2, <1>3 DEF Base

LEMMA MergeKeeps ==
  ASSUME Base, NEW c \in Calls, EnqueueMerge(c), late' = late
  PROVE  Base' /\ Grows
<1> DEFINE p == calls[c].player
           j == calls[c].job
<1>1. /\ p \in Players /\ j \in Jobs /\ row[j].status = "PENDING"
      /\ calls[c].seen \subseteq Players
      /\ row' = [row EXCEPT ![j].trusted = calls[c].seen \cup {p}]
      /\ link' = [link EXCEPT ![p] = j]
      /\ raced' = raced \cup Racing(p, j, row[j].trusted # calls[c].seen)
      /\ calls' = [calls EXCEPT ![c] = IdleCall]
      /\ given' = given /\ leases' = leases
  BY DEF EnqueueMerge, Base, TypeOK, CallFormed, Mergeable, WithTrusted
<1>2. /\ row'[j].trusted = calls[c].seen \cup {p}
      /\ \A k \in Jobs : k # j => row'[k] = row[k]
      /\ \A k \in Jobs : row'[k].status = row[k].status
  BY <1>1 DEF Base, TypeOK
<1>3. TypeOK'
  <2>1. row' \in [Jobs -> [status : Status, trusted : SUBSET Players]]
    BY <1>1 DEF Base, TypeOK
  <2>2. link' \in [Players -> {k \in Jobs : Exists(k)}' \cup {NoJob}]
    BY <1>1, <1>2 DEF Base, TypeOK, Exists
  <2>3. ASSUME NEW k \in Jobs, Exists(k)'
        PROVE  row'[k].trusted # {}
    <3>1. CASE k = j
      BY <1>2, <3>1
    <3>2. CASE k # j
      BY <1>2, <2>3, <3>2 DEF Base, TypeOK, Exists
    <3> QED
      BY <3>1, <3>2
  <2>4. raced' \subseteq Jobs
    BY <1>1 DEF Base, TypeOK, Racing
  <2> QED
    BY <1>1, <2>1, <2>2, <2>3, <2>4 DEF Base, TypeOK, IdleCall
<1>4. \A d \in Calls : CallFormed(calls[d])'
  BY <1>1 DEF Base, TypeOK, CallFormed, IdleCall
<1>5. raced \subseteq raced' /\ (j \notin raced' => row[j].trusted = calls[c].seen)
  BY <1>1 DEF Racing
<1>6. LinkedIsListed'
  <2> SUFFICES ASSUME NEW k \in Jobs \ raced', NEW q \in Players, link'[q] = k
               PROVE  q \in row'[k].trusted
    BY DEF LinkedIsListed
  <2>1. link'[q] = IF q = p THEN j ELSE link[q]
    BY <1>1 DEF Base, TypeOK
  <2>2. CASE q = p
    BY <1>2, <2>1, <2>2
  <2>3. CASE q # p
    <3>1. q \in row[k].trusted
      BY <1>5, <2>1, <2>3 DEF Base, LinkedIsListed
    <3> QED
      BY <1>2, <1>5, <3>1
  <2> QED
    BY <2>2, <2>3
<1>7. RenderedAsGiven'
  <2> SUFFICES ASSUME NEW k \in Jobs \ (raced' \cup late), row'[k].status \in {"LEASED", "COMPLETED"}
               PROVE  row'[k].trusted = given'[k]
    BY DEF RenderedAsGiven
  <2> QED
    BY <1>1, <1>2, <1>5 DEF Base, RenderedAsGiven
<1>8. Grows
  BY <1>1, <1>2, <1>5 DEF Grows, Exists
<1> QED
  BY <1>3, <1>4, <1>6, <1>7, <1>8 DEF Base

(* A new job, of an enqueue or a reclip.                                   *)
LEMMA NewJob ==
  ASSUME Base, NEW j \in Jobs, row[j].status = "NEW",
         NEW trusted \in SUBSET Players, trusted # {},
         row' = [row EXCEPT ![j] = [status |-> "PENDING", trusted |-> trusted]],
         raced \subseteq raced', raced' \subseteq Jobs, UNCHANGED <<given, leases, late>>,
         link' \in [Players -> {k \in Jobs : Exists(k)} \cup {j, NoJob}],
         \A q \in Players : link'[q] = link[q] \/ (q \in trusted /\ link'[q] = j),
         calls' \in [Calls -> EnqueueCall], \A d \in Calls : CallFormed(calls[d])'
  PROVE  Base' /\ Grows
<1>1. /\ row'[j] = [status |-> "PENDING", trusted |-> trusted]
      /\ \A k \in Jobs : k # j => row'[k] = row[k]
      /\ row' \in [Jobs -> [status : Status, trusted : SUBSET Players]]
  BY DEF Base, TypeOK, Status
<1>2. \A k \in Jobs : Exists(k)' <=> Exists(k) \/ k = j
  BY <1>1 DEF Exists
<1>3. TypeOK'
  <2>1. \A k \in Jobs : Exists(k)' => row'[k].trusted # {}
    BY <1>1, <1>2 DEF Base, TypeOK
  <2>2. link' \in [Players -> {k \in Jobs : Exists(k)}' \cup {NoJob}]
    BY <1>2
  <2>3. given' \in [Jobs -> SUBSET Players] /\ leases' \in [Leases -> Jobs \cup {NoJob}]
    BY DEF Base, TypeOK
  <2> QED
    BY <1>1, <2>1, <2>2, <2>3 DEF TypeOK, EnqueueCall
<1>4. LinkedIsListed'
  <2> SUFFICES ASSUME NEW k \in Jobs \ raced', NEW q \in Players, link'[q] = k
               PROVE  q \in row'[k].trusted
    BY DEF LinkedIsListed
  <2>1. CASE q \in trusted /\ k = j
    BY <1>1, <2>1
  <2>2. CASE link[q] = k
    <3>1. k # j
      BY <2>2, Bounds DEF Base, TypeOK, Exists
    <3> QED
      BY <1>1, <2>2, <3>1 DEF Base, LinkedIsListed
  <2> QED
    BY <2>1, <2>2
<1>5. RenderedAsGiven' /\ Grows
  BY <1>1, <1>2 DEF Base, RenderedAsGiven, Grows
<1> QED
  BY <1>3, <1>4, <1>5 DEF Base

LEMMA CreateKeeps ==
  ASSUME Base, NEW c \in Calls, EnqueueCreate(c), late' = late
  PROVE  Base' /\ Grows
<1> DEFINE p == calls[c].player
<1>1. PICK j \in Jobs :
        /\ row[j].status = "NEW"
        /\ row' = [row EXCEPT ![j] = [status |-> "PENDING", trusted |-> {p}]]
        /\ link' = [link EXCEPT ![p] = j]
        /\ raced' = raced \cup Racing(p, j, FALSE)
        /\ calls' = [calls EXCEPT ![c] = IdleCall]
        /\ given' = given /\ leases' = leases
  BY DEF EnqueueCreate, NextId
<1>2. p \in Players
  BY DEF EnqueueCreate, Base, CallFormed
<1>3. raced \subseteq raced' /\ raced' \subseteq Jobs
  BY <1>1, <1>2 DEF Base, TypeOK, Racing
<1>4. /\ link' \in [Players -> {k \in Jobs : Exists(k)} \cup {j, NoJob}]
      /\ \A q \in Players : link'[q] = link[q] \/ (q \in {p} /\ link'[q] = j)
  BY <1>1, <1>2 DEF Base, TypeOK
<1>5. calls' \in [Calls -> EnqueueCall] /\ \A d \in Calls : CallFormed(calls[d])'
  BY <1>1 DEF Base, TypeOK, EnqueueCall, CallFormed, IdleCall
<1>6. {p} \in SUBSET Players /\ {p} # {}
  BY <1>2
<1> HIDE DEF p
<1> QED
  BY <1>1, <1>3, <1>4, <1>5, <1>6, NewJob

(* Rows change their status and nothing else, and become LEASED or         *)
(* COMPLETED only with the list that was read of them.                     *)
LEMMA StatusKeeps ==
  ASSUME Base, NEW jobs \in SUBSET Jobs, \A j \in jobs : Exists(j),
         NEW status \in Status \ {"NEW", "DELETED"}, SetStatus(jobs, status), late' = late,
         given' \in [Jobs -> SUBSET Players],
         leases' \in [Leases -> Jobs \cup {NoJob}],
         raced \subseteq raced', raced' \subseteq Jobs,
         \A j \in Jobs \ raced' :
           given'[j] # given[j] => given'[j] = row[j].trusted,
         \A j \in jobs \ (raced' \cup late) :
           status \in {"LEASED", "COMPLETED"} => row[j].trusted = given'[j]
  PROVE  Base' /\ Grows
<1>1. /\ row' = [j \in Jobs |-> IF j \in jobs THEN [row[j] EXCEPT !.status = status]
                                             ELSE row[j]]
      /\ link' = link /\ calls' = calls
      /\ \A j \in jobs : row'[j].status = status
      /\ \A k \in Jobs : row'[k].trusted = row[k].trusted
      /\ \A k \in Jobs : k \notin jobs => row'[k] = row[k]
  BY DEF SetStatus, Base, TypeOK
<1>2. \A k \in Jobs : Exists(k)' <=> Exists(k)
  BY <1>1 DEF Exists
<1>3. TypeOK'
  <2>1. row' \in [Jobs -> [status : Status, trusted : SUBSET Players]]
    BY <1>1 DEF Base, TypeOK
  <2>2. link' \in [Players -> {k \in Jobs : Exists(k)}' \cup {NoJob}]
    BY <1>1, <1>2 DEF Base, TypeOK
  <2> QED
    BY <1>1, <1>2, <2>1, <2>2 DEF Base, TypeOK
<1>4. (\A d \in Calls : CallFormed(calls[d])') /\ LinkedIsListed'
  BY <1>1 DEF Base, CallFormed, LinkedIsListed
<1>5. Grows
  <2> SUFFICES ASSUME NEW k \in Jobs, row[k].status # "NEW"
               PROVE  row'[k].status # "NEW" /\ (Exists(k)' => Exists(k))
    BY <1>1 DEF Grows
  <2> QED
    BY <1>1, <1>2
<1>6. RenderedAsGiven'
  <2> SUFFICES ASSUME NEW k \in Jobs \ (raced' \cup late), row'[k].status \in {"LEASED", "COMPLETED"}
               PROVE  row'[k].trusted = given'[k]
    BY DEF RenderedAsGiven
  <2>1. CASE k \in jobs
    BY <1>1, <2>1
  <2>2. CASE k \notin jobs
    BY <1>1, <2>2 DEF Base, RenderedAsGiven
  <2> QED
    BY <2>1, <2>2
<1> QED
  BY <1>3, <1>4, <1>5, <1>6 DEF Base

LEMMA DeleteKeeps ==
  ASSUME Base, NEW j \in Jobs, Delete(j), late' = late
  PROVE  Base' /\ Grows
<1>1. /\ row' = [row EXCEPT ![j] = [status |-> "DELETED", trusted |-> {}]]
      /\ row'[j].status = "DELETED"
      /\ \A k \in Jobs : k # j => row'[k] = row[k] /\ given'[k] = given[k]
      /\ given' \in [Jobs -> SUBSET Players]
      /\ link' = [p \in Players |-> IF link[p] = j THEN NoJob ELSE link[p]]
      /\ calls' = calls /\ leases' = leases /\ raced' = raced
  BY DEF Delete, Unlinked, Base, TypeOK
<1>2. TypeOK'
  <2>1. row' \in [Jobs -> [status : Status, trusted : SUBSET Players]]
    BY <1>1 DEF Base, TypeOK, Status
  <2>2. link' \in [Players -> {k \in Jobs : Exists(k)}' \cup {NoJob}]
    BY <1>1 DEF Base, TypeOK, Exists
  <2>3. \A k \in Jobs : Exists(k)' => row'[k].trusted # {}
    BY <1>1 DEF Base, TypeOK, Exists
  <2> QED
    BY <1>1, <2>1, <2>2, <2>3 DEF Base, TypeOK
<1>3. LinkedIsListed'
  <2> SUFFICES ASSUME NEW k \in Jobs \ raced, NEW q \in Players, link'[q] = k
               PROVE  q \in row'[k].trusted
    BY <1>1 DEF LinkedIsListed
  <2>1. k # j /\ row'[k] = row[k] /\ link[q] = k
    BY <1>1, Bounds
  <2> QED
    BY <1>1, <2>1 DEF Base, LinkedIsListed
<1>4. (\A d \in Calls : CallFormed(calls[d])') /\ RenderedAsGiven' /\ Grows
  BY <1>1 DEF Base, CallFormed, RenderedAsGiven, Grows, Exists
<1> QED
  BY <1>2, <1>3, <1>4 DEF Base

LEMMA EnqueueKeeps ==
  ASSUME Base, Next, late' = late
  PROVE  Base' /\ Grows
<1>1. ASSUME NEW c \in Calls, NEW p \in Players, EnqueueStart(c, p)
      PROVE  Base' /\ Grows
  <2> DEFINE k == [IdleCall EXCEPT !.step = "recheck", !.player = p]
  <2>1. k \in EnqueueCall /\ CallFormed(k)
    BY DEF EnqueueCall, CallFormed, IdleCall
  <2> HIDE DEF k
  <2> QED
    BY <1>1, <2>1, ReadKeeps DEF EnqueueStart, k
<1>2. ASSUME NEW c \in Calls,
             EnqueueRecheck(c) \/ EnqueueFind(c) \/ EnqueueMergeLost(c) \/ EnqueueFails(c)
      PROVE  Base' /\ Grows
  <2>1. /\ calls[c] \in EnqueueCall /\ CallFormed(calls[c]) /\ calls[c].step # "idle"
        /\ IdleCall \in EnqueueCall /\ CallFormed(IdleCall)
        /\ UNCHANGED <<row, link, given, leases, raced>>
    BY <1>2 DEF Base, TypeOK, EnqueueCall, CallFormed, IdleCall,
                EnqueueRecheck, EnqueueFind, EnqueueMergeLost, EnqueueFails
  <2>2. ASSUME NEW step \in {"find", "create", "merge"}, NEW job \in Jobs \cup {NoJob},
               NEW seen \in SUBSET Players, step = "merge" => job \in Jobs,
               NEW k, k = [calls[c] EXCEPT !.step = step, !.job = job, !.seen = seen],
               calls' = [calls EXCEPT ![c] = k]
        PROVE  Base' /\ Grows
    <3>1. k \in EnqueueCall /\ CallFormed(k)
      BY <2>1, <2>2 DEF EnqueueCall, CallFormed
    <3> QED
      BY <2>1, <2>2, <3>1, ReadKeeps
  <2>3. CASE calls' = [calls EXCEPT ![c] = IdleCall]
    BY <2>1, <2>3, ReadKeeps
  <2>4. ASSUME NEW step \in {"find", "create"},
               calls' = [calls EXCEPT ![c] = [calls[c] EXCEPT !.step = step]]
        PROVE  Base' /\ Grows
    <3>1. PICK k : k = [calls[c] EXCEPT !.step = step]
      OBVIOUS
    <3>2. k \in EnqueueCall /\ CallFormed(k)
      BY <2>1, <2>4, <3>1 DEF EnqueueCall, CallFormed
    <3> QED
      BY <2>1, <2>4, <3>1, <3>2, ReadKeeps
  <2>5. CASE EnqueueRecheck(c)
    BY <2>3, <2>4, <2>5 DEF EnqueueRecheck
  <2>6. CASE EnqueueFind(c)
    <3>1. ASSUME NEW j \in PendingJobs,
                 calls' = [calls EXCEPT ![c] = [calls[c] EXCEPT !.step = "merge", !.job = j,
                                                                !.seen = row[j].trusted]]
          PROVE  Base' /\ Grows
      <4>1. j \in Jobs /\ row[j].trusted \in SUBSET Players
        BY DEF PendingJobs, Base, TypeOK
      <4> QED
        BY <2>2, <3>1, <4>1
    <3> QED
      BY <2>4, <2>6, <3>1 DEF EnqueueFind
  <2>7. CASE EnqueueMergeLost(c)
    BY <2>2, <2>7 DEF EnqueueMergeLost
  <2> QED
    BY <1>2, <2>3, <2>5, <2>6, <2>7 DEF EnqueueFails
<1>3. ASSUME NEW l \in Leases, NEW j \in Jobs, Claim(l, j)
      PROVE  Base' /\ Grows
  <2>1. Exists(j) /\ SetStatus({j}, "CLAIMED") /\ given' = given /\ raced' = raced
    BY <1>3 DEF Claim, With, Exists
  <2>2. leases' \in [Leases -> Jobs \cup {NoJob}]
    BY <1>3 DEF Claim, Base, TypeOK
  <2> QED
    BY <2>1, <2>2, StatusKeeps DEF Base, TypeOK, Status
<1>4. ASSUME NEW l \in Leases, HandOut(l)
      PROVE  Base' /\ Grows
  <2> DEFINE j == leases[l]
             jobs == {j} \cap With({"CLAIMED"})
  <2>1. /\ j \in Jobs /\ SetStatus(jobs, "LEASED") /\ raced' = raced
        /\ given' = [given EXCEPT ![j] = row[j].trusted]
        /\ leases' = [leases EXCEPT ![l] = NoJob]
    BY <1>4 DEF HandOut, Base, TypeOK
  <2>2. jobs \in SUBSET Jobs /\ \A k \in jobs : k = j /\ Exists(k)
    BY DEF With, Exists
  <2>3. /\ given' \in [Jobs -> SUBSET Players]
        /\ leases' \in [Leases -> Jobs \cup {NoJob}]
        /\ given'[j] = row[j].trusted
        /\ \A k \in Jobs : k # j => given'[k] = given[k]
    BY <2>1 DEF Base, TypeOK
  <2> QED
    BY <2>1, <2>2, <2>3, StatusKeeps DEF Base, TypeOK, Status
<1>5. ASSUME NEW l \in Leases, LeaseForgotten(l)
      PROVE  Base' /\ Grows
  BY <1>5 DEF LeaseForgotten, Base, TypeOK, CallFormed, LinkedIsListed,
              RenderedAsGiven, Exists, Grows
<1>6. ASSUME NEW j \in Jobs, Report(j)
      PROVE  Base' /\ Grows
  <2>1. PICK status \in {"LEASED", "COMPLETED"} : SetStatus({j}, status)
    BY <1>6 DEF Report
  <2> QED
    BY <1>6, <2>1, StatusKeeps DEF Report, Base, TypeOK, Status
<1>7. ASSUME NEW jobs \in SUBSET Jobs, Requeue(jobs) \/ Stop(jobs)
      PROVE  Base' /\ Grows
  <2>1. \A j \in jobs : Exists(j)
    BY <1>7 DEF Requeue, Stop, With, Exists
  <2> QED
    BY <1>7, <2>1, StatusKeeps DEF Requeue, Stop, Base, TypeOK, Status
<1> QED
  BY <1>1, <1>2, <1>3, <1>4, <1>5, <1>6, <1>7, MergeKeeps, CreateKeeps, DeleteKeeps DEF Next
-------------------------------------------------------------------------------
(* What a reclip knows, through the steps of others.                       *)
LEMMA KnowsKept ==
  ASSUME Base, Grows, NEW r \in ReclipCall, ReclipFormed(r), ReclipKnows(r),
         NEW again \in SUBSET Jobs, NEW s,
         s = [r EXCEPT !.spared = r.spared \cup (r.duplicates \cap again)],
         \A j \in r.duplicates \ again : row'[j].status = "PENDING" => row[j].status = "PENDING"
  PROVE  s \in ReclipCall /\ ReclipFormed(s) /\ ReclipKnows(s)'
<1>1. /\ s \in ReclipCall
      /\ s.step = r.step /\ s.matched = r.matched /\ s.view = r.view /\ s.trusted = r.trusted
      /\ s.target = r.target /\ s.list = r.list /\ s.duplicates = r.duplicates
      /\ s.others = r.others /\ s.spared = r.spared \cup (r.duplicates \cap again)
  BY DEF ReclipCall
<1>2. ReclipFormed(s)
  BY <1>1 DEF ReclipFormed
<1>3. r.duplicates \subseteq Jobs
  BY DEF ReclipCall
<1>4. \A j \in Jobs : row'[j].status = "NEW" => s.view[j].status = "NEW" /\ j \notin s.duplicates
  BY <1>1 DEF Grows, ReclipKnows
<1>5. ASSUME s.step \in {"refresh", "requeue", "link"}
      PROVE  /\ row'[s.target].status # "NEW"
             /\ s.step = "link" /\ Exists(s.target)' /\ s.target \notin raced'
                  => s.trusted \subseteq row'[s.target].trusted
  <2>1. r.target \in Jobs /\ row[r.target].status # "NEW"
    BY <1>1, <1>5 DEF ReclipFormed, ReclipKnows
  <2> QED
    BY <1>1, <2>1 DEF Grows, ReclipKnows
<1>6. \A j \in s.duplicates \ (s.others \cup s.spared) : row'[j].status # "PENDING"
  BY <1>1, <1>3 DEF ReclipKnows
<1>7. ReclipKnows(s)'
  BY <1>4, <1>5, <1>6 DEF ReclipKnows
<1> QED
  BY <1>1, <1>2, <1>7

LEMMA EnqueueStepKeeps ==
  ASSUME IInv, EnqueueStep
  PROVE  IInv'
<1> DEFINE again == {j \in Jobs : row[j].status # "PENDING" /\ row'[j].status = "PENDING"}
<1>1. Base' /\ Grows
  BY EnqueueKeeps DEF IInv, EnqueueStep
<1>2. Enlisted'
  BY DEF IInv, Enlisted, EnqueueStep
<1>3. reclips' = [a \in Admins |-> [reclips[a] EXCEPT !.spared = reclips[a].spared \cup
                                                 (reclips[a].duplicates \cap again)]]
  BY DEF EnqueueStep, Spare
<1>4. ASSUME NEW a \in Admins
      PROVE  reclips'[a] \in ReclipCall /\ ReclipFormed(reclips[a])' /\ ReclipKnows(reclips[a])'
  <2>1. PICK more : more = again
    OBVIOUS
  <2>2. PICK s : s = [reclips[a] EXCEPT !.spared = reclips[a].spared \cup
                                                 (reclips[a].duplicates \cap more)]
    OBVIOUS
  <2>3. reclips'[a] = s
    BY <1>3, <2>1, <2>2
  <2>4. /\ reclips[a] \in ReclipCall /\ ReclipFormed(reclips[a]) /\ ReclipKnows(reclips[a])
        /\ reclips[a].duplicates \subseteq Jobs
    BY DEF IInv, Reclipping, ReclipCall
  <2>5. /\ more \in SUBSET Jobs
        /\ \A j \in reclips[a].duplicates \ more :
             row'[j].status = "PENDING" => row[j].status = "PENDING"
    BY <2>1, <2>4
  <2>6. s \in ReclipCall /\ ReclipFormed(s) /\ ReclipKnows(s)'
    BY <1>1, <2>2, <2>4, <2>5, KnowsKept DEF IInv
  <2> QED
    BY <2>3, <2>6 DEF ReclipFormed, ReclipKnows
<1>5. Reclipping'
  BY <1>3, <1>4 DEF Reclipping
<1> QED
  BY <1>1, <1>2, <1>5 DEF IInv
-------------------------------------------------------------------------------
(* The reclip's own steps.                                                 *)

LEMMA ReclipOf ==
  ASSUME IInv, NEW a \in Admins
  PROVE  reclips[a] \in ReclipCall /\ ReclipFormed(reclips[a]) /\ ReclipKnows(reclips[a])
BY DEF IInv, Reclipping

(* The jobs have moved as they may; the reclip stands where it should.     *)
LEMMA ReclipMoves ==
  ASSUME IInv, Base', Grows, Enlisted', NEW a \in Admins, NEW r \in ReclipCall,
         reclips' = [reclips EXCEPT ![a] = r], ReclipFormed(r), ReclipKnows(r)',
         \A j \in Jobs : row'[j].status = "PENDING" => row[j].status \in {"NEW", "PENDING"}
  PROVE  IInv'
<1>1. reclips'[a] = r /\ \A b \in Admins : b # a => reclips'[b] = reclips[b]
  BY DEF IInv, Reclipping
<1>2. ASSUME NEW b \in Admins
      PROVE  reclips'[b] \in ReclipCall /\ ReclipFormed(reclips[b])' /\ ReclipKnows(reclips[b])'
  <2>1. CASE b = a
    BY <1>1, <2>1 DEF ReclipFormed, ReclipKnows
  <2>2. CASE b # a
    <3>1. PICK s : s = reclips[b]
      OBVIOUS
    <3>2. /\ s \in ReclipCall /\ ReclipFormed(s) /\ ReclipKnows(s) /\ s.duplicates \subseteq Jobs
      BY <3>1, ReclipOf DEF ReclipCall
    <3>3. s = [s EXCEPT !.spared = s.spared \cup (s.duplicates \cap {})]
      BY <3>2 DEF ReclipCall
    <3>4. \A j \in s.duplicates \ {} : row'[j].status = "PENDING" => row[j].status = "PENDING"
      BY <3>2 DEF ReclipKnows
    <3>5. ReclipKnows(s)'
      BY <3>2, <3>3, <3>4, KnowsKept DEF IInv
    <3> QED
      BY <1>1, <2>2, <3>1, <3>2, <3>5 DEF ReclipFormed, ReclipKnows
  <2> QED
    BY <2>1, <2>2
<1>3. Reclipping'
  BY <1>2 DEF IInv, Reclipping
<1> QED
  BY <1>3 DEF IInv

(* A step that only reads.                                                 *)
LEMMA ReclipReads ==
  ASSUME IInv, NEW a \in Admins, NEW r \in ReclipCall,
         UNCHANGED <<row, link, given, leases, calls, raced, matched, late>>,
         reclips' = [reclips EXCEPT ![a] = r], ReclipFormed(r), ReclipKnows(r)
  PROVE  IInv'
<1>1. Base'
  BY DEF IInv, Base, TypeOK, CallFormed, LinkedIsListed, RenderedAsGiven, Exists
<1>2. Enlisted' /\ Grows
  BY DEF IInv, Enlisted, Grows, Exists
<1>3. ReclipKnows(r)'
  BY DEF ReclipKnows, Exists
<1>4. \A j \in Jobs : row'[j].status = "PENDING" => row[j].status \in {"NEW", "PENDING"}
  OBVIOUS
<1> QED
  BY <1>1, <1>2, <1>3, <1>4, ReclipMoves

LEMMA ReclipMatchesKeeps ==
  ASSUME IInv, NEW a \in Admins, ReclipMatches(a)
  PROVE  IInv'
<1> DEFINE view == [j \in Jobs |-> IF \E p \in matched : link[p] = j THEN row[j] ELSE NoView[j]]
           r == [IdleReclip EXCEPT !.step = "jobs", !.matched = matched, !.view = view]
<1>1. /\ view \in [Jobs -> [status : Status, trusted : SUBSET Players]]
      /\ \A j \in Jobs : row[j].status = "NEW" => view[j].status = "NEW"
  BY DEF IInv, Base, TypeOK, NoView, Status
<1>2. matched \subseteq Players
  BY DEF IInv, Enlisted
<1>3. reclips' = [reclips EXCEPT ![a] = r]
      /\ UNCHANGED <<row, link, given, leases, calls, raced, matched, late>>
  BY DEF ReclipMatches
<1> HIDE DEF view
<1>4. r \in ReclipCall /\ r.step = "jobs" /\ r.duplicates = {} /\ r.view = view
  <2>1. IdleReclip \in ReclipCall /\ IdleReclip.duplicates = {}
    BY IdleIsCall DEF IdleReclip
  <2> QED
    BY <1>1, <1>2, <2>1 DEF ReclipCall
<1> HIDE DEF r
<1>5. ReclipFormed(r) /\ ReclipKnows(r)
  BY <1>1, <1>4 DEF ReclipFormed, ReclipKnows
<1> QED
  BY <1>3, <1>4, <1>5, ReclipReads

LEMMA ReclipJobsKeeps ==
  ASSUME IInv, NEW a \in Admins, ReclipJobs(a)
  PROVE  IInv'
<1> DEFINE seen == View(a)
           all == United(reclips[a].matched, seen)
           Picked(step, target) ==
             [IdleReclip EXCEPT !.step = step, !.matched = reclips[a].matched,
                !.trusted = all, !.target = target,
                !.list = IF target = NoJob THEN {} ELSE seen[target].trusted,
                !.duplicates = Duplicates(seen, target), !.others = Duplicates(seen, target)]
<1>1. /\ all # {} /\ reclips[a].step = "jobs"
      /\ UNCHANGED <<row, link, given, leases, calls, raced, matched, late>>
      /\ \/ \E j \in First(Those(seen, {"PENDING"})) :
              reclips' = [reclips EXCEPT ![a] = Picked("refresh", j)]
         \/ \E j \in First(Those(seen, {"COMPLETED", "STOPPED"})) :
              reclips' = [reclips EXCEPT ![a] = Picked("requeue", j)]
         \/ reclips' = [reclips EXCEPT ![a] = Picked("create", NoJob)]
  BY DEF ReclipJobs, ToCancel
<1>2. reclips[a] \in ReclipCall /\ ReclipKnows(reclips[a])
  BY ReclipOf
<1>3. /\ seen \in [Jobs -> [status : Status, trusted : SUBSET Players]]
      /\ \A j \in Jobs : row[j].status = "NEW" => seen[j].status = "NEW"
  BY <1>2 DEF View, ReclipCall, ReclipKnows, Exists, IInv, Base, TypeOK
<1> HIDE DEF seen
<1>4. /\ all \in SUBSET Players /\ reclips[a].matched \subseteq all
      /\ \A j \in Jobs : seen[j].trusted \subseteq all
  BY <1>2, <1>3 DEF United, ReclipCall
<1> HIDE DEF all
<1>5. ASSUME NEW step \in {"refresh", "requeue", "create"}, NEW target \in Jobs \cup {NoJob},
             step # "create" => target \in Jobs /\ seen[target].status # "NEW",
             step = "create" => target = NoJob,
             reclips' = [reclips EXCEPT ![a] = Picked(step, target)]
      PROVE  IInv'
  <2> DEFINE list == IF target = NoJob THEN {} ELSE seen[target].trusted
             doubles == Duplicates(seen, target)
             r == [IdleReclip EXCEPT !.step = step, !.matched = reclips[a].matched,
                !.trusted = all, !.target = target, !.list = list,
                !.duplicates = doubles, !.others = doubles]
  <2>1. list \subseteq all /\ list \in SUBSET Players
    BY <1>3, <1>4, <1>5, Bounds
  <2>2. doubles \in SUBSET Jobs /\ \A j \in doubles : seen[j].status = "PENDING"
    BY DEF Duplicates, Those
  <2>3. reclips' = [reclips EXCEPT ![a] = r]
    BY <1>5
  <2> HIDE DEF list, doubles
  <2>4. /\ r \in ReclipCall /\ r.step = step /\ r.target = target /\ r.trusted = all
        /\ r.matched = reclips[a].matched /\ r.list = list /\ r.duplicates = doubles
        /\ r.others = doubles /\ r.view = NoView
    <3>1. IdleReclip \in ReclipCall /\ IdleReclip.view = NoView
      BY IdleIsCall DEF IdleReclip
    <3>2. reclips[a].matched \in SUBSET Players
      BY <1>2 DEF ReclipCall
    <3> QED
      BY <1>4, <1>5, <2>1, <2>2, <3>1, <3>2 DEF ReclipCall
  <2> HIDE DEF r
  <2>5. ReclipFormed(r)
    BY <1>1, <1>4, <1>5, <2>1, <2>4 DEF ReclipFormed
  <2>6. ReclipKnows(r)
    BY <1>3, <1>5, <2>2, <2>4 DEF ReclipKnows, NoView
  <2> QED
    BY <1>1, <2>3, <2>4, <2>5, <2>6, ReclipReads
<1>6. ASSUME NEW statuses \in {{"PENDING"}, {"COMPLETED", "STOPPED"}},
             NEW j \in First(Those(seen, statuses))
      PROVE  j \in Jobs /\ seen[j].status # "NEW"
  BY <1>6 DEF First, Those
<1> HIDE DEF Picked
<1>7. CASE \E j \in First(Those(seen, {"PENDING"})) :
             reclips' = [reclips EXCEPT ![a] = Picked("refresh", j)]
  BY <1>5, <1>6, <1>7
<1>8. CASE \E j \in First(Those(seen, {"COMPLETED", "STOPPED"})) :
             reclips' = [reclips EXCEPT ![a] = Picked("requeue", j)]
  BY <1>5, <1>6, <1>8
<1>9. CASE reclips' = [reclips EXCEPT ![a] = Picked("create", NoJob)]
  BY <1>5, <1>9
<1> QED
  BY <1>1, <1>7, <1>8, <1>9

(* The list of a job is replaced, by one that names everyone on it or      *)
(* races; the job may enter the queue again.                               *)
LEMMA ListKeeps ==
  ASSUME IInv, NEW t \in Jobs, Exists(t), NEW trusted \in SUBSET Players, trusted # {},
         NEW status \in {row[t].status, "PENDING"},
         row' = [row EXCEPT ![t] = [status |-> status, trusted |-> trusted]],
         UNCHANGED <<link, given, leases, calls>>,
         raced \subseteq raced', raced' \subseteq Jobs, late \subseteq late', late' \subseteq Jobs,
         t \notin raced' => row[t].trusted \subseteq trusted,
         t \notin late' => status = "PENDING"
  PROVE  Base' /\ Grows
<1>1. /\ row \in [Jobs -> [status : Status, trusted : SUBSET Players]]
      /\ row[t].status \in Status \ {"NEW", "DELETED"} /\ "PENDING" \in Status
  BY DEF IInv, Base, TypeOK, Exists, Status
<1>2. /\ row'[t].status = status /\ row'[t].trusted = trusted
      /\ \A j \in Jobs : j # t => row'[j] = row[j]
      /\ row' \in [Jobs -> [status : Status, trusted : SUBSET Players]]
  BY <1>1
<1>3. \A j \in Jobs : Exists(j)' <=> Exists(j)
  BY <1>1, <1>2 DEF Exists
<1>4. TypeOK'
  <2>1. link' \in [Players -> {j \in Jobs : Exists(j)}' \cup {NoJob}]
    BY <1>3 DEF IInv, Base, TypeOK
  <2>2. \A j \in Jobs : Exists(j)' => row'[j].trusted # {}
    BY <1>2, <1>3 DEF IInv, Base, TypeOK
  <2> QED
    BY <1>2, <2>1, <2>2 DEF IInv, Base, TypeOK
<1>5. LinkedIsListed'
  BY <1>2 DEF IInv, Base, LinkedIsListed
<1>6. RenderedAsGiven'
  BY <1>2 DEF IInv, Base, RenderedAsGiven
<1>7. Grows
  BY <1>1, <1>2, <1>3 DEF Grows, Exists
<1>8. \A d \in Calls : CallFormed(calls[d])'
  BY DEF IInv, Base, CallFormed
<1> QED
  BY <1>4, <1>5, <1>6, <1>7, <1>8 DEF Base

LEMMA RefreshKeeps ==
  ASSUME IInv, NEW a \in Admins, Refresh(a)
  PROVE  IInv'
<1> PICK t, r : t = reclips[a].target /\ r = [reclips[a] EXCEPT !.step = "link"]
  OBVIOUS
<1>1. /\ reclips[a].step = "refresh" /\ Exists(t)
      /\ row' = [row EXCEPT ![t].trusted = reclips[a].trusted]
      /\ raced' = raced \cup ChangedSince(a, t)
      /\ late' = IF row[t].status = "PENDING" THEN late ELSE late \cup {t}
      /\ reclips' = [reclips EXCEPT ![a] = r]
      /\ UNCHANGED <<link, given, leases, calls, matched>>
  BY DEF Refresh
<1>2. /\ reclips[a] \in ReclipCall /\ ReclipFormed(reclips[a]) /\ ReclipKnows(reclips[a])
      /\ t \in Jobs /\ reclips[a].trusted \in SUBSET Players /\ reclips[a].trusted # {}
      /\ reclips[a].list \subseteq reclips[a].trusted
  BY <1>1, ReclipOf DEF ReclipFormed, ReclipCall
<1>3. /\ r \in ReclipCall /\ r.step = "link" /\ r.matched = reclips[a].matched
      /\ r.view = reclips[a].view /\ r.trusted = reclips[a].trusted /\ r.target = t
      /\ r.list = reclips[a].list /\ r.duplicates = reclips[a].duplicates
      /\ r.others = reclips[a].others /\ r.spared = reclips[a].spared
  BY <1>2 DEF ReclipCall
<1>4. /\ row' = [row EXCEPT ![t] = [status |-> row[t].status, trusted |-> reclips[a].trusted]]
      /\ row[t].status \in {row[t].status, "PENDING"}
      /\ row \in [Jobs -> [status : Status, trusted : SUBSET Players]]
  <2>1. row \in [Jobs -> [status : Status, trusted : SUBSET Players]]
    BY DEF IInv, Base, TypeOK
  <2>2. [row[t] EXCEPT !.trusted = reclips[a].trusted]
          = [status |-> row[t].status, trusted |-> reclips[a].trusted]
    BY <1>2, <2>1
  <2> QED
    BY <1>1, <1>2, <2>1, <2>2
<1>5. /\ raced \subseteq raced' /\ raced' \subseteq Jobs /\ late \subseteq late' /\ late' \subseteq Jobs
      /\ t \notin raced' => row[t].trusted = reclips[a].list
      /\ t \notin late' => row[t].status = "PENDING"
  BY <1>1, <1>2 DEF ChangedSince, IInv, Base, TypeOK
<1>6. Base' /\ Grows
  <2>1. PICK status, trusted : status = row[t].status /\ trusted = reclips[a].trusted
    OBVIOUS
  <2>2. /\ row' = [row EXCEPT ![t] = [status |-> status, trusted |-> trusted]]
        /\ status \in {row[t].status, "PENDING"} /\ trusted \in SUBSET Players /\ trusted # {}
        /\ UNCHANGED <<link, given, leases, calls>> /\ Exists(t)
    BY <1>1, <1>2, <1>4, <2>1
  <2>3. /\ t \notin raced' => row[t].trusted \subseteq trusted
        /\ t \notin late' => status = "PENDING"
    BY <1>2, <1>5, <2>1
  <2> QED
    BY <1>2, <1>5, <2>2, <2>3, ListKeeps
<1>7. Enlisted'
  BY <1>1 DEF IInv, Enlisted
<1>8. /\ \A j \in Jobs : row'[j].status = row[j].status
      /\ row'[t].trusted = reclips[a].trusted
  BY <1>2, <1>4
<1>9. ReclipFormed(r)
  BY <1>1, <1>2, <1>3 DEF ReclipFormed
<1>10. ReclipKnows(r)'
  <2>1. r.duplicates \subseteq Jobs
    BY <1>3 DEF ReclipCall
  <2> QED
    BY <1>1, <1>2, <1>3, <1>8, <2>1 DEF ReclipKnows
<1> QED
  BY <1>1, <1>3, <1>6, <1>7, <1>8, <1>9, <1>10, ReclipMoves

LEMMA CreateJobKeeps ==
  ASSUME IInv, NEW a \in Admins, Create(a)
  PROVE  IInv'
<1>1. PICK t \in Jobs :
        /\ reclips[a].step = "create" /\ row[t].status = "NEW"
        /\ row' = [row EXCEPT ![t] = [status |-> "PENDING", trusted |-> reclips[a].trusted]]
        /\ reclips' = [reclips EXCEPT ![a].step = "link", ![a].target = t]
        /\ UNCHANGED <<link, given, leases, calls, raced, matched, late>>
  BY DEF Create, NextId, Queued
<1> PICK r : r = [reclips[a] EXCEPT !.step = "link", !.target = t]
  OBVIOUS
<1>2. /\ reclips[a] \in ReclipCall /\ ReclipFormed(reclips[a]) /\ ReclipKnows(reclips[a])
      /\ reclips[a].trusted \in SUBSET Players /\ reclips[a].trusted # {}
      /\ reclips[a].others = reclips[a].duplicates
  BY <1>1, ReclipOf DEF ReclipFormed, ReclipCall
<1>3. reclips' = [reclips EXCEPT ![a] = r]
  BY <1>1 DEF IInv, Reclipping
<1>4. /\ r \in ReclipCall /\ r.step = "link" /\ r.matched = reclips[a].matched
      /\ r.view = reclips[a].view /\ r.trusted = reclips[a].trusted /\ r.target = t
      /\ r.list = reclips[a].list /\ r.duplicates = reclips[a].duplicates
      /\ r.others = reclips[a].others /\ r.spared = reclips[a].spared
  BY <1>1, <1>2 DEF ReclipCall
<1>5. Base' /\ Grows
  <2>1. /\ link' \in [Players -> {k \in Jobs : Exists(k)} \cup {t, NoJob}] /\ raced' \subseteq Jobs
        /\ calls' \in [Calls -> EnqueueCall] /\ \A d \in Calls : CallFormed(calls[d])'
    BY <1>1 DEF IInv, Base, TypeOK, EnqueueCall, CallFormed
  <2> QED
    BY <1>1, <1>2, <2>1, NewJob DEF IInv
<1>6. Enlisted'
  BY <1>1 DEF IInv, Enlisted
<1>7. /\ row'[t] = [status |-> "PENDING", trusted |-> reclips[a].trusted]
      /\ \A j \in Jobs : j # t => row'[j] = row[j]
  BY <1>1 DEF IInv, Base, TypeOK
<1>8. ReclipFormed(r)
  BY <1>1, <1>2, <1>4 DEF ReclipFormed
<1>9. ReclipKnows(r)'
  BY <1>1, <1>2, <1>4, <1>7 DEF ReclipKnows
<1>10. \A j \in Jobs : row'[j].status = "PENDING" => row[j].status \in {"NEW", "PENDING"}
  BY <1>1, <1>7
<1>11. r \in ReclipCall
  BY <1>4
<1> QED
  BY <1>3, <1>5, <1>6, <1>8, <1>9, <1>10, <1>11, ReclipMoves

LEMMA LinkAllKeeps ==
  ASSUME IInv, NEW a \in Admins, LinkAll(a)
  PROVE  IInv'
<1> PICK t, r :
      /\ t = reclips[a].target
      /\ r = [IdleReclip EXCEPT !.step = "cancel", !.duplicates = reclips[a].duplicates,
                                !.others = reclips[a].others, !.spared = reclips[a].spared]
  OBVIOUS
<1>1. /\ reclips[a].step = "link" /\ reclips' = [reclips EXCEPT ![a] = r]
      /\ UNCHANGED <<row, given, leases, calls, matched, late>>
  BY DEF LinkAll
<1>2. /\ reclips[a] \in ReclipCall /\ ReclipKnows(reclips[a]) /\ t \in Jobs
      /\ reclips[a].matched \subseteq reclips[a].trusted
      /\ reclips[a].others = reclips[a].duplicates
  BY <1>1, ReclipOf DEF ReclipFormed
<1>3. /\ r \in ReclipCall /\ r.step = "cancel" /\ r.duplicates = reclips[a].duplicates
      /\ r.others = reclips[a].others /\ r.view = NoView
  <2>1. IdleReclip \in ReclipCall /\ IdleReclip.view = NoView
    BY IdleIsCall DEF IdleReclip
  <2>2. /\ reclips[a].duplicates \in SUBSET Jobs /\ reclips[a].others \in SUBSET Jobs
        /\ reclips[a].spared \in SUBSET Jobs
    BY <1>2 DEF ReclipCall
  <2> QED
    BY <2>1, <2>2 DEF ReclipCall
<1>4. \/ UNCHANGED <<link, raced>>
      \/ /\ Exists(t)
         /\ link' = [p \in Players |-> IF p \in matched THEN t ELSE link[p]]
         /\ raced' = IF matched \subseteq reclips[a].matched \cup reclips[a].trusted THEN raced
                     ELSE raced \cup {t}
  BY DEF LinkAll, Linkable
<1>5. raced \subseteq raced' /\ raced' \subseteq Jobs
  BY <1>2, <1>4 DEF IInv, Base, TypeOK
<1>6. TypeOK'
  <2>1. link' \in [Players -> {j \in Jobs : Exists(j)} \cup {NoJob}]
    BY <1>2, <1>4 DEF IInv, Base, TypeOK
  <2>2. link' \in [Players -> {j \in Jobs : Exists(j)}' \cup {NoJob}]
    BY <1>1, <2>1 DEF Exists
  <2> QED
    BY <1>1, <1>5, <2>2 DEF IInv, Base, TypeOK, Exists
<1>7. LinkedIsListed'
  <2> SUFFICES ASSUME NEW j \in Jobs \ raced', NEW p \in Players, link'[p] = j
               PROVE  p \in row[j].trusted
    BY <1>1 DEF LinkedIsListed
  <2>1. CASE link[p] = j
    BY <1>5, <2>1 DEF IInv, Base, LinkedIsListed
  <2>2. CASE link[p] # j
    <3>1. /\ p \in matched /\ j = t /\ Exists(t) /\ t \notin raced
          /\ matched \subseteq reclips[a].matched \cup reclips[a].trusted
      BY <1>4, <1>5, <2>2
    <3>2. reclips[a].trusted \subseteq row[t].trusted
      BY <1>1, <1>2, <3>1 DEF ReclipKnows
    <3> QED
      BY <1>2, <3>1, <3>2
  <2> QED
    BY <2>1, <2>2
<1>8. Base'
  <2>1. RenderedAsGiven' /\ \A d \in Calls : CallFormed(calls[d])'
    BY <1>1, <1>5 DEF IInv, Base, RenderedAsGiven, CallFormed
  <2> QED
    BY <1>1, <1>6, <1>7, <2>1 DEF IInv, Base
<1>9. Grows
  BY <1>1, <1>5 DEF Grows, Exists
<1>10. Enlisted'
  BY <1>1, <1>4 DEF IInv, Enlisted
<1>11. ReclipFormed(r)
  BY <1>3 DEF ReclipFormed
<1>12. ReclipKnows(r)'
  BY <1>1, <1>2, <1>3 DEF ReclipKnows, NoView
<1>13. \A j \in Jobs : row'[j].status = "PENDING" => row[j].status \in {"NEW", "PENDING"}
  BY <1>1
<1> QED
  BY <1>1, <1>3, <1>8, <1>9, <1>10, <1>11, <1>12, <1>13, ReclipMoves

LEMMA RequeueEndedKeeps ==
  ASSUME IInv, NEW a \in Admins, RequeueEnded(a)
  PROVE  IInv'
<1> PICK t : t = reclips[a].target
  OBVIOUS
<1>1. /\ reclips[a].step = "requeue" /\ Exists(t)
      /\ row' = [row EXCEPT ![t] = [status |-> "PENDING", trusted |-> reclips[a].trusted]]
      /\ raced' = raced \cup ChangedSince(a, t)
      /\ reclips' = [Spare({t}) EXCEPT ![a].step = "link"]
      /\ UNCHANGED <<link, given, leases, calls, matched, late>>
  BY DEF RequeueEnded, Queued
<1>2. /\ reclips[a] \in ReclipCall /\ ReclipFormed(reclips[a]) /\ ReclipKnows(reclips[a])
      /\ t \in Jobs /\ reclips[a].trusted \in SUBSET Players /\ reclips[a].trusted # {}
      /\ reclips[a].list \subseteq reclips[a].trusted
  BY <1>1, ReclipOf DEF ReclipFormed, ReclipCall
<1>3. Base' /\ Grows
  <2>1. PICK trusted : trusted = reclips[a].trusted
    OBVIOUS
  <2>2. /\ row' = [row EXCEPT ![t] = [status |-> "PENDING", trusted |-> trusted]]
        /\ trusted \in SUBSET Players /\ trusted # {}
    BY <1>1, <1>2, <2>1
  <2>3. /\ raced \subseteq raced' /\ raced' \subseteq Jobs /\ late \subseteq late' /\ late' \subseteq Jobs
        /\ t \notin raced' => row[t].trusted \subseteq trusted
    BY <1>1, <1>2, <2>1 DEF ChangedSince, IInv, Base, TypeOK
  <2> QED
    BY <1>1, <1>2, <2>2, <2>3, ListKeeps
<1>4. Enlisted'
  BY <1>1 DEF IInv, Enlisted
<1>5. /\ row'[t].status = "PENDING" /\ row'[t].trusted = reclips[a].trusted
      /\ \A j \in Jobs : j # t => row'[j] = row[j]
  BY <1>1, <1>2 DEF IInv, Base, TypeOK
<1>6. ASSUME NEW b \in Admins
      PROVE  \E s : /\ s = [reclips[b] EXCEPT !.spared = reclips[b].spared \cup
                                                 (reclips[b].duplicates \cap {t})]
                    /\ Spare({t})[b] = s /\ s \in ReclipCall /\ ReclipFormed(s)
                    /\ ReclipKnows(s)'
  <2>1. PICK r, s : r = reclips[b] /\ s = [r EXCEPT !.spared = r.spared \cup (r.duplicates \cap {t})]
    OBVIOUS
  <2>2. r \in ReclipCall /\ ReclipFormed(r) /\ ReclipKnows(r) /\ r.duplicates \subseteq Jobs
    BY <2>1, ReclipOf DEF ReclipCall
  <2>3. \A j \in r.duplicates \ {t} : row'[j].status = "PENDING" => row[j].status = "PENDING"
    BY <1>5, <2>2
  <2>4. s \in ReclipCall /\ ReclipFormed(s) /\ ReclipKnows(s)'
    <3>1. PICK again \in SUBSET Jobs : again = {t}
      BY <1>2
    <3>2. /\ s = [r EXCEPT !.spared = r.spared \cup (r.duplicates \cap again)]
          /\ \A j \in r.duplicates \ again : row'[j].status = "PENDING" => row[j].status = "PENDING"
      BY <2>1, <2>3, <3>1
    <3> QED
      BY <1>3, <2>2, <3>2, KnowsKept DEF IInv
  <2> QED
    BY <2>1, <2>4 DEF Spare
<1>7. Spare({t}) \in [Admins -> ReclipCall]
  BY <1>6 DEF Spare
<1>8. ASSUME NEW b \in Admins
      PROVE  reclips'[b] \in ReclipCall /\ ReclipFormed(reclips[b])' /\ ReclipKnows(reclips[b])'
  <2>1. PICK s : /\ s = [reclips[b] EXCEPT !.spared = reclips[b].spared \cup
                                               (reclips[b].duplicates \cap {t})]
                 /\ Spare({t})[b] = s /\ s \in ReclipCall /\ ReclipFormed(s)
                 /\ ReclipKnows(s)'
    BY <1>6
  <2>2. s \in ReclipCall /\ ReclipFormed(s) /\ ReclipKnows(s)'
    BY <2>1
  <2>3. CASE b # a
    <3>1. reclips'[b] = s
      BY <1>1, <1>7, <2>1, <2>3
    <3> QED
      BY <2>2, <3>1 DEF ReclipFormed, ReclipKnows
  <2>4. CASE b = a
    <3>1. PICK r : r = [s EXCEPT !.step = "link"]
      OBVIOUS
    <3>2. reclips'[b] = r
      BY <1>1, <1>7, <2>1, <2>4, <3>1
    <3>3. s.step = "requeue" /\ s.trusted = reclips[a].trusted /\ s.target = t
      BY <1>1, <1>2, <2>1, <2>4 DEF ReclipCall
    <3>4. /\ r \in ReclipCall /\ r.step = "link" /\ r.matched = s.matched /\ r.view = s.view
          /\ r.trusted = s.trusted /\ r.target = s.target /\ r.list = s.list
          /\ r.duplicates = s.duplicates /\ r.others = s.others /\ r.spared = s.spared
      BY <2>2, <3>1 DEF ReclipCall
    <3>5. ReclipFormed(r)
      BY <2>2, <3>3, <3>4 DEF ReclipFormed
    <3>6. ReclipKnows(r)'
      BY <1>5, <2>2, <3>3, <3>4 DEF ReclipKnows
    <3> QED
      BY <3>2, <3>4, <3>5, <3>6 DEF ReclipFormed, ReclipKnows
  <2> QED
    BY <2>3, <2>4
<1>9. Reclipping'
  <2>1. reclips' \in [Admins -> ReclipCall]
    BY <1>1, <1>7, <1>8
  <2> QED
    BY <1>8, <2>1 DEF Reclipping
<1> QED
  BY <1>3, <1>4, <1>9 DEF IInv

LEMMA CancelKeeps ==
  ASSUME IInv, NEW a \in Admins, NEW j \in Jobs, CancelOther(a, j) \/ CancelFails(a, j)
  PROVE  IInv'
<1>1. /\ reclips[a].step = "cancel" /\ j \in reclips[a].others
      /\ UNCHANGED <<link, given, leases, calls, raced, matched, late>>
  BY DEF CancelOther, CancelFails
<1>2. reclips[a] \in ReclipCall /\ ReclipKnows(reclips[a]) /\ reclips[a].duplicates \subseteq Jobs
  BY ReclipOf DEF ReclipCall
<1>3. CASE CancelOther(a, j)
  <2> PICK r : r = [reclips[a] EXCEPT !.others = reclips[a].others \ {j}]
    OBVIOUS
  <2>1. /\ row' = (IF row[j].status \in {"PENDING", "CLAIMED", "LEASED"}
                   THEN [row EXCEPT ![j].status = "STOPPED"] ELSE row)
        /\ reclips' = [reclips EXCEPT ![a] = r]
    BY <1>3 DEF CancelOther, IInv, Reclipping
  <2>2. /\ r \in ReclipCall /\ r.step = "cancel" /\ r.view = reclips[a].view
        /\ r.duplicates = reclips[a].duplicates /\ r.others = reclips[a].others \ {j}
        /\ r.spared = reclips[a].spared
    BY <1>1, <1>2 DEF ReclipCall
  <2>3. ReclipFormed(r)
    BY <2>2 DEF ReclipFormed
  <2>4. Base' /\ Grows
    <3>1. /\ given' \in [Jobs -> SUBSET Players] /\ leases' \in [Leases -> Jobs \cup {NoJob}]
          /\ raced' \subseteq Jobs /\ "STOPPED" \in Status \ {"NEW", "DELETED"}
      BY <1>1 DEF IInv, Base, TypeOK, Status
    <3>2. CASE row[j].status \in {"PENDING", "CLAIMED", "LEASED"}
      <4>1. row' = [row EXCEPT ![j].status = "STOPPED"] /\ Exists(j)
        BY <2>1, <3>2 DEF Exists
      <4>2. SetStatus({j}, "STOPPED")
        BY <1>1, <4>1 DEF SetStatus, IInv, Base, TypeOK
      <4> QED
        BY <1>1, <3>1, <4>1, <4>2, StatusKeeps DEF IInv
    <3>3. CASE row' = row
      BY <1>1, <3>3 DEF IInv, Base, TypeOK, CallFormed, LinkedIsListed, RenderedAsGiven,
                        Exists, Grows
    <3> QED
      BY <2>1, <3>2, <3>3
  <2>5. /\ \A i \in Jobs : i # j => row'[i].status = row[i].status
        /\ row'[j].status # "PENDING"
        /\ row'[j].status = "NEW" => row[j].status = "NEW"
    BY <2>1 DEF IInv, Base, TypeOK
  <2>6. ReclipKnows(r)'
    BY <1>2, <2>2, <2>5 DEF ReclipKnows
  <2>7. Enlisted'
    BY <1>1 DEF IInv, Enlisted
  <2> QED
    BY <2>1, <2>2, <2>3, <2>4, <2>5, <2>6, <2>7, ReclipMoves
<1>4. CASE CancelFails(a, j)
  <2> PICK r : r = [reclips[a] EXCEPT !.others = reclips[a].others \ {j},
                                      !.spared = reclips[a].spared \cup {j}]
    OBVIOUS
  <2>1. reclips' = [reclips EXCEPT ![a] = r] /\ row' = row
    BY <1>4 DEF CancelFails, IInv, Reclipping
  <2>2. /\ r \in ReclipCall /\ r.step = "cancel" /\ r.view = reclips[a].view
        /\ r.duplicates = reclips[a].duplicates /\ r.others = reclips[a].others \ {j}
        /\ r.spared = reclips[a].spared \cup {j}
    BY <1>1, <1>2 DEF ReclipCall
  <2>3. ReclipFormed(r) /\ ReclipKnows(r)
    BY <1>2, <2>2 DEF ReclipFormed, ReclipKnows
  <2> QED
    BY <1>1, <2>1, <2>2, <2>3, ReclipReads
<1> QED
  BY <1>3, <1>4

LEMMA StepIInv ==
  ASSUME IInv, [ReclipNext]_allVars
  PROVE  IInv'
<1>1. CASE UNCHANGED allVars
  BY <1>1 DEF allVars, IInv, Base, TypeOK, CallFormed, LinkedIsListed, RenderedAsGiven, Exists,
              Enlisted, Reclipping, ReclipFormed, ReclipKnows
<1>2. ASSUME NEW a \in Admins, ReclipDone(a) \/ ReclipFails(a)
      PROVE  IInv'
  BY <1>2, IdleIsCall, ReclipReads DEF ReclipDone, ReclipFails, EndReclip
<1> QED
  BY <1>1, <1>2, EnqueueStepKeeps, ReclipMatchesKeeps, ReclipJobsKeeps, RefreshKeeps,
     RequeueEndedKeeps, CreateJobKeeps, LinkAllKeeps, CancelKeeps DEF ReclipNext, ReclipStep

LEMMA SpecIInv == ReclipSpec => []IInv
<1>1. ReclipInit => IInv
  BY InitIInv
<1>2. IInv /\ [ReclipNext]_allVars => IInv'
  BY StepIInv
<1> QED
  BY <1>1, <1>2, PTL DEF ReclipSpec
-------------------------------------------------------------------------------
(* The variables keep their types and links never dangle, with any number  *)
(* of reclips (reclipByShareCode) and enqueues in flight.                  *)
THEOREM ReclipTypeCorrect == ReclipSpec => []ReclipTypeOK
<1>1. IInv => ReclipTypeOK
  BY DEF IInv, Base, Enlisted, Reclipping, ReclipCall, ReclipTypeOK
<1> QED
  BY <1>1, SpecIInv, PTL

(* Every linked player is on the job's list, but for races: reclip unites  *)
(* the players before it moves their links (jobs.service.ts 574-684).      *)
THEOREM LinkedAreListed == ReclipSpec => []LinkedIsListed
<1>1. IInv => LinkedIsListed
  BY DEF IInv, Base
<1> QED
  BY <1>1, SpecIInv, PTL

(* What a worker renders serves everyone linked to the job: a reclip       *)
(* changes the list of a job that is not in the queue only by putting it   *)
(* back there, or late.                                                    *)
THEOREM LinkedRenderTogether == ReclipSpec => []RenderedTogether
<1>1. IInv => RenderedTogether
  BY DEF IInv, Base, LinkedIsListed, RenderedAsGiven, RenderedTogether
<1> QED
  BY <1>1, SpecIInv, PTL

(* A reclip that is done leaves none of the duplicates it had read PENDING *)
(* (jobs.service.ts 686-700), but those queued again or not cancelled.     *)
THEOREM DuplicatesCollapse == ReclipSpec => Collapses
<1> DEFINE Collapsing ==
      \A a \in Admins :
        ReclipDone(a) => \A j \in reclips[a].duplicates \ reclips[a].spared :
                           row[j].status # "PENDING"
<1>1. IInv => Collapsing
  <2> SUFFICES ASSUME IInv, NEW a \in Admins, ReclipDone(a)
               PROVE  \A j \in reclips[a].duplicates \ reclips[a].spared :
                        row[j].status # "PENDING"
    OBVIOUS
  <2>1. ReclipKnows(reclips[a]) /\ reclips[a].others = {}
    BY ReclipOf DEF ReclipDone
  <2> QED
    BY <2>1 DEF ReclipKnows
<1>2. [][Collapsing]_allVars => Collapses
  BY DEF Collapses
<1> QED
  BY <1>1, <1>2, SpecIInv, PTL
===============================================================================
