----------------------------- MODULE EnqueueProofs -----------------------------
(***************************************************************************)
(* The enqueue protocol, for any players, jobs and requests in flight:     *)
(* links and payloads agree and nobody joins a job whose payload was read, *)
(* except where enqueues race (and there TLC shows that they do not).      *)
(***************************************************************************)
EXTENDS Enqueue, TLAPS

(* A handler past its first read works for a player, and one that merges   *)
(* has a job.                                                              *)
CallsFormed ==
  \A c \in Calls : /\ calls[c].step # "idle" => calls[c].player \in Players
                   /\ calls[c].step = "merge" => calls[c].job \in Jobs

(* What the worker was given is still the payload while it renders.        *)
RenderedAsGiven ==
  \A j \in Jobs \ raced :
    row[j].status \in {"LEASED", "COMPLETED"} => row[j].trusted = given[j]

IInv == TypeOK /\ CallsFormed /\ PayloadMatchesLinks /\ RenderedAsGiven
-------------------------------------------------------------------------------
LEMMA InitIInv == Init => IInv
BY EnqueueAssumption
DEF EnqueueAssumption, Init, IInv, TypeOK, CallsFormed, PayloadMatchesLinks, RenderedAsGiven,
    IdleCall, Status, Exists

(* A step of a handler that only reads.                                    *)
LEMMA ReadKeeps ==
  ASSUME IInv, NEW c \in Calls, UNCHANGED <<row, link, given, leases, raced>>,
         NEW call, calls' = [calls EXCEPT ![c] = call],
         call \in [step : {"idle", "recheck", "find", "merge", "create"},
                   player : Players \cup {NoPlayer},
                   job : Jobs \cup {NoJob},
                   seen : SUBSET Players],
         call.step # "idle" => call.player \in Players,
         call.step = "merge" => call.job \in Jobs
  PROVE  IInv'
<1>1. TypeOK'
  BY DEF IInv, TypeOK, Exists
<1>2. CallsFormed'
  BY DEF IInv, TypeOK, CallsFormed
<1>3. PayloadMatchesLinks' /\ RenderedAsGiven'
  BY DEF IInv, PayloadMatchesLinks, RenderedAsGiven, Exists
<1> QED
  BY <1>1, <1>2, <1>3 DEF IInv

LEMMA MergeKeeps ==
  ASSUME IInv, NEW c \in Calls, EnqueueMerge(c)
  PROVE  IInv'
<1> DEFINE p == calls[c].player
           j == calls[c].job
<1>1. /\ p \in Players /\ j \in Jobs /\ row[j].status = "PENDING"
      /\ calls[c].seen \subseteq Players
      /\ row' = [row EXCEPT ![j].trusted = calls[c].seen \cup {p}]
      /\ link' = [link EXCEPT ![p] = j]
      /\ raced' = raced \cup Racing(p, j, row[j].trusted # calls[c].seen)
      /\ calls' = [calls EXCEPT ![c] = IdleCall]
      /\ given' = given /\ leases' = leases
  BY DEF EnqueueMerge, IInv, TypeOK, CallsFormed, Mergeable, WithTrusted
<1>2. /\ row'[j].trusted = calls[c].seen \cup {p}
      /\ \A k \in Jobs : k # j => row'[k] = row[k]
      /\ \A k \in Jobs : row'[k].status = row[k].status
  BY <1>1 DEF IInv, TypeOK
<1>3. TypeOK'
  <2>1. row' \in [Jobs -> [status : Status, trusted : SUBSET Players]]
    BY <1>1 DEF IInv, TypeOK
  <2>2. link' \in [Players -> {k \in Jobs : Exists(k)}' \cup {NoJob}]
    BY <1>1, <1>2 DEF IInv, TypeOK, Exists
  <2>3. ASSUME NEW k \in Jobs, Exists(k)'
        PROVE  row'[k].trusted # {}
    <3>1. CASE k = j
      BY <1>2, <3>1
    <3>2. CASE k # j
      BY <1>2, <2>3, <3>2 DEF IInv, TypeOK, Exists
    <3> QED
      BY <3>1, <3>2
  <2>4. raced' \subseteq Jobs
    BY <1>1 DEF IInv, TypeOK, Racing
  <2> QED
    BY <1>1, <2>1, <2>2, <2>3, <2>4 DEF IInv, TypeOK, IdleCall
<1>4. CallsFormed'
  BY <1>1 DEF IInv, TypeOK, CallsFormed, IdleCall
<1>5. PayloadMatchesLinks'
  <2> SUFFICES ASSUME NEW k \in Jobs \ raced', NEW q \in Players, Exists(k)
               PROVE  q \in row'[k].trusted <=> link'[q] = k
    BY <1>2 DEF PayloadMatchesLinks, Exists
  <2>1. k \notin raced /\ link[p] # k /\ (k = j => row[j].trusted = calls[c].seen)
    BY <1>1, EnqueueAssumption DEF Racing, EnqueueAssumption
  <2>2. q \in row[k].trusted <=> link[q] = k
    BY <2>1 DEF IInv, PayloadMatchesLinks
  <2>3. link'[q] = IF q = p THEN j ELSE link[q]
    BY <1>1 DEF IInv, TypeOK
  <2>4. CASE k = j
    BY <1>2, <2>1, <2>2, <2>3, <2>4
  <2>5. CASE k # j
    BY <1>2, <2>1, <2>2, <2>3, <2>5
  <2> QED
    BY <2>4, <2>5
<1>6. RenderedAsGiven'
  <2> SUFFICES ASSUME NEW k \in Jobs \ raced', row'[k].status \in {"LEASED", "COMPLETED"}
               PROVE  row'[k].trusted = given'[k]
    BY DEF RenderedAsGiven
  <2> QED
    BY <1>1, <1>2 DEF IInv, RenderedAsGiven
<1> QED
  BY <1>3, <1>4, <1>5, <1>6 DEF IInv

LEMMA CreateKeeps ==
  ASSUME IInv, NEW c \in Calls, EnqueueCreate(c)
  PROVE  IInv'
<1> DEFINE p == calls[c].player
<1>1. PICK j \in Jobs :
        /\ row[j].status = "NEW"
        /\ row' = [row EXCEPT ![j] = [status |-> "PENDING", trusted |-> {p}]]
        /\ link' = [link EXCEPT ![p] = j]
        /\ raced' = raced \cup Racing(p, j, FALSE)
        /\ calls' = [calls EXCEPT ![c] = IdleCall]
        /\ given' = given /\ leases' = leases
  BY DEF EnqueueCreate, NextId
<1>2. p \in Players
  BY DEF EnqueueCreate, IInv, CallsFormed
<1>3. /\ row'[j] = [status |-> "PENDING", trusted |-> {p}]
      /\ \A k \in Jobs : k # j => row'[k] = row[k]
  BY <1>1 DEF IInv, TypeOK
<1>4. \A q \in Players : link[q] # j
  BY <1>1, EnqueueAssumption DEF IInv, TypeOK, Exists, EnqueueAssumption
<1>5. TypeOK'
  <2>1. row' \in [Jobs -> [status : Status, trusted : SUBSET Players]]
    BY <1>1, <1>2 DEF IInv, TypeOK, Status
  <2>2. link' \in [Players -> {k \in Jobs : Exists(k)}' \cup {NoJob}]
    BY <1>1, <1>3 DEF IInv, TypeOK, Exists
  <2>3. ASSUME NEW k \in Jobs, Exists(k)'
        PROVE  row'[k].trusted # {}
    <3>1. CASE k = j
      BY <1>3, <3>1
    <3>2. CASE k # j
      BY <1>3, <2>3, <3>2 DEF IInv, TypeOK, Exists
    <3> QED
      BY <3>1, <3>2
  <2>4. raced' \subseteq Jobs
    BY <1>1, <1>2 DEF IInv, TypeOK, Racing
  <2> QED
    BY <1>1, <2>1, <2>2, <2>3, <2>4 DEF IInv, TypeOK, IdleCall
<1>6. CallsFormed'
  BY <1>1 DEF IInv, TypeOK, CallsFormed, IdleCall
<1>7. PayloadMatchesLinks'
  <2> SUFFICES ASSUME NEW k \in Jobs \ raced', NEW q \in Players, Exists(k)'
               PROVE  q \in row'[k].trusted <=> link'[q] = k
    BY DEF PayloadMatchesLinks
  <2>1. link'[q] = IF q = p THEN j ELSE link[q]
    BY <1>1, <1>2 DEF IInv, TypeOK
  <2>2. CASE k = j
    BY <1>3, <1>4, <2>1, <2>2
  <2>3. CASE k # j
    <3>1. k \notin raced /\ link[p] # k
      BY <1>1, EnqueueAssumption DEF Racing, EnqueueAssumption
    <3>2. q \in row[k].trusted <=> link[q] = k
      BY <1>3, <2>3, <3>1 DEF IInv, PayloadMatchesLinks, Exists
    <3> QED
      BY <1>3, <2>1, <2>3, <3>1, <3>2
  <2> QED
    BY <2>2, <2>3
<1>8. RenderedAsGiven'
  <2> SUFFICES ASSUME NEW k \in Jobs \ raced', row'[k].status \in {"LEASED", "COMPLETED"}
               PROVE  row'[k].trusted = given'[k]
    BY DEF RenderedAsGiven
  <2>1. k # j
    BY <1>3
  <2> QED
    BY <1>1, <1>3, <2>1 DEF IInv, RenderedAsGiven
<1> QED
  BY <1>5, <1>6, <1>7, <1>8 DEF IInv

(* A step of the queue: rows change their status and nothing else, and     *)
(* become LEASED or COMPLETED only with the list that was read of them.    *)
LEMMA StatusKeeps ==
  ASSUME IInv, NEW jobs \in SUBSET Jobs, \A j \in jobs : Exists(j),
         NEW status \in Status \ {"NEW", "DELETED"}, SetStatus(jobs, status),
         given' \in [Jobs -> SUBSET Players],
         leases' \in [Leases -> Jobs \cup {NoJob}],
         raced \subseteq raced', raced' \subseteq Jobs,
         \A j \in Jobs \ raced' :
           given'[j] # given[j] => given'[j] = row[j].trusted,
         \A j \in jobs \ raced' :
           status \in {"LEASED", "COMPLETED"} => row[j].trusted = given'[j]
  PROVE  IInv'
<1>1. /\ row' = [j \in Jobs |-> IF j \in jobs THEN [row[j] EXCEPT !.status = status]
                                             ELSE row[j]]
      /\ link' = link /\ calls' = calls
      /\ \A j \in jobs : row'[j].status = status
      /\ \A k \in Jobs : row'[k].trusted = row[k].trusted
      /\ \A k \in Jobs : k \notin jobs => row'[k] = row[k]
  BY DEF SetStatus, IInv, TypeOK
<1>2. \A k \in Jobs : Exists(k)' <=> Exists(k)
  BY <1>1 DEF Exists
<1>3. TypeOK'
  <2>1. row' \in [Jobs -> [status : Status, trusted : SUBSET Players]]
    BY <1>1 DEF IInv, TypeOK
  <2>2. link' \in [Players -> {k \in Jobs : Exists(k)}' \cup {NoJob}]
    BY <1>1, <1>2 DEF IInv, TypeOK
  <2> QED
    BY <1>1, <1>2, <2>1, <2>2 DEF IInv, TypeOK
<1>4. CallsFormed' /\ PayloadMatchesLinks'
  BY <1>1, <1>2 DEF IInv, CallsFormed, PayloadMatchesLinks
<1>5. RenderedAsGiven'
  <2> SUFFICES ASSUME NEW k \in Jobs \ raced', row'[k].status \in {"LEASED", "COMPLETED"}
               PROVE  row'[k].trusted = given'[k]
    BY DEF RenderedAsGiven
  <2>1. CASE k \in jobs
    BY <1>1, <2>1
  <2>2. CASE k \notin jobs
    BY <1>1, <2>2 DEF IInv, RenderedAsGiven
  <2> QED
    BY <2>1, <2>2
<1> QED
  BY <1>3, <1>4, <1>5 DEF IInv

LEMMA DeleteKeeps ==
  ASSUME IInv, NEW j \in Jobs, Delete(j)
  PROVE  IInv'
<1>1. /\ row' = [row EXCEPT ![j] = [status |-> "DELETED", trusted |-> {}]]
      /\ row'[j].status = "DELETED"
      /\ \A k \in Jobs : k # j => row'[k] = row[k] /\ given'[k] = given[k]
      /\ given' \in [Jobs -> SUBSET Players]
      /\ link' = [p \in Players |-> IF link[p] = j THEN NoJob ELSE link[p]]
      /\ calls' = calls /\ leases' = leases /\ raced' = raced
  BY DEF Delete, Unlinked, IInv, TypeOK
<1>2. TypeOK'
  <2>1. row' \in [Jobs -> [status : Status, trusted : SUBSET Players]]
    BY <1>1 DEF IInv, TypeOK, Status
  <2>2. link' \in [Players -> {k \in Jobs : Exists(k)}' \cup {NoJob}]
    BY <1>1 DEF IInv, TypeOK, Exists
  <2>3. \A k \in Jobs : Exists(k)' => row'[k].trusted # {}
    BY <1>1 DEF IInv, TypeOK, Exists
  <2> QED
    BY <1>1, <2>1, <2>2, <2>3 DEF IInv, TypeOK
<1>3. PayloadMatchesLinks'
  <2> SUFFICES ASSUME NEW k \in Jobs \ raced, NEW q \in Players, Exists(k)'
               PROVE  q \in row'[k].trusted <=> link'[q] = k
    BY <1>1 DEF PayloadMatchesLinks
  <2>1. k # j /\ row'[k] = row[k] /\ Exists(k)
    BY <1>1 DEF Exists
  <2> QED
    BY <1>1, <2>1, EnqueueAssumption DEF IInv, PayloadMatchesLinks, EnqueueAssumption
<1>4. CallsFormed' /\ RenderedAsGiven'
  BY <1>1 DEF IInv, CallsFormed, RenderedAsGiven
<1> QED
  BY <1>2, <1>3, <1>4 DEF IInv
-------------------------------------------------------------------------------
LEMMA NextIInv == IInv /\ [Next]_vars => IInv'
<1> SUFFICES ASSUME IInv, [Next]_vars
             PROVE  IInv'
  OBVIOUS
<1> USE DEF Status
<1>1. CASE UNCHANGED vars
  BY <1>1 DEF vars, IInv, TypeOK, CallsFormed, PayloadMatchesLinks, RenderedAsGiven, Exists
<1>2. ASSUME NEW c \in Calls, NEW p \in Players, EnqueueStart(c, p)
      PROVE  IInv'
  BY <1>2, ReadKeeps DEF EnqueueStart, IdleCall
<1>3. ASSUME NEW c \in Calls,
             EnqueueRecheck(c) \/ EnqueueFind(c) \/ EnqueueMergeLost(c) \/ EnqueueFails(c)
      PROVE  IInv'
  <2>1. calls[c] \in [step : {"idle", "recheck", "find", "merge", "create"},
                      player : Players \cup {NoPlayer},
                      job : Jobs \cup {NoJob},
                      seen : SUBSET Players]
        /\ (calls[c].step # "idle" => calls[c].player \in Players)
    BY DEF IInv, TypeOK, CallsFormed
  <2>2. CASE EnqueueRecheck(c)
    BY <2>1, <2>2, ReadKeeps DEF EnqueueRecheck, IdleCall
  <2>3. CASE EnqueueFind(c)
    <3>1. CASE PendingJobs = {}
      BY <2>1, <2>3, <3>1, ReadKeeps DEF EnqueueFind
    <3>2. CASE PendingJobs # {}
      <4>1. PICK j \in PendingJobs :
              calls' = [calls EXCEPT ![c] = [calls[c] EXCEPT !.step = "merge", !.job = j,
                                                             !.seen = row[j].trusted]]
        BY <2>3, <3>2 DEF EnqueueFind
      <4>2. j \in Jobs /\ row[j].trusted \subseteq Players
        BY DEF PendingJobs, IInv, TypeOK
      <4> QED
        BY <2>1, <2>3, <4>1, <4>2, ReadKeeps DEF EnqueueFind
    <3> QED
      BY <3>1, <3>2
  <2>4. CASE EnqueueMergeLost(c)
    BY <2>1, <2>4, ReadKeeps DEF EnqueueMergeLost
  <2>5. CASE EnqueueFails(c)
    BY <2>5, ReadKeeps DEF EnqueueFails, IdleCall
  <2> QED
    BY <1>3, <2>2, <2>3, <2>4, <2>5
<1>4. ASSUME NEW c \in Calls, EnqueueMerge(c) \/ EnqueueCreate(c)
      PROVE  IInv'
  BY <1>4, MergeKeeps, CreateKeeps
<1>5. ASSUME NEW l \in Leases, NEW j \in Jobs, Claim(l, j)
      PROVE  IInv'
  <2>1. Exists(j) /\ SetStatus({j}, "CLAIMED") /\ given' = given /\ raced' = raced
    BY <1>5 DEF Claim, With, Exists
  <2>2. leases' \in [Leases -> Jobs \cup {NoJob}]
    BY <1>5 DEF Claim, IInv, TypeOK
  <2> QED
    BY <2>1, <2>2, StatusKeeps DEF IInv, TypeOK
<1>6. ASSUME NEW l \in Leases, HandOut(l)
      PROVE  IInv'
  <2> DEFINE j == leases[l]
             jobs == {j} \cap With({"CLAIMED"})
  <2>1. /\ j \in Jobs /\ SetStatus(jobs, "LEASED") /\ raced' = raced
        /\ given' = [given EXCEPT ![j] = row[j].trusted]
        /\ leases' = [leases EXCEPT ![l] = NoJob]
    BY <1>6 DEF HandOut, IInv, TypeOK
  <2>2. jobs \in SUBSET Jobs /\ \A k \in jobs : k = j /\ Exists(k)
    BY DEF With, Exists
  <2>3. /\ given' \in [Jobs -> SUBSET Players]
        /\ leases' \in [Leases -> Jobs \cup {NoJob}]
        /\ given'[j] = row[j].trusted
        /\ \A k \in Jobs : k # j => given'[k] = given[k]
    BY <2>1 DEF IInv, TypeOK
  <2> QED
    BY <2>1, <2>2, <2>3, StatusKeeps DEF IInv, TypeOK
<1>7. ASSUME NEW l \in Leases, LeaseForgotten(l)
      PROVE  IInv'
  BY <1>7 DEF LeaseForgotten, IInv, TypeOK, CallsFormed, PayloadMatchesLinks,
              RenderedAsGiven, Exists
<1>8. ASSUME NEW j \in Jobs, Report(j)
      PROVE  IInv'
  <2>1. PICK status \in {"LEASED", "COMPLETED"} : SetStatus({j}, status)
    BY <1>8 DEF Report
  <2> QED
    BY <1>8, <2>1, StatusKeeps DEF Report, IInv, TypeOK
<1>9. ASSUME NEW jobs \in SUBSET Jobs, Requeue(jobs) \/ Stop(jobs)
       PROVE  IInv'
  <2>1. \A j \in jobs : Exists(j)
    BY <1>9 DEF Requeue, Stop, With, Exists
  <2> QED
    BY <1>9, <2>1, StatusKeeps DEF Requeue, Stop, IInv, TypeOK
<1>10. ASSUME NEW j \in Jobs, Delete(j)
       PROVE  IInv'
  BY <1>10, DeleteKeeps
<1> QED
  BY <1>1, <1>2, <1>3, <1>4, <1>5, <1>6, <1>7, <1>8, <1>9, <1>10 DEF Next

LEMMA SpecIInv == Spec => []IInv
BY InitIInv, NextIInv, PTL DEF Spec

(* TypeCorrect: every variable keeps its type, links never dangle and no   *)
(* job is left without a player, through any interleaving of enqueues,     *)
(* leases, reports and deletions.                                          *)
THEOREM TypeCorrect == Spec => []TypeOK
<1>1. IInv => TypeOK
  BY DEF IInv
<1> QED
  BY <1>1, SpecIInv, PTL

(* PayloadsMatch: a job renders exactly the players whose Match rows link   *)
(* it, unless enqueues raced on it (enqueueClipForPlayer).                 *)
THEOREM PayloadsMatch == Spec => []PayloadMatchesLinks
<1>1. IInv => PayloadMatchesLinks
  BY DEF IInv
<1> QED
  BY <1>1, SpecIInv, PTL

(* LinkedRendered: a player linked to a leased or completed job was on the  *)
(* list its worker read, since nobody merges into a job past PENDING.      *)
THEOREM LinkedRendered == Spec => []LinkedIsRendered
<1>1. IInv => LinkedIsRendered
  BY DEF IInv, RenderedAsGiven, PayloadMatchesLinks, LinkedIsRendered, Exists
<1> QED
  BY <1>1, SpecIInv, PTL
===============================================================================
