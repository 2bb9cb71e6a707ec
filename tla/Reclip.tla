-------------------------------- MODULE Reclip --------------------------------
(***************************************************************************)
(* The admin's reclip of one game, among the enqueues of Enqueue and the   *)
(* queue around them.  reclipByShareCode reads the Match rows with their   *)
(* jobs, then every job of the game; it unites their players, picks one    *)
(* job, rewrites it by id, points every Match row at it and cancels the    *)
(* other PENDING ones: one statement after the other, in no transaction.   *)
(* Jobs without a share code (legacy rows) are left out, and a cancel is   *)
(* one step (its two are in JobQueue).                                     *)
(***************************************************************************)
EXTENDS Enqueue

CONSTANTS Admins   \* slots for reclip requests in flight

VARIABLES matched,   \* players with a Match row of the game
          reclips,   \* [Admins -> reclip handler]
          late       \* jobs refreshed after they had left PENDING (bookkeeping)

allVars == <<row, link, given, leases, calls, raced, matched, reclips, late>>

NoView == [j \in Jobs |-> [status |-> "NEW", trusted |-> {}]]

IdleReclip == [step |-> "idle", matched |-> {}, view |-> NoView, trusted |-> {},
               target |-> NoJob, list |-> {}, duplicates |-> {}, others |-> {},
               spared |-> {}]

ReclipInit == /\ Init
              /\ matched = {}
              /\ reclips = [a \in Admins |-> IdleReclip]
              /\ late = {}

EndReclip(a) == reclips' = [reclips EXCEPT ![a] = IdleReclip]
-------------------------------------------------------------------------------
(* The reads.                                                              *)

(* The Match rows, with the jobs they link.                                *)
ReclipMatches(a) ==
  /\ reclips[a].step = "idle"
  /\ reclips' = [reclips EXCEPT ![a] =
       [IdleReclip EXCEPT !.step = "jobs", !.matched = matched,
          !.view = [j \in Jobs |-> IF \E p \in matched : link[p] = j THEN row[j]
                                   ELSE NoView[j]]]]
  /\ UNCHANGED <<row, link, given, leases, calls, raced, matched, late>>

(* The jobs of the game; a job read with a Match row stays as it was then. *)
View(a) == [j \in Jobs |-> IF reclips[a].view[j].status = "NEW" /\ Exists(j)
                           THEN row[j] ELSE reclips[a].view[j]]

Those(view, statuses) == {j \in Jobs : view[j].status \in statuses}

(* Variant: the players on the jobs' lists alone.                          *)
ListedPlayers(players, view) == UNION {view[j].trusted : j \in Jobs}

United(players, view) == players \cup UNION {view[j].trusted : j \in Jobs}

(* Jobs that still exist come newest first, the others last.               *)
First(jobs) == {j \in jobs : \/ Exists(j) /\ \A k \in jobs : Exists(k) => k <= j
                             \/ \A k \in jobs : ~Exists(k)}

Duplicates(view, target) == Those(view, {"PENDING"}) \ {target}

(* Variant: duplicates are the jobs some Match row links.                  *)
LinkedDuplicates(view, target) ==
  {j \in Duplicates(view, target) : \E p \in Players : link[p] = j}

ToCancel(view, target) == Duplicates(view, target)

(* A busy game is refused, and so is one without rows or players; else one *)
(* job is picked: a PENDING one, one that has ended, or a new one.         *)
ReclipJobs(a) ==
  LET view == View(a)
      trusted == United(reclips[a].matched, view)
      pending == Those(view, {"PENDING"})
      ended == Those(view, {"COMPLETED", "STOPPED"})
      Pick(step, target) ==
        reclips' = [reclips EXCEPT ![a] =
          [IdleReclip EXCEPT !.step = step, !.matched = reclips[a].matched,
             !.trusted = trusted, !.target = target,
             !.list = IF target = NoJob THEN {} ELSE view[target].trusted,
             !.duplicates = Duplicates(view, target),
             !.others = ToCancel(view, target)]]
  IN /\ reclips[a].step = "jobs"
     /\ trusted # {} /\ Those(view, {"CLAIMED", "LEASED"}) = {}
     /\ \/ \E j \in First(pending) : Pick("refresh", j)
        \/ pending = {} /\ \E j \in First(ended) : Pick("requeue", j)
        \/ pending = {} /\ ended = {} /\ Pick("create", NoJob)
     /\ UNCHANGED <<row, link, given, leases, calls, raced, matched, late>>
-------------------------------------------------------------------------------
(* The writes, each by id: they fail where the job is gone.                *)

(* Bookkeeping: the list changed since it was read, and is overwritten.    *)
ChangedSince(a, j) == IF row[j].trusted # reclips[a].list THEN {j} ELSE {}

Refresh(a) ==
  LET t == reclips[a].target
  IN /\ reclips[a].step = "refresh"
     /\ Exists(t)
     /\ row' = [row EXCEPT ![t].trusted = reclips[a].trusted]
     /\ raced' = raced \cup ChangedSince(a, t)
     /\ late' = IF row[t].status = "PENDING" THEN late ELSE late \cup {t}
     /\ reclips' = [reclips EXCEPT ![a].step = "link"]
     /\ UNCHANGED <<link, given, leases, calls, matched>>

(* Variant: the list is rewritten, the status forgotten.                   *)
ListOnly(j, trusted) == [row[j] EXCEPT !.trusted = trusted]

Queued(j, trusted) == [status |-> "PENDING", trusted |-> trusted]

(* Bookkeeping: a job that enters the queue again may be PENDING for all   *)
(* a reclip that took it for a duplicate did.                              *)
Spare(again) ==
  [a \in Admins |-> [reclips[a] EXCEPT !.spared = reclips[a].spared \cup
                                                 (reclips[a].duplicates \cap again)]]

RequeueEnded(a) ==
  LET t == reclips[a].target
  IN /\ reclips[a].step = "requeue"
     /\ Exists(t)
     /\ row' = [row EXCEPT ![t] = Queued(t, reclips[a].trusted)]
     /\ raced' = raced \cup ChangedSince(a, t)
     /\ reclips' = [Spare({t}) EXCEPT ![a].step = "link"]
     /\ UNCHANGED <<link, given, leases, calls, matched, late>>

Create(a) ==
  \E j \in Jobs :
    /\ reclips[a].step = "create"
    /\ NextId(j)
    /\ row' = [row EXCEPT ![j] = Queued(j, reclips[a].trusted)]
    /\ reclips' = [reclips EXCEPT ![a].step = "link", ![a].target = j]
    /\ UNCHANGED <<link, given, leases, calls, raced, matched, late>>

(* Variant: there is no foreign key.                                       *)
Anything(j) == TRUE

(* The foreign key of Match.jobId.                                         *)
Linkable(j) == Exists(j)

(* Every Match row the game has by now; a player who joined since the      *)
(* reads is linked to a list without them.                                 *)
LinkAll(a) ==
  LET t == reclips[a].target
  IN /\ reclips[a].step = "link"
     /\ \/ reclips[a].matched = {} /\ UNCHANGED <<link, raced>>
        \/ /\ reclips[a].matched # {} /\ Linkable(t)
           /\ link' = [p \in Players |-> IF p \in matched THEN t ELSE link[p]]
           /\ raced' = IF matched \subseteq reclips[a].matched \cup reclips[a].trusted THEN raced
                       ELSE raced \cup {t}
     /\ reclips' = [reclips EXCEPT ![a] = [IdleReclip EXCEPT !.step = "cancel",
                       !.duplicates = reclips[a].duplicates, !.others = reclips[a].others,
                       !.spared = reclips[a].spared]]
     /\ UNCHANGED <<row, given, leases, calls, matched, late>>

(* cancelJob, of the jobs read as PENDING; one that has ended or is gone   *)
(* is left alone.                                                          *)
CancelOther(a, j) ==
  /\ reclips[a].step = "cancel"
  /\ j \in reclips[a].others /\ \A k \in reclips[a].others : k <= j
  /\ row' = IF row[j].status \in {"PENDING", "CLAIMED", "LEASED"}
            THEN [row EXCEPT ![j].status = "STOPPED"] ELSE row
  /\ reclips' = [reclips EXCEPT ![a].others = reclips[a].others \ {j}]
  /\ UNCHANGED <<link, given, leases, calls, raced, matched, late>>

(* An error of a cancel is ignored.                                        *)
CancelFails(a, j) ==
  /\ reclips[a].step = "cancel"
  /\ j \in reclips[a].others
  /\ reclips' = [reclips EXCEPT ![a].others = reclips[a].others \ {j},
                                ![a].spared = reclips[a].spared \cup {j}]
  /\ UNCHANGED <<row, link, given, leases, calls, raced, matched, late>>

ReclipDone(a) ==
  /\ reclips[a].step = "cancel" /\ reclips[a].others = {}
  /\ EndReclip(a)
  /\ UNCHANGED <<row, link, given, leases, calls, raced, matched, late>>

(* The request is refused, a statement throws, or the process restarts.    *)
ReclipFails(a) ==
  /\ reclips[a].step # "idle"
  /\ ~(reclips[a].step = "cancel" /\ reclips[a].others = {})
  /\ EndReclip(a)
  /\ UNCHANGED <<row, link, given, leases, calls, raced, matched, late>>

ReclipStep(a) == \/ ReclipMatches(a) \/ ReclipJobs(a)
                 \/ Refresh(a) \/ RequeueEnded(a) \/ Create(a) \/ LinkAll(a)
                 \/ \E j \in Jobs : CancelOther(a, j) \/ CancelFails(a, j)
                 \/ ReclipDone(a) \/ ReclipFails(a)

(* Enqueues and the queue: an enqueue makes the player's Match row.        *)
EnqueueStep ==
  /\ Next
  /\ matched' = matched \cup {p \in Players : link'[p] # NoJob}
  /\ reclips' = Spare({j \in Jobs : row[j].status # "PENDING" /\ row'[j].status = "PENDING"})
  /\ UNCHANGED late

ReclipNext == EnqueueStep \/ \E a \in Admins : ReclipStep(a)

ReclipSpec == ReclipInit /\ [][ReclipNext]_allVars
-------------------------------------------------------------------------------
(* ReclipTypeOK: the variables have their types; links point at jobs that  *)
(* exist.                                                                  *)
ReclipTypeOK ==
  /\ TypeOK
  /\ matched \subseteq Players /\ \A p \in Players : link[p] # NoJob => p \in matched
  /\ late \subseteq Jobs
  /\ reclips \in [Admins -> [step : {"idle", "jobs", "refresh", "requeue", "create",
                                     "link", "cancel"},
                             matched : SUBSET Players,
                             view : [Jobs -> [status : Status, trusted : SUBSET Players]],
                             trusted : SUBSET Players,
                             target : Jobs \cup {NoJob}, list : SUBSET Players,
                             duplicates : SUBSET Jobs, others : SUBSET Jobs,
                             spared : SUBSET Jobs]]

(* LinkedIsListed: a reclip "Unions all those players' steamids" and       *)
(* "points every Match row at it": a linked player is on the job's list,   *)
(* whichever requests interleave, unless somebody joined, or changed the   *)
(* list, between a handler's read and its write.                           *)
LinkedIsListed ==
  \A j \in Jobs \ raced, p \in Players : link[p] = j => p \in row[j].trusted

(* RenderedTogether: a player linked to a job that a worker has, or that   *)
(* is COMPLETED, is on the list the worker was given, reclips included;    *)
(* but for a job that was leased between a reclip's read and its refresh.  *)
RenderedTogether ==
  \A j \in Jobs \ (raced \cup late), p \in Players :
    link[p] = j /\ row[j].status \in {"LEASED", "COMPLETED"} => p \in given[j]

(* Collapses: "Collapses duplicate jobs for the same share code onto one   *)
(* PENDING job": when a reclip is done, no other job that it read as       *)
(* PENDING is, unless it was queued again meanwhile or its cancel failed.  *)
Collapses ==
  [][\A a \in Admins :
       ReclipDone(a) => \A j \in reclips[a].duplicates \ reclips[a].spared :
                          row[j].status # "PENDING"]_allVars
===============================================================================
