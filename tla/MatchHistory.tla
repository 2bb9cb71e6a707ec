------------------------------ MODULE MatchHistory ------------------------------
(***************************************************************************)
(* Match history of one player: the enrollment row, the requests that set  *)
(* it and the polls that follow it.  Steam chains the share codes of the   *)
(* games a player has played; a code is its position in the chain.  The    *)
(* row keeps a tip, the newest game that is settled: enqueued for          *)
(* clipping, or left out because a newer one is enough.                    *)
(*                                                                         *)
(* A handler reads the row, walks the chain one Steam answer at a time,    *)
(* writes the row and enqueues games, suspending in between, and handlers  *)
(* overlap: requests of the player, polls they force, the cron's polls.    *)
(* What a walk discovered is start+1..tip of its handler, and the games    *)
(* it still has to enqueue are next..tip.  Enqueueing one game is one step *)
(* and idempotent here; its own races are those of module Enqueue.         *)
(***************************************************************************)
EXTENDS Naturals, FiniteSets

CONSTANTS Calls,        \* slots for requests and polls in flight
          MaxGames,     \* bound: games the player plays
          MaxAuths,     \* bound: match-history codes Steam issues to the player
          MaxUpsets,    \* bound: requests of the player and failures, together
          SeedCount,    \* MATCH_HISTORY_SEED_COUNT: games enqueued per walk
          PollPages,    \* MATCH_HISTORY_MAX_PAGES: Steam pages a poll walks
          WalkPages,    \* pages an enrollment, re-anchor or baseline walks
          MaxPerDay     \* MAX_AUTO_JOBS_PER_PLAYER_PER_DAY

ASSUME HistoryAssumption ==
  /\ {MaxGames, MaxAuths, SeedCount, PollPages, WalkPages, MaxPerDay} \subseteq Nat \ {0}
  /\ MaxUpsets \in Nat
  /\ IsFiniteSet(Calls)

VARIABLES played,    \* games played so far: codes 1..played exist
          valid,     \* the auth code Steam accepts now; older ones are refused
          row,       \* the enrollment: status, auth code, tip
          calls,     \* [Calls -> handler in flight]
          fate,      \* [games -> what became of the game] (jobs, and bookkeeping)
          today,     \* games whose automatic job was created today
          running,   \* the poller's in-memory flag
          upsets     \* requests and failures so far, for the bound

vars == <<played, valid, row, calls, fate, today, running, upsets>>

Games == 1..MaxGames

(* A job exists for seed and poll.  The others are bookkeeping: held back  *)
(* by a cap, skipped as too old or by a seed that failed.                  *)
Fates == {"new", "held", "skipped", "seed", "poll"}
Enqueued(g) == fate[g] \in {"seed", "poll"}
Owed(g) == fate[g] \in {"new", "held"}

EnrollmentStatus == {"none", "ACTIVE", "DISABLED", "INVALID_AUTH", "CHAIN_BROKEN"}

NoRow == [status |-> "none", auth |-> 0, tip |-> 0]
IdleCall == [op |-> "none", step |-> "idle", seen |-> "none", auth |-> 0,
             start |-> 0, tip |-> 0, next |-> 0]

(* One game has been played; the player is not enrolled, or enrolled and   *)
(* its seed was enqueued on an earlier day.                                *)
Init == /\ played = 1 /\ valid = 1
        /\ \/ row = NoRow /\ fate = [g \in Games |-> "new"]
           \/ /\ row = [status |-> "ACTIVE", auth |-> 1, tip |-> 1]
              /\ fate = [g \in Games |-> IF g = 1 THEN "seed" ELSE "new"]
        /\ calls = [c \in Calls |-> IdleCall]
        /\ today = {}
        /\ running = FALSE
        /\ upsets = 0

Polls == {"cron", "poll"}
Walks == {"enroll", "reanchor", "baseline"}

Go(c, step) == calls' = [calls EXCEPT ![c].step = step]

(* The poller's finally clause resets its flag when the poll returns.      *)
ResetRunning(c) == IF calls[c].op = "cron" THEN FALSE ELSE running

(* Variant: no finally clause, a tick that fails leaves the flag set.      *)
KeepRunning(c) == running

(* What the poller does with its flag when a tick fails.                   *)
RunningAfterError(c) == ResetRunning(c)

(* One more request or failure.                                            *)
Upset == upsets < MaxUpsets /\ upsets' = upsets + 1

EndCall(c) == calls' = [calls EXCEPT ![c] = IdleCall]
-------------------------------------------------------------------------------
(* Requests of the player.                                                 *)

Request == Upset /\ UNCHANGED <<played, valid, fate, today, running>>

(* seen: the status of the row it read.  (An enrollment reads no row.)      *)
Open(c, op, step, auth, start) ==
  /\ calls[c].step = "idle"
  /\ calls' = [calls EXCEPT ![c] =
                 [op |-> op, step |-> step, auth |-> auth,
                  seen |-> IF op = "enroll" THEN "none" ELSE row.status,
                  start |-> start, tip |-> start, next |-> 0]]

(* Any code the player may have pasted, 0 being one Steam never issued.    *)
Enroll(c) == /\ Request
             /\ \E auth \in 0..valid, known \in 1..played :
                  Open(c, "enroll", "probe", auth, known)
             /\ UNCHANGED row

Reanchor(c) == /\ Request
               /\ row.status # "none"
               /\ \E known \in 1..played : Open(c, "reanchor", "probe", row.auth, known)
               /\ UNCHANGED row

(* Variant: there is a row, whatever its status.                           *)
Enrolled == row.status # "none"

(* REAUTH_REQUIRED: a refused auth code has to be submitted again.          *)
Authorized == row.status \notin {"none", "INVALID_AUTH"}

Baseline(c) == /\ Request
               /\ Authorized
               /\ Open(c, "baseline", "walk", row.auth, row.tip)
               /\ UNCHANGED row

(* enableEnrollment reads the row, then writes it by id.                   *)
EnableRead(c) == /\ Request
                 /\ Authorized
                 /\ Open(c, "enable", "enable", 0, 0)
                 /\ UNCHANGED row

EnableWrite(c) == /\ calls[c].step = "enable"
                  /\ row' = IF row.status = "none" THEN row
                            ELSE [row EXCEPT !.status = "ACTIVE"]
                  /\ EndCall(c)
                  /\ UNCHANGED <<played, valid, fate, today, running, upsets>>

Disable == /\ Request
           /\ row.status # "none"
           /\ row' = [row EXCEPT !.status = "DISABLED"]
           /\ UNCHANGED calls

Delete == /\ Request
          /\ row.status # "none"
          /\ row' = NoRow
          /\ UNCHANGED calls
-------------------------------------------------------------------------------
(* Polls: the cron skips a tick while the last one runs; poll-now and the  *)
(* admin's poll do not look.  An enrollment that is not ACTIVE is left.    *)

Poll(c) == /\ Request
           /\ row.status = "ACTIVE"
           /\ Open(c, "poll", "walk", row.auth, row.tip)
           /\ UNCHANGED row

Tick(c) == /\ ~running
           /\ row.status = "ACTIVE"
           /\ Open(c, "cron", "walk", row.auth, row.tip)
           /\ running' = TRUE
           /\ UNCHANGED <<played, valid, row, fate, today, upsets>>
-------------------------------------------------------------------------------
(* Steam.                                                                  *)

(* With the valid auth code Steam gives the next game, or refuses a share  *)
(* code (not this account's, too old).  A 403 is taken for a refused auth  *)
(* code, and is one, or a platform key that was revoked or replaced: any   *)
(* request may meet it, and any request may fail.                          *)
Answers(c) ==
  {"soft_error", "invalid_auth"}
    \cup (IF calls[c].auth # valid THEN {}
          ELSE {"share_code_mismatch"}
                 \cup (IF calls[c].tip < played THEN {"next"} ELSE {"caught_up"}))

(* The one page that checks the credentials of an enrollment or re-anchor; *)
(* anything but next and caught_up ends the request.                       *)
ProbeOK(c) == /\ calls[c].step = "probe"
              /\ Answers(c) \cap {"next", "caught_up"} # {}
              /\ Go(c, "walk")
              /\ UNCHANGED <<played, valid, row, fate, today, running, upsets>>

(* A re-anchor with a refused auth code marks the row, if it is there.     *)
ProbeRefused(c) ==
  /\ calls[c].step = "probe"
  /\ \E a \in Answers(c) \ {"next", "caught_up"} :
       row' = IF calls[c].op = "reanchor" /\ a = "invalid_auth" /\ row.status # "none"
              THEN [row EXCEPT !.status = "INVALID_AUTH"] ELSE row
  /\ EndCall(c)
  /\ UNCHANGED <<played, valid, fate, today, running, upsets>>

Pages(c) == IF calls[c].op \in Polls THEN PollPages ELSE WalkPages
Walked(c) == calls[c].tip - calls[c].start

WalkNext(c) == /\ calls[c].step = "walk"
               /\ Walked(c) < Pages(c)
               /\ "next" \in Answers(c)
               /\ calls' = [calls EXCEPT ![c].tip = @ + 1]
               /\ UNCHANGED <<played, valid, row, fate, today, running, upsets>>

(* The newest SeedCount games of a walk; a walk of a request that found    *)
(* nothing has the tip itself.                                             *)
FirstToEnqueue(c) ==
  LET k == calls[c] IN
  IF k.tip = k.start THEN IF k.op \in Polls THEN k.tip + 1 ELSE k.tip
  ELSE IF k.tip - k.start > SeedCount THEN k.tip - SeedCount + 1 ELSE k.start + 1

(* Variant: a poll that found nothing goes on to the caps.                 *)
AfterWalkAlwaysCheck(c) == IF calls[c].op \in Walks THEN "store" ELSE "check"

AfterWalk(c) ==
  IF calls[c].op \in Walks THEN "store"
  ELSE IF Walked(c) = 0 THEN "finish" ELSE "check"

StopWalk(c) ==
  /\ calls[c].step = "walk"
  /\ calls' = [calls EXCEPT ![c].step = AfterWalk(c), ![c].next = FirstToEnqueue(c),
                            ![c].auth = IF calls[c].op = "enroll" THEN @ ELSE 0]
  /\ UNCHANGED <<played, valid, row, fate, today, running>>

WalkEnds(c) == /\ Walked(c) = Pages(c) \/ "caught_up" \in Answers(c)
               /\ StopWalk(c)
               /\ UNCHANGED upsets

(* A poll notes the error in the row, and fails when the row is gone.      *)
WalkSoftError(c) == /\ Walked(c) < Pages(c)
                    /\ calls[c].op \in Walks \/ row.status # "none"
                    /\ StopWalk(c)
                    /\ Upset

(* Steam refuses: a request gives up, a poll marks the row and returns.    *)
WalkRefused(c) ==
  /\ calls[c].step = "walk"
  /\ Walked(c) < Pages(c)
  /\ \/ calls[c].op \in Walks /\ UNCHANGED row
     \/ /\ calls[c].op \in Polls
        /\ row.status # "none"
        /\ \E mark \in {<<"invalid_auth", "INVALID_AUTH">>,
                        <<"share_code_mismatch", "CHAIN_BROKEN">>} :
             /\ mark[1] \in Answers(c)
             /\ row' = [row EXCEPT !.status = mark[2]]
  /\ Answers(c) \cap {"invalid_auth", "share_code_mismatch"} # {}
  /\ running' = ResetRunning(c)
  /\ EndCall(c)
  /\ UNCHANGED <<played, valid, fate, today, upsets>>
-------------------------------------------------------------------------------
(* Requests store the tip first and seed afterwards.                       *)

Skip(S) == [g \in Games |-> IF g \in S /\ Owed(g) THEN "skipped" ELSE fate[g]]

(* An enrollment creates the row if need be; the others fail without it.   *)
Store(c) ==
  /\ calls[c].step = "store"
  /\ \/ /\ calls[c].op = "enroll"
        /\ row' = [status |-> "ACTIVE", auth |-> calls[c].auth, tip |-> calls[c].tip]
     \/ /\ calls[c].op # "enroll" /\ row.status # "none"
        /\ row' = [row EXCEPT !.status = "ACTIVE", !.tip = calls[c].tip]
  /\ fate' = Skip(1..(calls[c].next - 1))
  /\ calls' = [calls EXCEPT ![c].step = "seed", ![c].auth = 0,
                            ![c].start = calls[c].tip]
  /\ UNCHANGED <<played, valid, today, running, upsets>>

(* A job of an automatic source, unless the game has one.                  *)
EnqueueAs(g, kind) ==
  /\ fate' = IF Enqueued(g) THEN fate ELSE [fate EXCEPT ![g] = kind]
  /\ today' = IF Enqueued(g) THEN today ELSE today \cup {g}

AfterSeed(c) ==
  calls' = [calls EXCEPT ![c] = IF calls[c].next = calls[c].tip THEN IdleCall
                                ELSE [calls[c] EXCEPT !.next = calls[c].next + 1]]

Seed(c) == /\ calls[c].step = "seed"
           /\ EnqueueAs(calls[c].next, "seed")
           /\ AfterSeed(c)
           /\ UNCHANGED <<played, valid, row, running, upsets>>

(* A seed that fails is logged and passed over.                            *)
SeedFails(c) == /\ calls[c].step = "seed"
                /\ fate' = Skip({calls[c].next})
                /\ AfterSeed(c)
                /\ Upset /\ UNCHANGED <<played, valid, row, today, running>>
-------------------------------------------------------------------------------
(* Polls enqueue first, each game after a look at the caps, and write the  *)
(* tip last.                                                               *)

(* Variant: only the queue's depth is looked at.                           *)
NoDailyCap == TRUE

UnderDailyCap == Cardinality(today) < MaxPerDay

(* The queue's depth is other players' doing: it may be under its limit or *)
(* not.                                                                    *)
CheckPasses(c) == /\ calls[c].step = "check"
                  /\ UnderDailyCap
                  /\ Go(c, "enqueue")
                  /\ UNCHANGED <<played, valid, row, fate, today, running, upsets>>

Capped(c) ==
  /\ calls[c].step = "check"
  /\ fate' = [g \in Games |-> IF g \in calls[c].next..calls[c].tip /\ fate[g] = "new"
                              THEN "held" ELSE fate[g]]
  /\ Go(c, "finish")
  /\ UNCHANGED <<played, valid, row, today, running, upsets>>

Enqueue(c) ==
  /\ calls[c].step = "enqueue"
  /\ EnqueueAs(calls[c].next, "poll")
  /\ calls' = [calls EXCEPT ![c].step = IF calls[c].next = calls[c].tip
                                        THEN "finish" ELSE "check",
                            ![c].next = @ + 1]
  /\ UNCHANGED <<played, valid, row, running, upsets>>

(* Variant: a capped poll moves the tip to the end of its walk.            *)
WalkedTip(c) == calls[c].tip

(* The last game enqueued, or skipped as too old; without a cap it is the  *)
(* end of the walk.                                                        *)
SettledTip(c) == calls[c].next - 1

Finish(c) ==
  /\ calls[c].step = "finish"
  /\ row.status # "none"
  /\ row' = [row EXCEPT !.tip = SettledTip(c)]
  /\ fate' = IF Walked(c) > SeedCount THEN Skip(1..(calls[c].tip - SeedCount)) ELSE fate
  /\ running' = ResetRunning(c)
  /\ EndCall(c)
  /\ UNCHANGED <<played, valid, today, upsets>>

(* A handler that is not past its store throws: Steam, the database, or a  *)
(* row that was deleted under it.                                          *)
CallFails(c) ==
  /\ calls[c].step \notin {"idle", "seed"}
  /\ running' = RunningAfterError(c)
  /\ EndCall(c)
  /\ Upset /\ UNCHANGED <<played, valid, row, fate, today>>

PendingSeeds == UNION {calls[c].next..calls[c].tip : c \in {d \in Calls : calls[d].step = "seed"}}

(* The process restarts: handlers and the flag are gone, seeds with them.  *)
Restart == /\ \E c \in Calls : calls[c].step # "idle"
           /\ calls' = [c \in Calls |-> IdleCall]
           /\ fate' = Skip(PendingSeeds)
           /\ running' = FALSE
           /\ Upset /\ UNCHANGED <<played, valid, row, today>>
-------------------------------------------------------------------------------
(* The world: a game is played, the day ends, Steam replaces the auth code *)
(* (at the player's request).                                              *)

Play == /\ played < MaxGames
        /\ played' = played + 1
        /\ UNCHANGED <<valid, row, calls, fate, today, running, upsets>>

NewDay == /\ today' = {}
          /\ UNCHANGED <<played, valid, row, calls, fate, running, upsets>>

NewAuth == /\ Upset
           /\ valid < MaxAuths
           /\ valid' = valid + 1
           /\ UNCHANGED <<played, row, calls, fate, today, running>>

UserStep(c) == Enroll(c) \/ Reanchor(c) \/ Baseline(c) \/ EnableRead(c)

WalkStep(c) == ProbeOK(c) \/ ProbeRefused(c) \/ WalkNext(c) \/ WalkEnds(c) \/ WalkRefused(c)

SettleStep(c) == \/ EnableWrite(c) \/ Store(c) \/ Seed(c)
                 \/ CheckPasses(c) \/ Capped(c) \/ Enqueue(c) \/ Finish(c)

Next == \/ \E c \in Calls : \/ UserStep(c) \/ Poll(c) \/ Tick(c)
                            \/ WalkStep(c) \/ SettleStep(c)
                            \/ WalkSoftError(c) \/ SeedFails(c) \/ CallFails(c)
        \/ Disable \/ Delete \/ Restart \/ Play \/ NewDay \/ NewAuth

Spec == Init /\ [][Next]_vars

(* The cron ticks for ever, days pass, handlers go on, and the queue is    *)
(* not found full at every look.  Failures are finite by their bound.      *)
Fairness == /\ SF_vars(\E c \in Calls : Tick(c))
            /\ WF_vars(NewDay)
            /\ \A c \in Calls : /\ WF_vars(WalkStep(c) \/ SettleStep(c))
                                /\ SF_vars(CheckPasses(c))

LiveSpec == Spec /\ Fairness
-------------------------------------------------------------------------------
(* TypeOK: the variables have their types; tips and handlers stay on the   *)
(* chain of games played.                                                  *)
TypeOK ==
  /\ played \in Games /\ valid \in 1..MaxAuths
  /\ row \in [status : EnrollmentStatus, auth : 0..MaxAuths, tip : 0..MaxGames]
  /\ row.tip <= played
  /\ calls \in [Calls -> [op : {"none", "enable"} \cup Polls \cup Walks,
                          step : {"idle", "probe", "walk", "store", "seed", "check",
                                  "enqueue", "finish", "enable"},
                          seen : EnrollmentStatus, auth : 0..MaxAuths,
                          start : 0..MaxGames, tip : 0..MaxGames, next : 0..(MaxGames + 1)]]
  /\ \A c \in Calls : calls[c].start <= calls[c].tip /\ calls[c].tip <= played
  /\ fate \in [Games -> Fates]
  /\ today \subseteq Games
  /\ running \in BOOLEAN
  /\ upsets \in 0..MaxUpsets

(* TipOwesNothing: every game up to the tip has its job, was skipped (too  *)
(* old, or its seed failed) or is still being seeded: no interleaving of   *)
(* requests and polls moves the tip past games "we still owe the player"   *)
(* (match-history.service.ts:546-550).                                     *)
TipOwesNothing ==
  \A g \in Games : g <= row.tip /\ Owed(g) => g \in PendingSeeds

(* DailyCap: polls that overlap exceed the daily cap by at most one job    *)
(* each (canAutoEnqueue counts, the enqueue comes later).  Seeds are not   *)
(* capped.                                                                 *)
DailyCap ==
  Cardinality({g \in today : fate[g] = "poll"})
    + Cardinality({c \in Calls : calls[c].step = "enqueue"})
      <= MaxPerDay - 1 + Cardinality(Calls)

(* ReauthRequired: "Re-submit match history auth code before enabling"     *)
(* (match-history.service.ts:151): an enrollment marked INVALID_AUTH is    *)
(* put back to ACTIVE only by an enrollment or a re-anchor past its probe, *)
(* or by a baseline or an enable that read the row before the mark; no     *)
(* poll that overlaps the mark undoes it.  (A player who disables it first *)
(* leaves INVALID_AUTH, and may then enable it.)                           *)
ReauthRequired ==
  [][row.status = "INVALID_AUTH" /\ row'.status = "ACTIVE"
       => \E c \in Calls :
            /\ calls'[c] # calls[c]
            /\ \/ calls[c].op \in {"enroll", "reanchor"} /\ calls[c].step = "store"
               \/ calls[c].op \in {"baseline", "enable"} /\ calls[c].seen # "INVALID_AUTH"]_vars

(* BacklogEmpties: while the enrollment stays ACTIVE, every game that was  *)
(* played is enqueued or skipped in the end, whatever fails on the way:    *)
(* the poller never stops and a cap holds games back only for a time.     *)
BacklogEmpties ==
  row.status = "ACTIVE" ~> (row.status # "ACTIVE" \/ \A g \in 1..played : ~Owed(g))

(* HeldGamesRetried: "Held games retry next tick" (match-history.service   *)
(* .ts:549): a game held back by a cap is not given up by a later poll.    *)
HeldGamesRetried ==
  [][\A g \in Games : fate[g] = "held" /\ fate'[g] = "skipped"
       => \E c \in Calls : calls[c].op \in Walks /\ calls'[c] # calls[c]]_vars
===============================================================================
