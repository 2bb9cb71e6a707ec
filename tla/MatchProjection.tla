---------------------------- MODULE MatchProjection ----------------------------
(***************************************************************************)
(* What happens to the Match and Clip rows of one job.  Every handler that *)
(* writes the job's status (a report, an admin request, the sweep) goes on *)
(* to the projections in statements of their own, outside any transaction: *)
(* a COMPLETED report ingests the result's clips and marks the matches     *)
(* RENDERED, a final failure marks them FAILED, a heartbeat past the       *)
(* download marks them DOWNLOADED, and the admin requests and the sweep    *)
(* update them in bulk.  Handlers of the same job interleave.              *)
(*                                                                         *)
(* The job is reduced to whether it has ended, and how: OPEN stands for    *)
(* PENDING, LEASED and PROCESSING.  JobQueue shows which write may reach   *)
(* which row; with stale writes that is any, and so it is here.            *)
(***************************************************************************)
EXTENDS Naturals, FiniteSets

CONSTANTS Players,   \* players with a Match row for the share code
          Creator,   \* the player the job belongs to
          Files,     \* clip files (S3 keys), as numbers in the result's order
          SteamId,   \* [Files -> Players \cup {NoPlayer}]: the sidecar's player
          Codes,     \* public codes
          Calls,     \* slots for handlers in flight
          Movable,   \* players whose match another job may take over (a bound)
          NoPlayer, NoCode

ASSUME ProjectionAssumption ==
  /\ Creator \in Players
  /\ Movable \subseteq Players
  /\ Files \subseteq Nat
  /\ NoPlayer \notin Players
  /\ NoCode \notin Codes
  /\ SteamId \in [Files -> Players \cup {NoPlayer}]

VARIABLES job,      \* status of the job
          linked,   \* players whose Match row links the job
          moved,    \* players whose Match row was linked to another job since
          match,    \* [Players -> status of the Match row]
          clip,     \* [Files -> Clip row]
          calls,    \* [Calls -> handler past its write of the job]
          disorder  \* a projection failed or was written late (bookkeeping)

vars == <<job, linked, moved, match, clip, calls, disorder>>

JobStatus == {"OPEN", "COMPLETED", "FAILED", "CANCELLED"}
MatchStatus == {"DETECTED", "DOWNLOADED", "RENDERED", "FAILED"}

Clip == [code : Codes \cup {NoCode},
         owner : Players \cup {NoPlayer},
         match : Players \cup {NoPlayer}]     \* the Match row, by its player

NoClip == [code |-> NoCode, owner |-> NoPlayer, match |-> NoPlayer]

Saved(f) == clip[f] # NoClip

(* to: the status the handler gives the matches, or its bulk update; wrote: *)
(* the status it left the job in; seen: the matches it read and has still   *)
(* to advance; files: the clips it has still to save.                       *)
Call == [step : {"idle", "find", "save", "advance", "bulk"},
         to : MatchStatus \cup {"cancel", "retry", "reclip", "sweep"},
         wrote : JobStatus,
         seen : [Players -> MatchStatus \cup {"none"}],
         files : SUBSET Files]

IdleCall == [step |-> "idle", to |-> "DETECTED", wrote |-> "OPEN",
             seen |-> [p \in Players |-> "none"], files |-> {}]

Init == /\ job = "OPEN"
        /\ linked = {Creator}
        /\ moved = {}
        /\ match = [p \in Players |-> "DETECTED"]
        /\ clip = [f \in Files |-> NoClip]
        /\ calls = [c \in Calls |-> IdleCall]
        /\ disorder = FALSE
-------------------------------------------------------------------------------
(* The writes of the job.                                                  *)

Begin(c, step, to, status) ==
  /\ calls[c].step = "idle"
  /\ job' = status
  /\ calls' = [calls EXCEPT ![c] = [IdleCall EXCEPT !.step = step, !.to = to,
                                                    !.wrote = status]]
  /\ UNCHANGED <<linked, moved, match, clip, disorder>>

(* Reports with a projection: the result, the last failure, a heartbeat    *)
(* whose stage is past the download (with a status or without).            *)
ReportCompleted(c) == Begin(c, "find", "RENDERED", "COMPLETED")
ReportFailed(c) == Begin(c, "find", "FAILED", "FAILED")
ReportStage(c) == \E status \in {"OPEN", job} : Begin(c, "find", "DOWNLOADED", status)

(* Back in the queue or in a worker's hands by a write that has no         *)
(* projection: a failure with attempts left, a late report without stage.  *)
Requeue == /\ job # "OPEN"
           /\ job' = "OPEN"
           /\ UNCHANGED <<linked, moved, match, clip, calls, disorder>>

Cancel(c) == Begin(c, "bulk", "cancel", "CANCELLED")
Retry(c) == Begin(c, "bulk", "retry", "OPEN")
Reclip(c) == Begin(c, "bulk", "reclip", "OPEN")
SweepFail(c) == Begin(c, "bulk", "sweep", "FAILED")
-------------------------------------------------------------------------------
(* Links: a player merges into the open job, or another job of the game    *)
(* takes the player over (and resets the match if it is a reclip).         *)
Join(p) == /\ job = "OPEN"
           /\ p \notin linked
           /\ linked' = linked \cup {p}
           /\ UNCHANGED <<job, moved, match, clip, calls, disorder>>

MoveAway(p) == /\ p \in linked \cap Movable
               /\ linked' = linked \ {p}
               /\ moved' = moved \cup {p}
               /\ \E status \in {match[p], "DETECTED"} :
                    match' = [match EXCEPT ![p] = status]
               /\ UNCHANGED <<job, clip, calls, disorder>>
-------------------------------------------------------------------------------
(* The bulk updates, each one statement.                                   *)

BulkRow(op, status) ==
  CASE op = "cancel" /\ status \in {"DETECTED", "DOWNLOADED"} -> "FAILED"
    [] op = "sweep" /\ status \notin {"RENDERED", "FAILED"} -> "FAILED"
    [] op = "retry" /\ status = "FAILED" -> "DETECTED"
    [] op = "reclip" -> "DETECTED"
    [] OTHER -> status

(* By jobId; the reclip by share code, and it links every Match to the job. *)
BulkUpdate(c) ==
  LET op == calls[c].to
      rows == IF op = "reclip" THEN Players ELSE linked
  IN /\ calls[c].step = "bulk"
     /\ match' = [p \in Players |-> IF p \in rows THEN BulkRow(op, match[p]) ELSE match[p]]
     /\ linked' = rows
     /\ disorder' = (disorder \/ job # calls[c].wrote)
     /\ calls' = [calls EXCEPT ![c] = IdleCall]
     /\ UNCHANGED <<job, moved, clip>>
-------------------------------------------------------------------------------
(* The projection of a report: find the matches, save the clips, advance   *)
(* the matches.                                                            *)

(* The linked matches, or for legacy jobs the creator's own.               *)
JobMatches == IF linked # {} THEN linked ELSE {Creator}

(* markJobMatchDownloaded leaves out what it does not read as DETECTED.    *)
ToAdvance(to) == IF to = "DOWNLOADED" THEN {p \in JobMatches : match[p] = "DETECTED"}
                 ELSE JobMatches

(* The clips a worker can have rendered: those of the players on the job's *)
(* payload, and those without a player.                                    *)
Rendered == {f \in Files : SteamId[f] \in linked \cup moved \cup {NoPlayer}}

(* The handler as it goes on: files before matches, then done.             *)
Proceed(call) ==
  IF call.files # {} THEN [call EXCEPT !.step = "save"]
  ELSE IF \E p \in Players : call.seen[p] # "none" THEN [call EXCEPT !.step = "advance"]
  ELSE IdleCall

FindMatches(c) ==
  /\ calls[c].step = "find"
  /\ calls' = [calls EXCEPT ![c] =
       Proceed([calls[c] EXCEPT !.files = IF calls[c].to = "RENDERED" THEN Rendered ELSE {},
                                !.seen = [p \in Players |-> IF p \in ToAdvance(calls[c].to)
                                                            THEN match[p] ELSE "none"]])]
  /\ UNCHANGED <<job, linked, moved, match, clip, disorder>>

(* Variant: every clip goes to the player the job belongs to.              *)
OwnerIsCreator(f) == Creator

(* The player of the sidecar's steam id, else the job's player.            *)
OwnerOf(f) == IF SteamId[f] # NoPlayer THEN SteamId[f] ELSE Creator

(* The owner's match among those found, else the first of them.            *)
MatchesFor(f, found) == IF OwnerOf(f) \in found THEN {OwnerOf(f)} ELSE found

(* Variant: the update branch writes the public code too.                  *)
NewCode(f, code) == code

(* A re-render keeps its public code.                                      *)
CodeOf(f, code) == IF Saved(f) THEN clip[f].code ELSE code

(* Variant: no unique index on public_code.                                *)
AnyCode(code) == TRUE

(* A code is allocated when no clip has it, and the unique index refuses   *)
(* one that was taken meanwhile (the projection then fails).               *)
CodeFree(code) == \A f \in Files : clip[f].code # code

(* The next clip, by an upsert on file.                                    *)
SaveClip(c, f) ==
  LET found == {p \in Players : calls[c].seen[p] # "none"}
  IN /\ calls[c].step = "save"
     /\ f \in calls[c].files
     /\ \A g \in calls[c].files : f <= g
     /\ \E code \in Codes, m \in MatchesFor(f, found) :
          /\ CodeFree(code)
          /\ clip' = [clip EXCEPT ![f] = [code |-> CodeOf(f, code),
                                          owner |-> OwnerOf(f), match |-> m]]
     /\ calls' = [calls EXCEPT ![c] = Proceed([calls[c] EXCEPT !.files = @ \ {f}])]
     /\ UNCHANGED <<job, linked, moved, match, disorder>>

Rank == [DETECTED |-> 0, DOWNLOADED |-> 1, RENDERED |-> 2, FAILED |-> 2]

(* Variants: a RENDERED does not replace a FAILED; a FAILED replaces a     *)
(* RENDERED.                                                               *)
ForwardByRank(to, from) == Rank[to] > Rank[from]
ForwardOrFailed(to, from) == Rank[to] > Rank[from] \/ to \in {"RENDERED", "FAILED"}

Forward(to, from) == Rank[to] > Rank[from] \/ (to = "RENDERED" /\ from = "FAILED")

(* advanceMatch, for one of the matches found: forward from the status     *)
(* that was read, by id alone.                                             *)
AdvanceMatch(c, p) ==
  LET from == calls[c].seen[p]
      to == calls[c].to
  IN /\ calls[c].step = "advance"
     /\ from # "none"
     /\ match' = [match EXCEPT ![p] = IF Forward(to, from) THEN to ELSE @]
     /\ disorder' = (disorder \/ job # calls[c].wrote \/ match[p] # from)
     /\ calls' = [calls EXCEPT ![c] = Proceed([calls[c] EXCEPT !.seen[p] = "none"])]
     /\ UNCHANGED <<job, linked, moved, clip>>

(* An error is logged and swallowed, or the process is restarted: the rest *)
(* of the projection is not written.                                       *)
ProjectionFails(c) == /\ calls[c].step # "idle"
                      /\ calls' = [calls EXCEPT ![c] = IdleCall]
                      /\ disorder' = TRUE
                      /\ UNCHANGED <<job, linked, moved, match, clip>>
-------------------------------------------------------------------------------
CallNext(c) ==
  \/ ReportCompleted(c) \/ ReportFailed(c) \/ ReportStage(c)
  \/ Cancel(c) \/ Retry(c) \/ Reclip(c) \/ SweepFail(c)
  \/ BulkUpdate(c) \/ FindMatches(c)
  \/ \E f \in Files : SaveClip(c, f)
  \/ \E p \in Players : AdvanceMatch(c, p)
  \/ ProjectionFails(c)

Next == \/ Requeue
        \/ \E p \in Players : Join(p) \/ MoveAway(p)
        \/ \E c \in Calls : CallNext(c)

Spec == Init /\ [][Next]_vars
-------------------------------------------------------------------------------
(* TypeOK: the variables have their types, and no two clips share a code.   *)
TypeOK ==
  /\ job \in JobStatus
  /\ linked \subseteq Players
  /\ moved \subseteq Players
  /\ match \in [Players -> MatchStatus]
  /\ clip \in [Files -> Clip]
  /\ calls \in [Calls -> Call]
  /\ disorder \in BOOLEAN
  /\ \A f, g \in Files : Saved(f) /\ Saved(g) /\ f # g => clip[f].code # clip[g].code

(* MatchesAgree: whatever sequence of reports, cancels, retries, reclips,   *)
(* merges and sweeps the job goes through, once the handlers are done and   *)
(* if none failed or wrote late, the matches of a COMPLETED job are         *)
(* RENDERED and those of a job that failed or was cancelled are not in      *)
(* flight (FAILED, or RENDERED by an earlier render).                       *)
MatchesAgree ==
  ~disorder /\ (\A c \in Calls : calls[c].step = "idle") =>
    \A p \in linked :
      /\ job = "COMPLETED" => match[p] = "RENDERED"
      /\ job \in {"FAILED", "CANCELLED"} => match[p] \in {"FAILED", "RENDERED"}

(* RenderedStays: "FAILED never overwrites RENDERED" (clips.service.ts:21), *)
(* nor does anything else but a reclip, unless the writer read the match    *)
(* before it was RENDERED.                                                  *)
RenderedStays ==
  [][\A p \in Players :
       match[p] = "RENDERED" /\ match'[p] # "RENDERED"
       => \/ MoveAway(p)
          \/ \E c \in Calls :
               /\ calls'[c] # calls[c]
               /\ calls[c].to = "reclip" \/ calls[c].seen[p] \in MatchStatus \ {"RENDERED"}]_vars

(* CodesStick: "Never rotate publicCode on re-render" (clips.service.ts:147):*)
(* however often and by however many handlers a clip is ingested, its share *)
(* link stays.                                                              *)
CodesStick ==
  [][\A f \in Files : Saved(f) => clip'[f].code = clip[f].code]_vars

(* ClipsOwned: "each clip is attributed to its own player via the sidecar   *)
(* steamid" (clips.service.ts:103-106): in a merged job a clip goes to the  *)
(* player its sidecar names and to that player's match, unless the match    *)
(* has been linked to another job.                                          *)
ClipsOwned ==
  \A f \in Files : Saved(f) /\ SteamId[f] # NoPlayer =>
    /\ clip[f].owner = SteamId[f]
    /\ clip[f].match = SteamId[f] \/ SteamId[f] \in moved
===============================================================================
