------------------------- MODULE MatchProjectionProofs -------------------------
(***************************************************************************)
(* The projection, for any players, files, public codes and handlers: a    *)
(* clip belongs to the player its sidecar names, keeps its public code,    *)
(* and a RENDERED match falls back only by a reclip or a stale write.      *)
(***************************************************************************)
EXTENDS MatchProjection, TLAPS

(* While a handler saves clips it still remembers the matches it found, and *)
(* the owner of each clip is among them unless the match has moved.        *)
OwnersFound ==
  \A c \in Calls, f \in Files :
    calls[c].step = "save" /\ f \in calls[c].files /\ SteamId[f] # NoPlayer
      => calls[c].seen[SteamId[f]] # "none" \/ SteamId[f] \in moved

(* A handler that writes matches one by one gives them a match status, and *)
(* comes to them when it has saved the clips.                              *)
WellFormed(call) == /\ call.step \in {"find", "save", "advance"} => call.to \in MatchStatus
                    /\ call.step = "advance" => call.files = {}

CallsFormed == \A c \in Calls : WellFormed(calls[c])

IInv == TypeOK /\ OwnersFound /\ CallsFormed /\ ClipsOwned
-------------------------------------------------------------------------------
LEMMA IdleCallType == IdleCall \in Call
BY DEF IdleCall, Call, JobStatus, MatchStatus

(* Going on changes the step of a handler, or ends it.                     *)
LEMMA ProceedType ==
  ASSUME NEW call \in Call
  PROVE  /\ Proceed(call) \in Call
         /\ call.to \in MatchStatus => WellFormed(Proceed(call))
         /\ Proceed(call).step # "save" <=> call.files = {}
         /\ Proceed(call).step = "save" => Proceed(call) = [call EXCEPT !.step = "save"]
BY IdleCallType DEF Proceed, Call, IdleCall, WellFormed

LEMMA InitIInv == Init => IInv
<1> SUFFICES ASSUME Init PROVE IInv
  OBVIOUS
<1>1. TypeOK
  BY IdleCallType, ProjectionAssumption
  DEF ProjectionAssumption, Init, TypeOK, Saved, JobStatus, MatchStatus, Clip, NoClip
<1>2. OwnersFound /\ CallsFormed /\ ClipsOwned
  BY DEF Init, OwnersFound, CallsFormed, WellFormed, ClipsOwned, Saved, IdleCall
<1> QED
  BY <1>1, <1>2 DEF IInv

(* A step that leaves the clips alone, and the handlers but for one that    *)
(* does not start saving.                                                  *)
LEMMA OtherStep ==
  ASSUME IInv, clip' = clip, moved \subseteq moved',
         job' \in JobStatus, linked' \subseteq Players, moved' \subseteq Players,
         match' \in [Players -> MatchStatus], disorder' \in BOOLEAN,
         \/ calls' = calls
         \/ \E c \in Calls, call \in Call :
              /\ calls' = [calls EXCEPT ![c] = call]
              /\ call.step # "save"
              /\ WellFormed(call)
  PROVE  IInv'
<1>1. calls' \in [Calls -> Call]
  BY DEF IInv, TypeOK
<1>2. TypeOK'
  BY <1>1 DEF IInv, TypeOK, Saved
<1>3. OwnersFound'
  <2> SUFFICES ASSUME NEW c \in Calls, NEW f \in Files,
                      calls'[c].step = "save", f \in calls'[c].files, SteamId[f] # NoPlayer
               PROVE  calls'[c].seen[SteamId[f]] # "none" \/ SteamId[f] \in moved'
    BY DEF OwnersFound
  <2>1. calls'[c] = calls[c]
    BY DEF IInv, TypeOK
  <2> QED
    BY <2>1 DEF IInv, OwnersFound
<1>4. CallsFormed'
  BY DEF IInv, TypeOK, CallsFormed
<1>5. ClipsOwned'
  BY DEF IInv, ClipsOwned, Saved
<1> QED
  BY <1>2, <1>3, <1>4, <1>5 DEF IInv

(* A handler goes on with files left: the clips are as before, and the     *)
(* owners of the files it has left are found.                              *)
LEMMA SavingStep ==
  ASSUME IInv, NEW c \in Calls, NEW call \in Call, call.to \in MatchStatus,
         calls' = [calls EXCEPT ![c] = Proceed(call)],
         \A f \in call.files :
           SteamId[f] # NoPlayer => call.seen[SteamId[f]] # "none" \/ SteamId[f] \in moved,
         UNCHANGED <<job, linked, moved, match, disorder>>, TypeOK', ClipsOwned'
  PROVE  IInv'
<1> DEFINE next == Proceed(call)
<1>1. /\ next \in Call
      /\ WellFormed(next)
      /\ next.step = "save" => next.files = call.files /\ next.seen = call.seen
  BY ProceedType DEF Call
<1>2. calls'[c] = next /\ \A d \in Calls : d # c => calls'[d] = calls[d]
  BY DEF IInv, TypeOK
<1> HIDE DEF next
<1>3. OwnersFound'
  <2> SUFFICES ASSUME NEW d \in Calls, NEW f \in Files,
                      calls'[d].step = "save", f \in calls'[d].files, SteamId[f] # NoPlayer
               PROVE  calls'[d].seen[SteamId[f]] # "none" \/ SteamId[f] \in moved
    BY DEF OwnersFound
  <2>1. CASE d = c
    BY <1>1, <1>2, <2>1
  <2>2. CASE d # c
    BY <1>2, <2>2 DEF IInv, OwnersFound
  <2> QED
    BY <2>1, <2>2
<1>4. CallsFormed'
  BY <1>1, <1>2 DEF IInv, CallsFormed
<1> QED
  BY <1>3, <1>4 DEF IInv

(* A handler's write of the job.                                           *)
LEMMA BeginStep ==
  ASSUME IInv, NEW c \in Calls, NEW step \in {"find", "bulk"},
         NEW to \in MatchStatus \cup {"cancel", "retry", "reclip", "sweep"},
         step = "find" => to \in MatchStatus,
         NEW status \in JobStatus, Begin(c, step, to, status)
  PROVE  IInv'
<1> DEFINE call == [IdleCall EXCEPT !.step = step, !.to = to, !.wrote = status]
<1>1. call \in Call /\ call.step = step /\ WellFormed(call)
  BY IdleCallType DEF Call, IdleCall, WellFormed
<1>2. calls' = [calls EXCEPT ![c] = call]
  BY DEF Begin
<1> HIDE DEF call
<1> QED
  BY <1>1, <1>2, OtherStep DEF Begin, IInv, TypeOK

LEMMA BulkStep ==
  ASSUME IInv, NEW c \in Calls, BulkUpdate(c)
  PROVE  IInv'
<1>1. \A op, status : status \in MatchStatus => BulkRow(op, status) \in MatchStatus
  BY DEF BulkRow, MatchStatus
<1>2. match' \in [Players -> MatchStatus]
  BY <1>1 DEF BulkUpdate, IInv, TypeOK
<1>3. IdleCall.step = "idle" /\ WellFormed(IdleCall)
  BY DEF IdleCall, WellFormed
<1>4. linked' \subseteq Players
  BY DEF BulkUpdate, IInv, TypeOK
<1> QED
  BY <1>2, <1>3, <1>4, IdleCallType, OtherStep DEF BulkUpdate, IInv, TypeOK

(* What is found includes the owner of every clip that may be saved.       *)
LEMMA FindStep ==
  ASSUME IInv, NEW c \in Calls, FindMatches(c)
  PROVE  IInv'
<1> DEFINE files == IF calls[c].to = "RENDERED" THEN Rendered ELSE {}
           seen == [p \in Players |-> IF p \in ToAdvance(calls[c].to) THEN match[p] ELSE "none"]
           call == [calls[c] EXCEPT !.files = files, !.seen = seen]
<1>1. calls[c] \in Call /\ calls[c].to \in MatchStatus
  BY DEF FindMatches, IInv, TypeOK, CallsFormed, WellFormed
<1>2. files \subseteq Files /\ seen \in [Players -> MatchStatus \cup {"none"}]
  BY DEF IInv, TypeOK, Rendered
<1>3. /\ calls' = [calls EXCEPT ![c] = Proceed(call)]
      /\ UNCHANGED <<job, linked, moved, match, clip, disorder>>
  BY DEF FindMatches
<1>4. ASSUME NEW f \in files, SteamId[f] # NoPlayer
      PROVE  seen[SteamId[f]] # "none" \/ SteamId[f] \in moved
  <2>1. SteamId[f] \in linked \cup moved /\ calls[c].to = "RENDERED" /\ SteamId[f] \in Players
    BY <1>4, ProjectionAssumption DEF Rendered, ProjectionAssumption, IInv, TypeOK
  <2>2. SteamId[f] \in linked => SteamId[f] \in ToAdvance(calls[c].to)
    BY <2>1 DEF ToAdvance, JobMatches
  <2>3. match[SteamId[f]] # "none"
    BY <2>1 DEF IInv, TypeOK, MatchStatus
  <2> QED
    BY <2>1, <2>2, <2>3
<1> HIDE DEF files, seen
<1>5. call \in Call /\ call.files = files /\ call.seen = seen /\ call.to = calls[c].to
  BY <1>1, <1>2 DEF Call
<1> HIDE DEF call
<1>6. TypeOK'
  BY <1>3, <1>5, ProceedType DEF IInv, TypeOK, Saved
<1>7. ClipsOwned'
  BY <1>3 DEF IInv, ClipsOwned, Saved
<1> QED
  BY <1>1, <1>3, <1>4, <1>5, <1>6, <1>7, SavingStep

LEMMA AdvanceStep ==
  ASSUME IInv, NEW c \in Calls, NEW p \in Players, AdvanceMatch(c, p)
  PROVE  IInv'
<1> DEFINE call == [calls[c] EXCEPT !.seen[p] = "none"]
<1>1. calls[c] \in Call /\ calls[c].to \in MatchStatus /\ calls[c].files = {}
  BY DEF AdvanceMatch, IInv, TypeOK, CallsFormed, WellFormed
<1>2. call \in Call /\ call.to = calls[c].to /\ call.files = {}
  BY <1>1 DEF Call
<1>3. calls' = [calls EXCEPT ![c] = Proceed(call)]
  BY DEF AdvanceMatch
<1> HIDE DEF call
<1>4. match' \in [Players -> MatchStatus]
  BY <1>1 DEF AdvanceMatch, IInv, TypeOK
<1> QED
  BY <1>1, <1>2, <1>3, <1>4, ProceedType, OtherStep DEF AdvanceMatch, IInv, TypeOK

LEMMA SaveStep ==
  ASSUME IInv, NEW c \in Calls, NEW f \in Files, SaveClip(c, f)
  PROVE  IInv'
<1> DEFINE found == {p \in Players : calls[c].seen[p] # "none"}
           call == [calls[c] EXCEPT !.files = @ \ {f}]
<1>1. /\ calls[c] \in Call /\ calls[c].step = "save" /\ f \in calls[c].files
      /\ calls[c].to \in MatchStatus
      /\ calls' = [calls EXCEPT ![c] = Proceed(call)]
      /\ UNCHANGED <<job, linked, moved, match, disorder>>
  BY DEF SaveClip, IInv, TypeOK, CallsFormed, WellFormed
<1>2. PICK code \in Codes, m \in MatchesFor(f, found) :
        /\ CodeFree(code)
        /\ clip' = [clip EXCEPT ![f] = [code |-> CodeOf(f, code), owner |-> OwnerOf(f),
                                        match |-> m]]
  BY DEF SaveClip
<1>3. OwnerOf(f) \in Players /\ m \in Players
  BY ProjectionAssumption DEF ProjectionAssumption, OwnerOf, MatchesFor
<1>4. call \in Call /\ call.to = calls[c].to /\ call.seen = calls[c].seen
      /\ call.files = calls[c].files \ {f}
  BY <1>1 DEF Call
<1> HIDE DEF call
<1>5. /\ clip'[f].code = CodeOf(f, code)
      /\ clip'[f].owner = OwnerOf(f)
      /\ clip'[f].match = m
      /\ \A g \in Files : g # f => clip'[g] = clip[g]
  BY <1>2 DEF IInv, TypeOK
<1>6. CodeOf(f, code) \in Codes \cup {NoCode}
      /\ \A g \in Files : Saved(g) /\ g # f => clip[g].code # CodeOf(f, code)
  BY <1>2 DEF CodeOf, CodeFree, IInv, TypeOK, Clip
<1>7. TypeOK'
  <2>1. clip' \in [Files -> Clip]
    BY <1>2, <1>3, <1>6 DEF IInv, TypeOK, Clip
  <2>2. ASSUME NEW g \in Files, NEW h \in Files, Saved(g)', Saved(h)', g # h
        PROVE  clip'[g].code # clip'[h].code
    BY <1>5, <1>6, <2>2 DEF IInv, TypeOK, Saved
  <2> QED
    BY <1>1, <1>4, <2>1, <2>2, ProceedType DEF IInv, TypeOK
<1>8. ClipsOwned'
  <2> SUFFICES ASSUME NEW g \in Files, Saved(g)', SteamId[g] # NoPlayer
               PROVE  /\ clip'[g].owner = SteamId[g]
                      /\ clip'[g].match = SteamId[g] \/ SteamId[g] \in moved
    BY <1>1 DEF ClipsOwned
  <2>1. CASE g = f
    <3>1. OwnerOf(f) = SteamId[f]
      BY <2>1 DEF OwnerOf
    <3>2. SteamId[f] \in found \/ SteamId[f] \in moved
      BY <1>1, <1>3, <2>1, <3>1 DEF IInv, OwnersFound
    <3>3. SteamId[f] \in found => m = SteamId[f]
      BY <3>1 DEF MatchesFor
    <3> QED
      BY <1>5, <2>1, <3>1, <3>2, <3>3
  <2>2. CASE g # f
    BY <1>5, <2>2 DEF IInv, ClipsOwned, Saved
  <2> QED
    BY <2>1, <2>2
<1>9. \A g \in call.files :
        SteamId[g] # NoPlayer => call.seen[SteamId[g]] # "none" \/ SteamId[g] \in moved
  BY <1>1, <1>4 DEF IInv, OwnersFound, Call
<1> QED
  BY <1>1, <1>4, <1>7, <1>8, <1>9, SavingStep
-------------------------------------------------------------------------------
LEMMA NextIInv == IInv /\ [Next]_vars => IInv'
<1> SUFFICES ASSUME IInv, [Next]_vars
             PROVE  IInv'
  OBVIOUS
<1>1. CASE UNCHANGED vars
  BY <1>1 DEF vars, IInv, TypeOK, OwnersFound, CallsFormed, ClipsOwned, Saved
<1>2. CASE Requeue
  BY <1>2, OtherStep DEF Requeue, JobStatus, IInv, TypeOK
<1>3. ASSUME NEW p \in Players, Join(p) \/ MoveAway(p)
      PROVE  IInv'
  <2>1. match' \in [Players -> MatchStatus] /\ linked' \subseteq Players
    BY <1>3 DEF Join, MoveAway, MatchStatus, IInv, TypeOK
  <2> QED
    BY <1>3, <2>1, OtherStep DEF Join, MoveAway, IInv, TypeOK
<1>4. ASSUME NEW c \in Calls, CallNext(c)
      PROVE  IInv'
  <2>1. CASE ReportCompleted(c) \/ ReportFailed(c) \/ ReportStage(c)
    <3>1. job \in JobStatus
      BY DEF IInv, TypeOK
    <3> QED
      BY <2>1, <3>1, BeginStep
      DEF ReportCompleted, ReportFailed, ReportStage, JobStatus, MatchStatus
  <2>2. CASE Cancel(c) \/ Retry(c) \/ Reclip(c) \/ SweepFail(c)
    BY <2>2, BeginStep DEF Cancel, Retry, Reclip, SweepFail, JobStatus
  <2>3. CASE ProjectionFails(c)
    <3>1. IdleCall.step = "idle" /\ WellFormed(IdleCall)
      BY DEF IdleCall, WellFormed
    <3> QED
      BY <2>3, <3>1, IdleCallType, OtherStep DEF ProjectionFails, IInv, TypeOK
  <2> QED
    BY <1>4, <2>1, <2>2, <2>3, BulkStep, FindStep, SaveStep, AdvanceStep DEF CallNext
<1> QED
  BY <1>1, <1>2, <1>3, <1>4 DEF Next

LEMMA SpecIInv == Spec => []IInv
BY InitIInv, NextIInv, PTL DEF Spec

(* TypeCorrect: every variable keeps its type and no two clips ever share a *)
(* public code, whatever reports, admin requests and sweeps interleave.     *)
THEOREM TypeCorrect == Spec => []TypeOK
<1>1. IInv => TypeOK
  BY DEF IInv
<1> QED
  BY <1>1, SpecIInv, PTL

(* OwnersRight: in a merged job every clip goes to the player its sidecar   *)
(* names, and to that player's match unless another job took the match.    *)
THEOREM OwnersRight == Spec => []ClipsOwned
<1>1. IInv => ClipsOwned
  BY DEF IInv
<1> QED
  BY <1>1, SpecIInv, PTL

(* ShareLinksStick: a saved clip keeps its public code for ever.            *)
THEOREM ShareLinksStick == Spec => CodesStick
<1>1. IInv /\ [Next]_vars
        => [\A f \in Files : Saved(f) => clip'[f].code = clip[f].code]_vars
  <2> SUFFICES ASSUME IInv, Next, NEW f \in Files, Saved(f)
               PROVE  clip'[f].code = clip[f].code
    OBVIOUS
  <2>1. ASSUME NEW c \in Calls, NEW g \in Files, SaveClip(c, g)
        PROVE  clip'[f].code = clip[f].code
    <3>1. PICK code \in Codes,
               m \in MatchesFor(g, {p \in Players : calls[c].seen[p] # "none"}) :
            clip' = [clip EXCEPT ![g] = [code |-> CodeOf(g, code), owner |-> OwnerOf(g),
                                         match |-> m]]
      BY <2>1 DEF SaveClip
    <3>2. g = f => CodeOf(g, code) = clip[f].code
      BY DEF CodeOf
    <3> QED
      BY <3>1, <3>2 DEF IInv, TypeOK
  <2> QED
    BY <2>1 DEF Next, CallNext, Requeue, Join, MoveAway, ReportCompleted, ReportFailed,
      ReportStage, Cancel, Retry, Reclip, SweepFail, Begin, BulkUpdate, FindMatches,
      AdvanceMatch, ProjectionFails
<1> QED
  BY <1>1, SpecIInv, PTL DEF Spec, CodesStick
(* RenderedHolds: only a reclip, a takeover by another job or a handler     *)
(* that read the match before it was RENDERED takes it out of RENDERED.    *)
THEOREM RenderedHolds == Spec => RenderedStays
<1>1. IInv /\ [Next]_vars
        => [\A p \in Players :
              match[p] = "RENDERED" /\ match'[p] # "RENDERED"
              => \/ MoveAway(p)
                 \/ \E c \in Calls :
                      /\ calls'[c] # calls[c]
                      /\ calls[c].to = "reclip" \/ calls[c].seen[p] \in MatchStatus \ {"RENDERED"}]_vars
  <2> DEFINE Goal(p) ==
        \/ MoveAway(p)
        \/ \E c \in Calls :
             /\ calls'[c] # calls[c]
             /\ calls[c].to = "reclip" \/ calls[c].seen[p] \in MatchStatus \ {"RENDERED"}
  <2> SUFFICES ASSUME IInv, Next, NEW p \in Players,
                      match[p] = "RENDERED", match'[p] # "RENDERED"
               PROVE  Goal(p)
    OBVIOUS
  <2>1. ASSUME NEW c \in Calls, BulkUpdate(c)
        PROVE  Goal(p)
    <3>1. calls[c].to = "reclip"
      BY <2>1 DEF BulkUpdate, BulkRow
    <3>2. calls'[c] # calls[c]
      BY <2>1 DEF BulkUpdate, IdleCall, IInv, TypeOK
    <3> QED
      BY <3>1, <3>2
  <2>2. ASSUME NEW c \in Calls, NEW q \in Players, AdvanceMatch(c, q)
        PROVE  Goal(p)
    <3>1. q = p /\ Forward(calls[c].to, calls[c].seen[p])
      BY <2>2 DEF AdvanceMatch, IInv, TypeOK
    <3>2. calls[c] \in Call /\ calls[c].to \in MatchStatus /\ calls[c].to # "RENDERED"
      BY <2>2, <3>1 DEF AdvanceMatch, IInv, TypeOK, CallsFormed, WellFormed
    <3>3. calls[c].seen[p] \in MatchStatus \ {"RENDERED"}
      BY <2>2, <3>1, <3>2 DEF AdvanceMatch, Call, Forward, Rank, MatchStatus
    <3>4. calls'[c] # calls[c]
      <4> DEFINE call == [calls[c] EXCEPT !.seen[p] = "none"]
      <4>1. calls'[c] = Proceed(call)
        BY <2>2, <3>1 DEF AdvanceMatch, IInv, TypeOK
      <4>2. call.seen[p] = "none" /\ call.files = {}
        BY <2>2, <3>2 DEF AdvanceMatch, Call, IInv, CallsFormed, WellFormed
      <4>3. Proceed(call).seen[p] = "none"
        <5> HIDE DEF call
        <5>1. call \in Call
          BY <3>2 DEF call, Call
        <5> QED
          BY <4>2, <5>1 DEF Proceed, IdleCall, Call
      <4> QED
        BY <4>1, <4>3, <3>3 DEF MatchStatus
    <3> QED
      BY <3>3, <3>4
  <2>3. ASSUME NEW q \in Players, MoveAway(q)
        PROVE  Goal(p)
    <3>1. q = p
      BY <2>3 DEF MoveAway, IInv, TypeOK
    <3> QED
      BY <2>3, <3>1
  <2> QED
    BY <2>1, <2>2, <2>3 DEF Next, CallNext, Requeue, Join, ReportCompleted, ReportFailed,
      ReportStage, Cancel, Retry, Reclip, SweepFail, Begin, FindMatches, SaveClip,
      ProjectionFails
<1> QED
  BY <1>1, SpecIInv, PTL DEF Spec, RenderedStays
-------------------------------------------------------------------------------
(* MatchesAgree.  A handler remembers what it left the job in, which goes  *)
(* with what it does to the matches.                                       *)
BulkOps == {"cancel", "retry", "reclip", "sweep"}

Consistent(call) ==
  call.step # "idle" =>
    /\ call.to = "RENDERED" => call.wrote = "COMPLETED"
    /\ call.to \in {"FAILED", "sweep"} => call.wrote = "FAILED"
    /\ call.to = "cancel" => call.wrote = "CANCELLED"
    /\ call.to \in {"retry", "reclip"} => call.wrote = "OPEN"
    /\ call.step = "bulk" <=> call.to \in BulkOps

(* A handler that has still to write the match of p.                       *)
Owes(call, p) == \/ call.step \in {"find", "bulk"}
                 \/ call.step \in {"save", "advance"} /\ call.seen[p] # "none"

Rendering(p) == \E c \in Calls : calls[c].to = "RENDERED" /\ Owes(calls[c], p)
Failing(p) == \E c \in Calls : calls[c].to \in {"FAILED", "cancel", "sweep"} /\ Owes(calls[c], p)

Settled(p) ==
  /\ job = "COMPLETED" => match[p] = "RENDERED" \/ Rendering(p)
  /\ job \in {"FAILED", "CANCELLED"} => match[p] \in {"FAILED", "RENDERED"} \/ Failing(p)

(* As long as nothing went out of order, a match that does not agree with  *)
(* the job is one that a handler has still to write.                       *)
Agreeing == ~disorder => \A p \in linked : Settled(p)

AInv == IInv /\ (\A c \in Calls : Consistent(calls[c])) /\ Agreeing

LEMMA IdleConsistent == Consistent(IdleCall) /\ IdleCall.step = "idle"
BY DEF Consistent, IdleCall

LEMMA InitAInv == Init => AInv
<1> SUFFICES ASSUME Init PROVE AInv
  OBVIOUS
<1>1. \A c \in Calls : Consistent(calls[c])
  BY IdleConsistent DEF Init
<1>2. Agreeing
  BY DEF Init, Agreeing, Settled
<1> QED
  BY <1>1, <1>2, InitIInv DEF AInv

(* One handler changes and owes the match of p as before, so others do.    *)
LEMMA StillOwed ==
  ASSUME IInv, NEW c \in Calls, NEW call \in Call, NEW p \in Players,
         calls' = [calls EXCEPT ![c] = call],
         Owes(calls[c], p) => Owes(call, p) /\ call.to = calls[c].to
  PROVE  (Rendering(p) => Rendering(p)') /\ (Failing(p) => Failing(p)')
<1>1. calls'[c] = call /\ \A d \in Calls : d # c => calls'[d] = calls[d]
  BY DEF IInv, TypeOK
<1>2. \A d \in Calls : Owes(calls[d], p) => Owes(calls'[d], p) /\ calls'[d].to = calls[d].to
  BY <1>1
<1> QED
  BY <1>2 DEF Rendering, Failing, Owes

LEMMA OneConsistent ==
  ASSUME IInv, \A d \in Calls : Consistent(calls[d]), NEW c \in Calls, NEW call,
         calls' = [calls EXCEPT ![c] = call], Consistent(call)
  PROVE  (\A d \in Calls : Consistent(calls[d]))'
<1>1. calls'[c] = call /\ \A d \in Calls : d # c => calls'[d] = calls[d]
  BY DEF IInv, TypeOK
<1>2. \A d \in Calls : Consistent(calls'[d])
  BY <1>1
<1> QED
  BY <1>2 DEF Consistent

LEMMA BeginAgrees ==
  ASSUME AInv, NEW c \in Calls, NEW step \in {"find", "bulk"},
         NEW to \in MatchStatus \cup BulkOps, NEW status \in JobStatus,
         Begin(c, step, to, status), step = "bulk" <=> to \in BulkOps,
         \/ to = "RENDERED" /\ status = "COMPLETED"
         \/ to \in {"FAILED", "sweep"} /\ status = "FAILED"
         \/ to = "cancel" /\ status = "CANCELLED"
         \/ to \in {"retry", "reclip"} /\ status = "OPEN"
         \/ to = "DOWNLOADED" /\ status \in {"OPEN", job}
  PROVE  (\A d \in Calls : Consistent(calls[d]))' /\ Agreeing'
<1>1. PICK call : call = [IdleCall EXCEPT !.step = step, !.to = to, !.wrote = status]
  OBVIOUS
<1>2. call \in Call /\ call.step = step /\ call.to = to /\ call.wrote = status
  BY <1>1, IdleCallType DEF Call, BulkOps
<1>3. /\ calls' = [calls EXCEPT ![c] = call] /\ calls[c].step = "idle" /\ job' = status
      /\ UNCHANGED <<linked, match, disorder>>
  BY <1>1 DEF Begin
<1>4. Consistent(call)
  BY <1>2 DEF Consistent, BulkOps, MatchStatus
<1>5. ASSUME NEW p \in linked, ~disorder
      PROVE  Settled(p)'
  <2>1. p \in Players /\ Settled(p)
    BY <1>5 DEF AInv, IInv, TypeOK, Agreeing
  <2>2. (Rendering(p) => Rendering(p)') /\ (Failing(p) => Failing(p)')
    <3>1. ~Owes(calls[c], p)
      BY <1>3 DEF Owes
    <3> QED
      BY <1>2, <1>3, <2>1, <3>1, StillOwed DEF AInv
  <2>3. calls'[c] = call /\ Owes(call, p)
    BY <1>2, <1>3 DEF AInv, IInv, TypeOK, Owes
  <2>4. CASE to = "DOWNLOADED"
    BY <1>3, <2>1, <2>2, <2>4 DEF Settled
  <2>5. CASE to = "RENDERED"
    <3>1. Rendering(p)'
      BY <1>2, <2>3, <2>5 DEF Rendering, Owes
    <3> QED
      BY <1>3, <2>5, <3>1 DEF Settled
  <2>6. CASE to \in {"FAILED", "sweep", "cancel"}
    <3>1. Failing(p)'
      BY <1>2, <2>3, <2>6 DEF Failing, Owes
    <3> QED
      BY <1>3, <2>6, <3>1 DEF Settled
  <2>7. CASE to \in {"retry", "reclip"}
    BY <1>3, <2>7 DEF Settled
  <2> QED
    BY <2>4, <2>5, <2>6, <2>7
<1>6. Agreeing'
  BY <1>3, <1>5 DEF Agreeing
<1> QED
  BY <1>2, <1>3, <1>4, <1>6, OneConsistent DEF AInv

LEMMA BulkAgrees ==
  ASSUME AInv, NEW c \in Calls, BulkUpdate(c)
  PROVE  (\A d \in Calls : Consistent(calls[d]))' /\ Agreeing'
<1>1. /\ calls' = [calls EXCEPT ![c] = IdleCall] /\ calls[c].step = "bulk" /\ job' = job
      /\ disorder' = (disorder \/ job # calls[c].wrote)
      /\ calls[c] \in Call /\ calls[c].to \in BulkOps /\ Consistent(calls[c])
  BY DEF BulkUpdate, AInv, IInv, TypeOK, Consistent
<1>2. ASSUME NEW p \in linked', ~disorder'
      PROVE  Settled(p)'
  <2>1. job = calls[c].wrote /\ ~disorder
    BY <1>1, <1>2
  <2>2. CASE calls[c].to \in {"retry", "reclip"}
    BY <1>1, <2>1, <2>2 DEF Settled, Consistent
  <2>3. CASE calls[c].to \in {"cancel", "sweep"}
    <3>1. p \in linked /\ p \in Players /\ match[p] \in MatchStatus
      BY <2>3 DEF BulkUpdate, AInv, IInv, TypeOK
    <3>2. match'[p] = BulkRow(calls[c].to, match[p])
      BY <2>3, <3>1 DEF BulkUpdate
    <3>3. match'[p] \in {"FAILED", "RENDERED"}
      BY <2>3, <3>1, <3>2 DEF BulkRow, MatchStatus
    <3>4. job # "COMPLETED"
      BY <1>1, <2>1, <2>3 DEF Consistent
    <3> QED
      BY <1>1, <3>3, <3>4 DEF Settled
  <2> QED
    BY <1>1, <2>2, <2>3 DEF BulkOps
<1>3. Agreeing'
  BY <1>2 DEF Agreeing
<1> QED
  BY <1>1, <1>3, IdleConsistent, OneConsistent DEF AInv

(* Going on, a handler owes the matches it still remembers.                *)
LEMMA ProceedOwes ==
  ASSUME NEW call \in Call
  PROVE  /\ \A p \in Players : call.seen[p] # "none" => /\ Owes(Proceed(call), p)
                                                        /\ Proceed(call).to = call.to
         /\ Consistent(call) /\ call.step # "idle" /\ call.step # "bulk"
              => Consistent(Proceed(call))
<1>1. ASSUME NEW p \in Players, call.seen[p] # "none"
      PROVE  Owes(Proceed(call), p) /\ Proceed(call).to = call.to
  BY <1>1 DEF Owes, Proceed, Call
<1>2. ASSUME Consistent(call), call.step # "idle", call.step # "bulk"
      PROVE  Consistent(Proceed(call))
  BY <1>2, IdleConsistent DEF Consistent, Proceed, Call
<1> QED
  BY <1>1, <1>2

LEMMA FindAgrees ==
  ASSUME AInv, NEW c \in Calls, FindMatches(c)
  PROVE  (\A d \in Calls : Consistent(calls[d]))' /\ Agreeing'
<1>1. calls[c] \in Call /\ calls[c].step = "find" /\ Consistent(calls[c])
      /\ UNCHANGED <<job, linked, match, disorder>>
  BY DEF FindMatches, AInv, IInv, TypeOK
<1>2. PICK call : call = [calls[c] EXCEPT
                            !.files = IF calls[c].to = "RENDERED" THEN Rendered ELSE {},
                            !.seen = [p \in Players |-> IF p \in ToAdvance(calls[c].to)
                                                        THEN match[p] ELSE "none"]]
  OBVIOUS
<1>3. Rendered \in SUBSET Files /\ match \in [Players -> MatchStatus]
  BY DEF Rendered, AInv, IInv, TypeOK
<1>4. /\ call \in Call /\ call.step = "find" /\ call.to = calls[c].to
      /\ call.wrote = calls[c].wrote
      /\ call.seen = [p \in Players |-> IF p \in ToAdvance(calls[c].to)
                                        THEN match[p] ELSE "none"]
  BY <1>1, <1>2, <1>3 DEF Call
<1>5. calls' = [calls EXCEPT ![c] = Proceed(call)]
  BY <1>2 DEF FindMatches
<1>6. Consistent(call)
  BY <1>1, <1>4 DEF Consistent
<1>7. Proceed(call) \in Call /\ Consistent(Proceed(call))
  BY <1>4, <1>6, ProceedType, ProceedOwes
<1>8. ASSUME NEW p \in linked, ~disorder
      PROVE  Settled(p)'
  <2>1. p \in Players /\ Settled(p)
    BY <1>8 DEF AInv, IInv, TypeOK, Agreeing
  <2>2. CASE calls[c].to # "DOWNLOADED"
    <3>1. p \in ToAdvance(calls[c].to)
      BY <2>2 DEF ToAdvance, JobMatches
    <3>2. call.seen[p] = match[p] /\ match[p] # "none"
      BY <1>3, <1>4, <2>1, <3>1 DEF MatchStatus
    <3>3. Owes(Proceed(call), p) /\ Proceed(call).to = calls[c].to
      BY <1>4, <2>1, <3>2, ProceedOwes
    <3>4. (Rendering(p) => Rendering(p)') /\ (Failing(p) => Failing(p)')
      BY <1>5, <1>7, <2>1, <3>3, StillOwed DEF AInv
    <3> QED
      BY <1>1, <2>1, <3>4 DEF Settled
  <2>3. CASE calls[c].to = "DOWNLOADED"
    <3>1. calls'[c] = Proceed(call) /\ \A d \in Calls : d # c => calls'[d] = calls[d]
      BY <1>5 DEF AInv, IInv, TypeOK
    <3>2. (Rendering(p) => Rendering(p)') /\ (Failing(p) => Failing(p)')
      BY <2>3, <3>1 DEF Rendering, Failing, Owes
    <3> QED
      BY <1>1, <2>1, <3>2 DEF Settled
  <2> QED
    BY <2>2, <2>3
<1>9. Agreeing'
  BY <1>1, <1>8 DEF Agreeing
<1> QED
  BY <1>5, <1>7, <1>9, OneConsistent DEF AInv

LEMMA SaveAgrees ==
  ASSUME AInv, NEW c \in Calls, NEW f \in Files, SaveClip(c, f)
  PROVE  (\A d \in Calls : Consistent(calls[d]))' /\ Agreeing'
<1>1. calls[c] \in Call /\ calls[c].step = "save" /\ Consistent(calls[c])
      /\ UNCHANGED <<job, linked, match, disorder>>
  BY DEF SaveClip, AInv, IInv, TypeOK
<1>2. PICK call : call = [calls[c] EXCEPT !.files = calls[c].files \ {f}]
  OBVIOUS
<1>3. call \in Call /\ call.step = "save" /\ call.to = calls[c].to
      /\ call.wrote = calls[c].wrote /\ call.seen = calls[c].seen
  BY <1>1, <1>2 DEF Call
<1>4. calls' = [calls EXCEPT ![c] = Proceed(call)]
  BY <1>2 DEF SaveClip
<1>5. Consistent(call)
  BY <1>1, <1>3 DEF Consistent
<1>6. Proceed(call) \in Call /\ Consistent(Proceed(call))
  BY <1>3, <1>5, ProceedType, ProceedOwes
<1>7. ASSUME NEW p \in linked, ~disorder
      PROVE  Settled(p)'
  <2>1. p \in Players /\ Settled(p)
    BY <1>7 DEF AInv, IInv, TypeOK, Agreeing
  <2>2. Owes(calls[c], p) => Owes(Proceed(call), p) /\ Proceed(call).to = calls[c].to
    BY <1>1, <1>3, <2>1, ProceedOwes DEF Owes
  <2>3. (Rendering(p) => Rendering(p)') /\ (Failing(p) => Failing(p)')
    BY <1>4, <1>6, <2>1, <2>2, StillOwed DEF AInv
  <2> QED
    BY <1>1, <2>1, <2>3 DEF Settled
<1>8. Agreeing'
  BY <1>1, <1>7 DEF Agreeing
<1> QED
  BY <1>4, <1>6, <1>8, OneConsistent DEF AInv

LEMMA AdvanceAgrees ==
  ASSUME AInv, NEW c \in Calls, NEW q \in Players, AdvanceMatch(c, q)
  PROVE  (\A d \in Calls : Consistent(calls[d]))' /\ Agreeing'
<1>1. /\ calls[c] \in Call /\ calls[c].step = "advance" /\ Consistent(calls[c])
      /\ calls[c].to \in MatchStatus /\ match \in [Players -> MatchStatus]
      /\ UNCHANGED <<job, linked>>
  BY DEF AdvanceMatch, AInv, IInv, TypeOK, CallsFormed, WellFormed
<1>2. PICK call : call = [calls[c] EXCEPT !.seen[q] = "none"]
  OBVIOUS
<1>3. call \in Call /\ call.step = "advance" /\ call.to = calls[c].to
      /\ call.wrote = calls[c].wrote
      /\ \A p \in Players : p # q => call.seen[p] = calls[c].seen[p]
  BY <1>1, <1>2 DEF Call
<1>4. calls' = [calls EXCEPT ![c] = Proceed(call)]
  BY <1>2 DEF AdvanceMatch
<1>5. Consistent(call)
  BY <1>1, <1>3 DEF Consistent
<1>6. Proceed(call) \in Call /\ Consistent(Proceed(call))
  BY <1>3, <1>5, ProceedType, ProceedOwes
<1>7. /\ match' = [match EXCEPT ![q] = IF Forward(calls[c].to, calls[c].seen[q])
                                       THEN calls[c].to ELSE match[q]]
      /\ disorder' = (disorder \/ job # calls[c].wrote \/ match[q] # calls[c].seen[q])
  BY DEF AdvanceMatch
<1>8. ASSUME NEW p \in linked, ~disorder'
      PROVE  Settled(p)'
  <2>1. p \in Players /\ Settled(p) /\ job = calls[c].wrote /\ match[q] = calls[c].seen[q]
    BY <1>7, <1>8 DEF AInv, IInv, TypeOK, Agreeing
  <2>2. CASE p # q
    <3>1. Owes(calls[c], p) => Owes(Proceed(call), p) /\ Proceed(call).to = calls[c].to
      BY <1>1, <1>3, <2>1, <2>2, ProceedOwes DEF Owes
    <3>2. (Rendering(p) => Rendering(p)') /\ (Failing(p) => Failing(p)')
      BY <1>4, <1>6, <2>1, <3>1, StillOwed DEF AInv
    <3>3. match'[p] = match[p]
      BY <1>1, <1>7, <2>1, <2>2
    <3> QED
      BY <1>1, <2>1, <3>2, <3>3 DEF Settled
  <2>3. CASE p = q
    <3>1. match'[q] = IF Forward(calls[c].to, match[q]) THEN calls[c].to ELSE match[q]
      BY <1>1, <1>7, <2>1
    <3>2. CASE calls[c].to = "RENDERED"
      <4>1. match'[q] = "RENDERED"
        BY <1>1, <3>1, <3>2 DEF Forward, Rank, MatchStatus
      <4>2. job = "COMPLETED"
        BY <1>1, <2>1, <3>2 DEF Consistent
      <4> QED
        BY <1>1, <2>3, <4>1, <4>2 DEF Settled
    <3>3. CASE calls[c].to = "FAILED"
      <4>1. match'[q] \in {"FAILED", "RENDERED"}
        BY <1>1, <3>1, <3>3 DEF Forward, Rank, MatchStatus
      <4>2. job = "FAILED"
        BY <1>1, <2>1, <3>3 DEF Consistent
      <4> QED
        BY <1>1, <2>3, <4>1, <4>2 DEF Settled
    <3>4. CASE calls[c].to \in {"DETECTED", "DOWNLOADED"}
      <4>1. match[q] \in {"FAILED", "RENDERED"} => match'[q] = match[q]
        BY <3>1, <3>4 DEF Forward, Rank
      <4>2. calls'[c] = Proceed(call) /\ \A d \in Calls : d # c => calls'[d] = calls[d]
        BY <1>4 DEF AInv, IInv, TypeOK
      <4>3. (Rendering(p) => Rendering(p)') /\ (Failing(p) => Failing(p)')
        BY <3>4, <4>2 DEF Rendering, Failing, Owes
      <4> QED
        BY <1>1, <2>1, <2>3, <4>1, <4>3 DEF Settled
    <3> QED
      BY <1>1, <3>2, <3>3, <3>4 DEF MatchStatus
  <2> QED
    BY <2>2, <2>3
<1>9. Agreeing'
  BY <1>1, <1>8 DEF Agreeing
<1> QED
  BY <1>4, <1>6, <1>9, OneConsistent DEF AInv

LEMMA StepAInv == AInv /\ [Next]_vars => AInv'
<1> SUFFICES ASSUME AInv, [Next]_vars
             PROVE  (\A d \in Calls : Consistent(calls[d]))' /\ Agreeing'
  BY NextIInv DEF AInv
<1>1. CASE UNCHANGED vars
  BY <1>1 DEF vars, AInv, Agreeing, Settled, Rendering, Failing, Owes, Consistent
<1>2. CASE Requeue
  BY <1>2 DEF Requeue, AInv, Agreeing, Settled, Consistent
<1>3. ASSUME NEW p \in Players, Join(p)
      PROVE  (\A d \in Calls : Consistent(calls[d]))' /\ Agreeing'
  BY <1>3 DEF Join, AInv, Agreeing, Settled, Consistent
<1>4. ASSUME NEW p \in Players, MoveAway(p)
      PROVE  (\A d \in Calls : Consistent(calls[d]))' /\ Agreeing'
  <2>1. /\ linked' \subseteq linked /\ p \notin linked' /\ linked \subseteq Players
        /\ \A q \in Players : q # p => match'[q] = match[q]
        /\ UNCHANGED <<job, calls, disorder>>
    BY <1>4 DEF MoveAway, AInv, IInv, TypeOK
  <2> QED
    BY <2>1 DEF AInv, Agreeing, Settled, Rendering, Failing, Owes, Consistent
<1>5. ASSUME NEW c \in Calls, CallNext(c)
      PROVE  (\A d \in Calls : Consistent(calls[d]))' /\ Agreeing'
  <2>1. job \in JobStatus
    BY DEF AInv, IInv, TypeOK
  <2>2. CASE ReportCompleted(c)
    BY <2>2, BeginAgrees DEF ReportCompleted, BulkOps, MatchStatus, JobStatus
  <2>3. CASE ReportFailed(c)
    BY <2>3, BeginAgrees DEF ReportFailed, BulkOps, MatchStatus, JobStatus
  <2>4. CASE ReportStage(c)
    <3>1. PICK status \in {"OPEN", job} : Begin(c, "find", "DOWNLOADED", status)
      BY <2>4 DEF ReportStage
    <3>2. status \in JobStatus
      BY <2>1 DEF JobStatus
    <3> QED
      BY <3>1, <3>2, BeginAgrees DEF BulkOps, MatchStatus
  <2>5. CASE Cancel(c) \/ Retry(c) \/ Reclip(c) \/ SweepFail(c)
    BY <2>5, BeginAgrees DEF Cancel, Retry, Reclip, SweepFail, BulkOps, MatchStatus, JobStatus
  <2>6. CASE ProjectionFails(c)
    <3>1. calls' = [calls EXCEPT ![c] = IdleCall] /\ disorder'
      BY <2>6 DEF ProjectionFails
    <3> QED
      BY <3>1, IdleConsistent, OneConsistent DEF AInv, Agreeing
  <2> QED
    BY <1>5, <2>2, <2>3, <2>4, <2>5, <2>6, BulkAgrees, FindAgrees, SaveAgrees, AdvanceAgrees
       DEF CallNext
<1> QED
  BY <1>1, <1>2, <1>3, <1>4, <1>5 DEF Next

(* Spec => []MatchesAgree: the reports', admin requests' and sweep's       *)
(* projections, in any order, leave the matches agreeing with the job once *)
(* they are done, unless one failed or wrote late.                         *)
THEOREM MatchesSettle == Spec => []MatchesAgree
<1>1. AInv => MatchesAgree
  BY DEF AInv, Agreeing, Settled, Rendering, Failing, Owes, MatchesAgree
<1> QED
  BY <1>1, InitAInv, StepAInv, PTL DEF Spec
===============================================================================
