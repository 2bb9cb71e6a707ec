--------------------------- MODULE MatchHistoryProofs ---------------------------
(***************************************************************************)
(* The enrollment's tip, for any number of games, requests, polls, pages   *)
(* and caps: every game up to it has its job, was skipped, or is being     *)
(* seeded; and a refused auth code is not put back to use by a later       *)
(* request, or by a poll.                                                  *)
(***************************************************************************)
EXTENDS MatchHistory, FiniteSetTheorems, TLAPS

(* A game that nobody needs to look at again.                              *)
Settled(g) == Owed(g) => g \in PendingSeeds

Handler == [op : {"none", "enable"} \cup Polls \cup Walks,
            step : {"idle", "probe", "walk", "store", "seed", "check",
                    "enqueue", "finish", "enable"},
            seen : EnrollmentStatus, auth : 0..MaxAuths,
            start : 0..MaxGames, tip : 0..MaxGames, next : 0..(MaxGames + 1)]

Row == [status : EnrollmentStatus, auth : 0..MaxAuths, tip : 0..MaxGames]

(* A handler at each of its steps: who is there, and where its cursor is.  *)
Formed(k) ==
  /\ k \in Handler
  /\ k.start <= k.tip /\ k.tip <= played
  /\ k.step \in {"probe", "store", "seed"} => k.op \in Walks
  /\ k.step \in {"check", "enqueue", "finish"} => k.op \in Polls
  /\ k.step = "walk" => k.op \in Polls \cup Walks
  /\ k.step = "enable" => k.op = "enable"
  /\ k.op \in {"baseline", "enable"} => k.seen # "INVALID_AUTH"
  /\ k.step \notin {"idle", "enable"} => 1 <= k.start
  /\ k.step \in {"store", "seed"} => 1 <= k.next /\ k.next <= k.tip
  /\ k.step \in {"check", "enqueue"} => k.start < k.next /\ k.next <= k.tip
  /\ k.step = "finish" => k.start < k.next /\ k.next <= k.tip + 1

(* What a poll has behind it: all it started from, then all it went past,  *)
(* but for games too old for its walk, which it skips when it finishes.    *)
Behind(k) ==
  /\ k.op \in Polls => \A g \in Games : g <= k.start => Settled(g)
  /\ k.step \in {"check", "enqueue", "finish"}
       => \A g \in Games :
            g < k.next => \/ Settled(g)
                          \/ g + SeedCount <= k.tip /\ k.start + SeedCount < k.tip

RowFormed == /\ row \in Row /\ row.tip <= played
             /\ row.status # "none" => 1 <= row.tip

Shape ==
  /\ played \in Games /\ valid \in 1..MaxAuths
  /\ RowFormed
  /\ calls \in [Calls -> Handler]
  /\ \A c \in Calls : Formed(calls[c])
  /\ fate \in [Games -> Fates]
  /\ today \subseteq Games
  /\ running \in BOOLEAN
  /\ upsets \in 0..MaxUpsets

IInv == /\ Shape
        /\ TipOwesNothing
        /\ \A c \in Calls : Behind(calls[c])
-------------------------------------------------------------------------------
LEMMA Bounds == /\ MaxGames \in Nat \ {0} /\ MaxAuths \in Nat \ {0}
                /\ SeedCount \in Nat \ {0} /\ PollPages \in Nat \ {0}
                /\ WalkPages \in Nat \ {0} /\ MaxPerDay \in Nat \ {0}
                /\ MaxUpsets \in Nat /\ IsFiniteSet(Calls)
BY HistoryAssumption DEF HistoryAssumption

LEMMA ShapeIsType == Shape => TypeOK
BY DEF Shape, RowFormed, Row, Handler, Formed, TypeOK

BeingSeeded(g) ==
  \E c \in Calls : calls[c].step = "seed" /\ calls[c].next <= g /\ g <= calls[c].tip

LEMMA Pending == Shape => \A g \in Games : g \in PendingSeeds <=> BeingSeeded(g)
<1> SUFFICES ASSUME Shape, NEW g \in Games
             PROVE  g \in PendingSeeds <=> BeingSeeded(g)
  OBVIOUS
<1>1. \A c \in Calls : calls[c].next \in Nat /\ calls[c].tip \in Nat
  BY Bounds DEF Shape, Handler
<1>2. g \in Nat
  BY Bounds DEF Games
<1> QED
  BY <1>1, <1>2 DEF PendingSeeds, BeingSeeded

LEMMA PendingNext == Shape' => \A g \in Games : (g \in PendingSeeds <=> BeingSeeded(g))'
<1>1. (Shape => \A g \in Games : g \in PendingSeeds <=> BeingSeeded(g))'
  BY Pending, PTL
<1> QED
  BY <1>1

LEMMA IdleFormed == Shape => Formed(IdleCall) /\ Behind(IdleCall)
BY Bounds DEF Shape, Formed, Behind, IdleCall, Handler, EnrollmentStatus, Games, Polls, Walks

LEMMA InitIInv == Init => IInv
<1> SUFFICES ASSUME Init
             PROVE  IInv
  OBVIOUS
<1>1. calls \in [Calls -> Handler] /\ \A c \in Calls : calls[c] = IdleCall
  BY Bounds DEF Init, IdleCall, Handler, EnrollmentStatus
<1>2. RowFormed
  BY Bounds DEF Init, RowFormed, Row, NoRow, EnrollmentStatus
<1>3. played = 1 /\ played \in Games /\ valid \in 1..MaxAuths /\ today \subseteq Games
      /\ upsets \in 0..MaxUpsets
  BY Bounds DEF Init, Games
<1>7. running \in BOOLEAN
  BY DEF Init
<1>4. fate \in [Games -> Fates]
  BY DEF Init, Fates
<1>5. Formed(IdleCall) /\ Behind(IdleCall)
  BY <1>3, Bounds DEF Formed, Behind, IdleCall, Handler, EnrollmentStatus, Games, Polls, Walks
<1>6. TipOwesNothing
  BY Bounds DEF Init, TipOwesNothing, NoRow, Games, Owed
<1> QED
  BY <1>1, <1>2, <1>3, <1>4, <1>5, <1>6, <1>7 DEF IInv, Shape
-------------------------------------------------------------------------------
(* A game stays settled while games are only ever taken off the debt and   *)
(* the seeds under way are left alone.                                     *)
LEMMA StaysSettled ==
  ASSUME Shape, Shape',
         \A g \in Games : Owed(g)' => Owed(g),
         \A d \in Calls : calls[d].step = "seed" => calls'[d] = calls[d]
  PROVE  \A g \in Games : Settled(g) => Settled(g)'
<1> SUFFICES ASSUME NEW g \in Games, Settled(g), Owed(g)'
             PROVE  (g \in PendingSeeds)'
  BY DEF Settled
<1>1. g \in PendingSeeds
  BY DEF Settled
<1>2. PICK c \in Calls : calls[c].step = "seed" /\ calls[c].next <= g /\ g <= calls[c].tip
  BY <1>1, Pending DEF BeingSeeded
<1>3. calls'[c] = calls[c]
  BY <1>2
<1> QED
  BY <1>2, <1>3, PendingNext DEF BeingSeeded

(* The same across a step that settles games.                              *)
BehindNext(k) ==
  /\ k.op \in Polls => \A g \in Games : g <= k.start => Settled(g)
  /\ k.step \in {"check", "enqueue", "finish"}
       => \A g \in Games :
            g < k.next => \/ Settled(g) \/ ~Owed(g)'
                          \/ g + SeedCount <= k.tip /\ k.start + SeedCount < k.tip

(* One step of a handler that is not seeding.  What it leaves of the debt  *)
(* up to the tip it writes is paid, or it is about to seed it.             *)
LEMMA HandlerKeeps ==
  ASSUME IInv, NEW c \in Calls, NEW k,
         calls[c].step # "seed",
         calls' = [calls EXCEPT ![c] = k],
         Formed(k), BehindNext(k),
         played' = played, valid' = valid,
         RowFormed',
         fate' \in [Games -> Fates],
         \A g \in Games : Owed(g)' => Owed(g),
         today' \subseteq Games, running' \in BOOLEAN, upsets' \in 0..MaxUpsets,
         \A g \in Games : g <= row'.tip /\ Owed(g)'
           => Settled(g) \/ (k.step = "seed" /\ k.next <= g /\ g <= k.tip)
  PROVE  IInv'
<1>1. calls \in [Calls -> Handler] /\ k \in Handler
  BY DEF IInv, Shape, Formed
<1>2. calls' \in [Calls -> Handler] /\ calls'[c] = k
      /\ \A d \in Calls : d # c => calls'[d] = calls[d]
  BY <1>1
<1>3. \A d \in Calls : Formed(calls[d])'
  BY <1>2 DEF IInv, Shape, Formed
<1>4. Shape'
  BY <1>2, <1>3 DEF IInv, Shape
<1>5. \A g \in Games : Settled(g) => Settled(g)'
  BY <1>2, <1>4, StaysSettled DEF IInv
<1>6. Behind(k)' /\ \A d \in Calls : Behind(calls[d]) => Behind(calls[d])'
  <2>1. Behind(k)'
    <3>1. \A g \in Games : ~Owed(g)' => Settled(g)'
      BY DEF Settled
    <3> QED
      BY <1>5, <3>1 DEF Behind, BehindNext
  <2>2. ASSUME NEW d \in Calls, d # c, Behind(calls[d])
        PROVE  Behind(calls[d])'
    BY <1>2, <1>5, <2>2 DEF Behind
  <2>3. Behind(calls[c])'
    BY <1>2, <2>1 DEF Behind
  <2> QED
    BY <2>1, <2>2, <2>3
<1>7. TipOwesNothing'
  <2> SUFFICES ASSUME NEW g \in Games, g <= row'.tip, Owed(g)'
               PROVE  (g \in PendingSeeds)'
    BY DEF TipOwesNothing
  <2>1. CASE Settled(g)
    BY <1>5, <2>1 DEF Settled
  <2>2. CASE k.step = "seed" /\ k.next <= g /\ g <= k.tip
    BY <1>2, <1>4, <2>2, PendingNext DEF BeingSeeded
  <2> QED
    BY <2>1, <2>2
<1> QED
  BY <1>4, <1>6, <1>7 DEF IInv

(* Most steps of a handler leave the row's tip and the games alone.        *)
LEMMA QuietKeeps ==
  ASSUME IInv, NEW c \in Calls, NEW k,
         calls[c].step # "seed",
         calls' = [calls EXCEPT ![c] = k],
         Formed(k), Behind(k),
         RowFormed', row'.tip = row.tip,
         running' \in BOOLEAN, upsets' \in 0..MaxUpsets,
         UNCHANGED <<played, valid, fate, today>>
  PROVE  IInv'
<1>1. /\ fate' \in [Games -> Fates] /\ today' \subseteq Games
      /\ \A g \in Games : Owed(g)' => Owed(g)
  BY DEF IInv, Shape, Owed
<1>2. \A g \in Games : g <= row'.tip /\ Owed(g)' => Settled(g)
  BY DEF IInv, TipOwesNothing, Settled
<1>3. BehindNext(k)
  BY DEF Behind, BehindNext
<1> QED
  BY <1>1, <1>2, <1>3, HandlerKeeps

(* What a step that leaves a variable alone keeps of it.                   *)
LEMMA SameRow == ASSUME IInv, row' = row, played' = played PROVE RowFormed'
BY DEF IInv, Shape, RowFormed, Row

LEMMA UpsetTyped == ASSUME IInv, Upset \/ upsets' = upsets PROVE upsets' \in 0..MaxUpsets
BY Bounds DEF IInv, Shape, Upset

LEMMA RunningTyped ==
  ASSUME IInv, NEW c \in Calls, running' \in {running, ResetRunning(c), TRUE, FALSE}
  PROVE  running' \in BOOLEAN
BY DEF IInv, Shape, ResetRunning

LEMMA RunningSame == ASSUME IInv, running' = running PROVE running' \in BOOLEAN
BY DEF IInv, Shape
-------------------------------------------------------------------------------
(* Handlers begin.                                                         *)
LEMMA OpenKeeps ==
  ASSUME IInv, NEW c \in Calls, NEW op \in Polls \cup Walks, NEW step \in {"probe", "walk"},
         NEW auth \in 0..MaxAuths, NEW start \in 1..played,
         step = "probe" => op \in Walks,
         op = "baseline" => row.status # "INVALID_AUTH",
         op \in Polls => start <= row.tip,
         Open(c, op, step, auth, start),
         running' \in BOOLEAN, upsets' \in 0..MaxUpsets,
         UNCHANGED <<row, played, valid, fate, today>>
  PROVE  IInv'
<1> DEFINE seen == IF op = "enroll" THEN "none" ELSE row.status
           k == [op |-> op, step |-> step, auth |-> auth, seen |-> seen, start |-> start,
                 tip |-> start, next |-> 0]
<1>1. /\ start \in 0..MaxGames /\ 1 <= start /\ start <= played
      /\ seen \in EnrollmentStatus /\ (op = "baseline" => seen # "INVALID_AUTH")
  BY Bounds DEF IInv, Shape, RowFormed, Row, EnrollmentStatus, Games
<1>2. k \in Handler
  <2> HIDE DEF seen
  <2> QED
    BY <1>1, Bounds DEF Handler
<1>3. Formed(k)
  <2> HIDE DEF seen
  <2>1. op \in {"baseline", "enable"} => seen # "INVALID_AUTH"
    BY <1>1 DEF Polls, Walks
  <2> QED
    BY <1>1, <1>2, <2>1 DEF Formed
<1>4. Behind(k)
  <2>1. \A g \in Games : g <= row.tip => Settled(g)
    BY DEF IInv, TipOwesNothing, Settled
  <2>2. row.tip \in Int /\ Games \subseteq Int
    BY Bounds DEF IInv, Shape, RowFormed, Row, Games
  <2> QED
    BY <1>1, <2>1, <2>2 DEF Behind
<1>5. calls[c].step # "seed" /\ calls' = [calls EXCEPT ![c] = k]
  BY DEF Open
<1>6. RowFormed'
  BY SameRow
<1> HIDE DEF k
<1> QED
  BY <1>3, <1>4, <1>5, <1>6, QuietKeeps

LEMMA RowBounds ==
  ASSUME IInv, row.status # "none"
  PROVE  row.tip \in 1..played /\ row.auth \in 0..MaxAuths /\ row.tip <= row.tip
BY Bounds DEF IInv, Shape, RowFormed, Row, Games

LEMMA UserKeeps ==
  ASSUME IInv, NEW c \in Calls, UserStep(c) \/ Poll(c) \/ Tick(c)
  PROVE  IInv'
<1>1. CASE Enroll(c)
  <2>1. PICK auth \in 0..valid, known \in 1..played : Open(c, "enroll", "probe", auth, known)
    BY <1>1 DEF Enroll
  <2>2. auth \in 0..MaxAuths
    BY Bounds DEF IInv, Shape
  <2>3. UNCHANGED <<row, played, valid, fate, today, running>> /\ Upset
    BY <1>1 DEF Enroll, Request
  <2>4. upsets' \in 0..MaxUpsets /\ running' \in BOOLEAN
    BY <2>3, UpsetTyped, RunningSame
  <2> QED
    BY <2>1, <2>2, <2>3, <2>4, OpenKeeps DEF Polls, Walks
<1>2. CASE Reanchor(c)
  <2>1. PICK known \in 1..played : Open(c, "reanchor", "probe", row.auth, known)
    BY <1>2 DEF Reanchor
  <2>2. row.auth \in 0..MaxAuths
    BY <1>2, RowBounds DEF Reanchor
  <2>3. UNCHANGED <<row, played, valid, fate, today, running>> /\ Upset
    BY <1>2 DEF Reanchor, Request
  <2>4. upsets' \in 0..MaxUpsets /\ running' \in BOOLEAN
    BY <2>3, UpsetTyped, RunningSame
  <2> QED
    BY <2>1, <2>2, <2>3, <2>4, OpenKeeps DEF Polls, Walks
<1>3. CASE Baseline(c)
  <2>1. row.tip \in 1..played /\ row.auth \in 0..MaxAuths
    BY <1>3, RowBounds DEF Baseline, Authorized
  <2>2. UNCHANGED <<row, played, valid, fate, today, running>> /\ Upset
    BY <1>3 DEF Baseline, Request
  <2>3. upsets' \in 0..MaxUpsets /\ running' \in BOOLEAN
    BY <2>2, UpsetTyped, RunningSame
  <2> QED
    BY <1>3, <2>1, <2>2, <2>3, OpenKeeps DEF Baseline, Authorized, Polls, Walks
<1>4. CASE EnableRead(c)
  <2> DEFINE k == [op |-> "enable", step |-> "enable", auth |-> 0, seen |-> row.status,
                   start |-> 0, tip |-> 0, next |-> 0]
  <2>0. row.status \in EnrollmentStatus \ {"INVALID_AUTH"}
    BY <1>4 DEF EnableRead, Authorized, IInv, Shape, RowFormed, Row
  <2>1. Formed(k) /\ Behind(k)
    BY <2>0, Bounds DEF IInv, Shape, Formed, Behind, Handler, Games, Polls, Walks
  <2>2. /\ calls[c].step # "seed" /\ calls' = [calls EXCEPT ![c] = k] /\ Upset
        /\ UNCHANGED <<row, played, valid, fate, today, running>>
    BY <1>4 DEF EnableRead, Open, Request
  <2>3. upsets' \in 0..MaxUpsets /\ running' \in BOOLEAN /\ RowFormed'
    BY <2>2, UpsetTyped, RunningSame, SameRow
  <2> HIDE DEF k
  <2> QED
    BY <2>1, <2>2, <2>3, QuietKeeps
<1>5. CASE Poll(c)
  <2>1. row.tip \in 1..played /\ row.auth \in 0..MaxAuths /\ row.tip <= row.tip
    BY <1>5, RowBounds DEF Poll
  <2>2. UNCHANGED <<row, played, valid, fate, today, running>> /\ Upset
    BY <1>5 DEF Poll, Request
  <2>3. upsets' \in 0..MaxUpsets /\ running' \in BOOLEAN
    BY <2>2, UpsetTyped, RunningSame
  <2> QED
    BY <1>5, <2>1, <2>2, <2>3, OpenKeeps DEF Poll, Polls, Walks
<1>6. CASE Tick(c)
  <2>1. row.tip \in 1..played /\ row.auth \in 0..MaxAuths /\ row.tip <= row.tip
    BY <1>6, RowBounds DEF Tick
  <2>2. UNCHANGED <<row, played, valid, fate, today, upsets>> /\ running' \in BOOLEAN
    BY <1>6 DEF Tick
  <2>3. upsets' \in 0..MaxUpsets
    BY <2>2, UpsetTyped
  <2> QED
    BY <1>6, <2>1, <2>2, <2>3, OpenKeeps DEF Tick, Polls, Walks
<1> QED
  BY <1>1, <1>2, <1>3, <1>4, <1>5, <1>6 DEF UserStep

(* A handler ends; its row may have a new status.                          *)
LEMMA EndKeeps ==
  ASSUME IInv, NEW c \in Calls, calls[c].step # "seed", EndCall(c),
         RowFormed', row'.tip = row.tip,
         running' \in {running, ResetRunning(c)}, Upset \/ upsets' = upsets,
         UNCHANGED <<played, valid, fate, today>>
  PROVE  IInv'
<1>1. Formed(IdleCall) /\ Behind(IdleCall)
  BY IdleFormed DEF IInv
<1>2. upsets' \in 0..MaxUpsets /\ running' \in BOOLEAN
  BY UpsetTyped, RunningTyped
<1>3. calls' = [calls EXCEPT ![c] = IdleCall]
  BY DEF EndCall
<1> QED
  BY <1>1, <1>2, <1>3, QuietKeeps

LEMMA Marked ==
  ASSUME IInv, NEW status \in {"ACTIVE", "DISABLED", "INVALID_AUTH", "CHAIN_BROKEN"},
         row.status # "none", row' = [row EXCEPT !.status = status], played' = played
  PROVE  RowFormed' /\ row'.tip = row.tip
BY DEF IInv, Shape, RowFormed, Row, EnrollmentStatus

LEMMA EnableWriteKeeps ==
  ASSUME IInv, NEW c \in Calls, EnableWrite(c)
  PROVE  IInv'
<1>1. RowFormed' /\ row'.tip = row.tip
  <2>1. CASE row.status = "none"
    BY <2>1, SameRow DEF EnableWrite
  <2>2. CASE row.status # "none"
    BY <2>2, Marked DEF EnableWrite
  <2> QED
    BY <2>1, <2>2
<1> QED
  BY <1>1, EndKeeps DEF EnableWrite

LEMMA CallFailsKeeps ==
  ASSUME IInv, NEW c \in Calls, CallFails(c)
  PROVE  IInv'
<1>1. RowFormed' /\ row'.tip = row.tip
  BY SameRow DEF CallFails
<1> QED
  BY <1>1, EndKeeps DEF CallFails, RunningAfterError

LEMMA ProbeRefusedKeeps ==
  ASSUME IInv, NEW c \in Calls, ProbeRefused(c)
  PROVE  IInv'
<1>1. RowFormed' /\ row'.tip = row.tip
  <2>1. CASE row' = row
    BY <2>1, SameRow DEF ProbeRefused
  <2>2. CASE row' = [row EXCEPT !.status = "INVALID_AUTH"] /\ row.status # "none"
    BY <2>2, Marked DEF ProbeRefused
  <2> QED
    BY <2>1, <2>2 DEF ProbeRefused
<1> QED
  BY <1>1, EndKeeps DEF ProbeRefused

LEMMA WalkRefusedKeeps ==
  ASSUME IInv, NEW c \in Calls, WalkRefused(c)
  PROVE  IInv'
<1>1. RowFormed' /\ row'.tip = row.tip
  <2>1. CASE UNCHANGED row
    BY <2>1, SameRow DEF WalkRefused
  <2>2. CASE ~UNCHANGED row
    <3>1. PICK status \in {"INVALID_AUTH", "CHAIN_BROKEN"} :
            row.status # "none" /\ row' = [row EXCEPT !.status = status]
      BY <2>2 DEF WalkRefused
    <3> QED
      BY <3>1, Marked DEF WalkRefused
  <2> QED
    BY <2>1, <2>2
<1> QED
  BY <1>1, EndKeeps DEF WalkRefused

LEMMA HandlerOf ==
  ASSUME IInv, NEW c \in Calls
  PROVE  calls[c] \in Handler /\ Formed(calls[c]) /\ Behind(calls[c])
BY DEF IInv, Shape

LEMMA ProbeOKKeeps ==
  ASSUME IInv, NEW c \in Calls, ProbeOK(c)
  PROVE  IInv'
<1> DEFINE k == [calls[c] EXCEPT !.step = "walk"]
<1>1. calls[c] \in Handler /\ Formed(calls[c]) /\ Behind(calls[c]) /\ calls[c].step = "probe"
  BY HandlerOf DEF ProbeOK
<1>2. Formed(k)
  BY <1>1 DEF Formed, Handler
<1>3. Behind(k)
  BY <1>1 DEF Behind, Handler
<1>4. /\ calls' = [calls EXCEPT ![c] = k]
      /\ UNCHANGED <<played, valid, row, fate, today, running, upsets>>
  BY DEF ProbeOK, Go
<1>5. RowFormed' /\ running' \in BOOLEAN /\ upsets' \in 0..MaxUpsets
  BY <1>4, SameRow, RunningSame, UpsetTyped
<1> HIDE DEF k
<1> QED
  BY <1>1, <1>2, <1>3, <1>4, <1>5, QuietKeeps

LEMMA WalkNextKeeps ==
  ASSUME IInv, NEW c \in Calls, WalkNext(c)
  PROVE  IInv'
<1> DEFINE k == [calls[c] EXCEPT !.tip = calls[c].tip + 1]
<1>1. calls[c] \in Handler /\ Formed(calls[c]) /\ Behind(calls[c]) /\ calls[c].step = "walk"
  BY HandlerOf DEF WalkNext
<1>2. calls[c].tip < played /\ played \in 1..MaxGames
  BY DEF WalkNext, Answers, IInv, Shape, Games
<1>3. Formed(k)
  BY <1>1, <1>2, Bounds DEF Formed, Handler
<1>4. Behind(k)
  BY <1>1 DEF Behind, Handler
<1>5. /\ calls' = [calls EXCEPT ![c] = k]
      /\ UNCHANGED <<played, valid, row, fate, today, running, upsets>>
  BY DEF WalkNext
<1>6. RowFormed' /\ running' \in BOOLEAN /\ upsets' \in 0..MaxUpsets
  BY <1>5, SameRow, RunningSame, UpsetTyped
<1> HIDE DEF k
<1> QED
  BY <1>1, <1>3, <1>4, <1>5, <1>6, QuietKeeps

LEMMA WalkStopKeeps ==
  ASSUME IInv, NEW c \in Calls, WalkEnds(c) \/ WalkSoftError(c)
  PROVE  IInv'
<1> DEFINE h == calls[c]
           auth == IF h.op = "enroll" THEN h.auth ELSE 0
           k == [h EXCEPT !.step = AfterWalk(c), !.next = FirstToEnqueue(c), !.auth = auth]
<1>1. h \in Handler /\ Formed(h) /\ Behind(h) /\ h.step = "walk"
  BY HandlerOf DEF WalkEnds, WalkSoftError, StopWalk
<1>2. /\ h.op \in Polls \cup Walks /\ 1 <= h.start /\ h.start <= h.tip /\ h.tip <= played
      /\ h.start \in Nat /\ h.tip \in Nat /\ h.tip <= MaxGames /\ h.auth \in 0..MaxAuths
  BY <1>1, Bounds DEF Formed, Handler
<1>3. /\ FirstToEnqueue(c) \in 0..(MaxGames + 1)
      /\ h.op \in Walks => FirstToEnqueue(c) \in 1..h.tip
      /\ h.op \in Polls => FirstToEnqueue(c) \in (h.start + 1)..(h.tip + 1)
      /\ h.op \in Polls /\ h.start # h.tip => FirstToEnqueue(c) <= h.tip
      /\ h.op \in Polls /\ h.tip - h.start <= SeedCount => FirstToEnqueue(c) = h.start + 1
      /\ h.op \in Polls /\ h.tip - h.start > SeedCount => FirstToEnqueue(c) = h.tip - SeedCount + 1
  BY <1>2, Bounds DEF FirstToEnqueue, Polls, Walks
<1>4. /\ h.op \in Walks => AfterWalk(c) = "store"
      /\ h.op \in Polls => AfterWalk(c) \in {"check", "finish"}
      /\ h.op \in Polls /\ AfterWalk(c) = "check" => h.start # h.tip
  BY <1>2 DEF AfterWalk, Walked, Polls, Walks
<1>5. /\ k.op = h.op /\ k.start = h.start /\ k.tip = h.tip
      /\ k.step = AfterWalk(c) /\ k.next = FirstToEnqueue(c) /\ k.auth = auth
      /\ k.seen = h.seen /\ (h.op \in {"baseline", "enable"} => h.seen # "INVALID_AUTH")
  BY <1>1 DEF Handler, Formed
<1>6. k \in Handler
  <2>1. auth \in 0..MaxAuths /\ AfterWalk(c) \in {"store", "check", "finish"}
    BY <1>2, <1>4, Bounds
  <2> QED
    BY <1>1, <1>3, <2>1 DEF Handler
<1>7. /\ calls' = [calls EXCEPT ![c] = k]
      /\ UNCHANGED <<played, valid, row, fate, today, running>>
      /\ Upset \/ upsets' = upsets
  BY DEF WalkEnds, WalkSoftError, StopWalk
<1> HIDE DEF k, h, auth
<1>8. Formed(k)
  BY <1>2, <1>3, <1>4, <1>5, <1>6, Bounds DEF Formed, Polls, Walks
<1>9. Behind(k)
  <2> SUFFICES ASSUME NEW g \in Games, k.step \in {"check", "finish"}, h.op \in Polls,
                      g < k.next
               PROVE  \/ Settled(g)
                      \/ g + SeedCount <= k.tip /\ k.start + SeedCount < k.tip
    BY <1>1, <1>2, <1>4, <1>5 DEF Behind, Polls, Walks
  <2>1. g \in Nat /\ (g <= h.start => Settled(g))
    BY <1>1, Bounds DEF Behind, Games
  <2>2. CASE h.tip - h.start <= SeedCount
    BY <1>2, <1>3, <1>5, <2>1, <2>2
  <2>3. CASE h.tip - h.start > SeedCount
    BY <1>2, <1>3, <1>5, <2>1, <2>3, Bounds
  <2> QED
    BY <1>2, <2>2, <2>3, Bounds
<1>10. RowFormed' /\ running' \in BOOLEAN /\ upsets' \in 0..MaxUpsets
  BY <1>7, SameRow, RunningSame, UpsetTyped
<1>11. calls[c].step # "seed"
  BY <1>1 DEF h
<1> QED
  BY <1>7, <1>8, <1>9, <1>10, <1>11, QuietKeeps
-------------------------------------------------------------------------------
(* Handlers settle games.                                                  *)

LEMMA SkipSettles ==
  ASSUME IInv, NEW S, fate' = Skip(S)
  PROVE  /\ fate' \in [Games -> Fates]
         /\ \A g \in Games : Owed(g)' => Owed(g)
         /\ \A g \in Games : g \in S => ~Owed(g)'
BY DEF IInv, Shape, Skip, Owed, Fates

LEMMA EnqueueSettles ==
  ASSUME IInv, NEW g \in Games, NEW kind \in {"seed", "poll"}, EnqueueAs(g, kind)
  PROVE  /\ fate' \in [Games -> Fates] /\ today' \subseteq Games
         /\ \A h \in Games : Owed(h)' => Owed(h)
         /\ ~Owed(g)'
BY DEF IInv, Shape, EnqueueAs, Enqueued, Owed, Fates

LEMMA StoreKeeps ==
  ASSUME IInv, NEW c \in Calls, Store(c)
  PROVE  IInv'
<1> DEFINE h == calls[c]
           k == [h EXCEPT !.step = "seed", !.auth = 0, !.start = h.tip]
<1>1. h \in Handler /\ Formed(h) /\ Behind(h) /\ h.step = "store"
  BY HandlerOf DEF Store
<1>2. /\ k \in Handler /\ k.op = h.op /\ k.start = h.tip /\ k.tip = h.tip
      /\ k.step = "seed" /\ k.next = h.next /\ k.seen = h.seen
  <2> HIDE DEF h
  <2>1. 0 \in 0..MaxAuths /\ h.tip \in 0..MaxGames
    BY <1>1, Bounds DEF Handler
  <2>2. k \in Handler
    BY <1>1, <2>1 DEF Handler
  <2> QED
    BY <1>1, <2>2 DEF Handler
<1>3. /\ h.op \in Walks /\ 1 <= h.next /\ h.next <= h.tip /\ h.tip <= played
      /\ h.next \in Nat /\ h.tip \in Nat /\ h.tip \in 0..MaxGames /\ h.auth \in 0..MaxAuths
  BY <1>1, Bounds DEF Formed, Handler
<1>11. h.op \in {"baseline", "enable"} => h.seen # "INVALID_AUTH"
  BY <1>1 DEF Formed
<1>4. /\ calls' = [calls EXCEPT ![c] = k]
      /\ fate' = Skip(1..(h.next - 1))
      /\ UNCHANGED <<played, valid, today, running, upsets>>
  BY DEF Store
<1>5. RowFormed' /\ row'.tip = h.tip
  <2>1. CASE row' = [status |-> "ACTIVE", auth |-> h.auth, tip |-> h.tip]
    BY <1>3, <1>4, <2>1 DEF RowFormed, Row, EnrollmentStatus
  <2>2. CASE row' = [row EXCEPT !.status = "ACTIVE", !.tip = h.tip]
    <3> HIDE DEF h, k
    <3>1. row \in Row /\ played' = played
      BY <1>4 DEF IInv, Shape, RowFormed
    <3>2. row' \in Row /\ row'.tip = h.tip
      BY <1>3, <2>2, <3>1 DEF Row, EnrollmentStatus
    <3> QED
      BY <1>3, <3>1, <3>2 DEF RowFormed
  <2> QED
    BY <2>1, <2>2 DEF Store
<1> HIDE DEF k
<1>6. Formed(k)
  BY <1>2, <1>3, <1>11 DEF Formed
<1>7. BehindNext(k)
  BY <1>2, <1>3 DEF BehindNext, Polls, Walks
<1>8. /\ fate' \in [Games -> Fates] /\ \A g \in Games : Owed(g)' => Owed(g)
      /\ \A g \in Games : g \in 1..(h.next - 1) => ~Owed(g)'
  BY <1>4, SkipSettles
<1>9. \A g \in Games : g <= row'.tip /\ Owed(g)'
        => Settled(g) \/ (k.step = "seed" /\ k.next <= g /\ g <= k.tip)
  BY <1>2, <1>3, <1>5, <1>8, Bounds DEF Games
<1>10. /\ today' \subseteq Games /\ running' \in BOOLEAN /\ upsets' \in 0..MaxUpsets
       /\ played' = played /\ valid' = valid /\ calls[c].step # "seed"
  BY <1>1, <1>4, RunningSame, UpsetTyped DEF IInv, Shape
<1> HIDE DEF h
<1> QED
  BY <1>4, <1>5, <1>6, <1>7, <1>8, <1>9, <1>10, HandlerKeeps

LEMMA CheckPassesKeeps ==
  ASSUME IInv, NEW c \in Calls, CheckPasses(c)
  PROVE  IInv'
<1> DEFINE k == [calls[c] EXCEPT !.step = "enqueue"]
<1>1. calls[c] \in Handler /\ Formed(calls[c]) /\ Behind(calls[c]) /\ calls[c].step = "check"
  BY HandlerOf DEF CheckPasses
<1>2. Formed(k)
  BY <1>1 DEF Formed, Handler
<1>3. Behind(k)
  BY <1>1 DEF Behind, Handler
<1>4. /\ calls' = [calls EXCEPT ![c] = k]
      /\ UNCHANGED <<played, valid, row, fate, today, running, upsets>>
  BY DEF CheckPasses, Go
<1>5. RowFormed' /\ running' \in BOOLEAN /\ upsets' \in 0..MaxUpsets
  BY <1>4, SameRow, RunningSame, UpsetTyped
<1> HIDE DEF k
<1> QED
  BY <1>1, <1>2, <1>3, <1>4, <1>5, QuietKeeps

LEMMA CappedKeeps ==
  ASSUME IInv, NEW c \in Calls, Capped(c)
  PROVE  IInv'
<1> DEFINE k == [calls[c] EXCEPT !.step = "finish"]
<1>1. calls[c] \in Handler /\ Formed(calls[c]) /\ Behind(calls[c]) /\ calls[c].step = "check"
  BY HandlerOf DEF Capped
<1>2. Formed(k)
  BY <1>1 DEF Formed, Handler
<1>3. BehindNext(k)
  BY <1>1 DEF Behind, BehindNext, Handler
<1>4. /\ calls' = [calls EXCEPT ![c] = k]
      /\ UNCHANGED <<played, valid, row, today, running, upsets>>
  BY DEF Capped, Go
<1>5. RowFormed' /\ running' \in BOOLEAN /\ upsets' \in 0..MaxUpsets /\ today' \subseteq Games
  BY <1>4, SameRow, RunningSame, UpsetTyped DEF IInv, Shape
<1>6. fate' \in [Games -> Fates] /\ \A g \in Games : Owed(g)' => Owed(g)
  BY DEF IInv, Shape, Capped, Owed, Fates
<1>7. \A g \in Games : g <= row'.tip /\ Owed(g)' => Settled(g)
  BY <1>4, <1>6 DEF IInv, TipOwesNothing, Settled
<1> HIDE DEF k
<1> QED
  BY <1>1, <1>2, <1>3, <1>4, <1>5, <1>6, <1>7, HandlerKeeps

(* The game enqueued is settled: the poll goes past it.                    *)
LEMMA EnqueueKeeps ==
  ASSUME IInv, NEW c \in Calls, Enqueue(c)
  PROVE  IInv'
<1> DEFINE h == calls[c]
           k == [h EXCEPT !.step = IF h.next = h.tip THEN "finish" ELSE "check",
                          !.next = h.next + 1]
<1>1. h \in Handler /\ Formed(h) /\ Behind(h) /\ h.step = "enqueue"
  BY HandlerOf DEF Enqueue
<1>2. /\ h.op \in Polls /\ 1 <= h.start /\ h.start < h.next /\ h.next <= h.tip
      /\ h.tip <= played /\ h.next \in Nat /\ h.tip \in 0..MaxGames /\ h.start \in Nat
      /\ h.tip \in Nat
  BY <1>1, Bounds DEF Formed, Handler
<1>3. /\ k \in Handler /\ k.op = h.op /\ k.start = h.start /\ k.tip = h.tip
      /\ k.step = (IF h.next = h.tip THEN "finish" ELSE "check") /\ k.next = h.next + 1
  <2> HIDE DEF h
  <2>1. h.next + 1 \in 0..(MaxGames + 1)
    BY <1>1, <1>2, Bounds DEF Handler
  <2>2. k \in Handler
    BY <1>1, <2>1 DEF Handler
  <2> QED
    BY <1>1, <2>2 DEF Handler
<1>4. /\ EnqueueAs(h.next, "poll") /\ calls' = [calls EXCEPT ![c] = k]
      /\ UNCHANGED <<played, valid, row, running, upsets>>
  BY DEF Enqueue
<1> HIDE DEF k
<1>5. PICK n \in Games : n = h.next
  BY <1>2, Bounds DEF Games
<1>6. /\ fate' \in [Games -> Fates] /\ today' \subseteq Games
      /\ \A g \in Games : Owed(g)' => Owed(g)
      /\ ~Owed(n)'
  BY <1>4, <1>5, EnqueueSettles
<1>7. Formed(k)
  BY <1>2, <1>3 DEF Formed, Polls, Walks
<1>8. RowFormed' /\ running' \in BOOLEAN /\ upsets' \in 0..MaxUpsets
  BY <1>4, SameRow, RunningSame, UpsetTyped
<1>9. BehindNext(k)
  <2>1. \A g \in Games : g < k.next => g < h.next \/ g = n
    BY <1>2, <1>3, <1>5, Bounds DEF Games
  <2> QED
    BY <1>1, <1>3, <1>6, <2>1 DEF Behind, BehindNext
<1>10. \A g \in Games : g <= row'.tip /\ Owed(g)' => Settled(g)
  BY <1>4, <1>6 DEF IInv, TipOwesNothing, Settled
<1> QED
  BY <1>1, <1>4, <1>6, <1>7, <1>8, <1>9, <1>10, HandlerKeeps

LEMMA FinishKeeps ==
  ASSUME IInv, NEW c \in Calls, Finish(c)
  PROVE  IInv'
<1> DEFINE h == calls[c]
<1>1. h \in Handler /\ Formed(h) /\ Behind(h) /\ h.step = "finish"
  BY HandlerOf DEF Finish
<1>2. /\ 1 <= h.start /\ h.start < h.next /\ h.next <= h.tip + 1 /\ h.tip <= played
      /\ h.next \in Nat /\ h.tip \in Nat /\ h.start \in Nat /\ h.tip \in 0..MaxGames
  BY <1>1, Bounds DEF Formed, Handler
<1>3. /\ row' = [row EXCEPT !.tip = h.next - 1] /\ row.status # "none"
      /\ UNCHANGED <<played, valid, today, upsets>>
      /\ running' = ResetRunning(c)
      /\ calls' = [calls EXCEPT ![c] = IdleCall]
  BY DEF Finish, SettledTip, EndCall
<1>4. IF h.tip - h.start > SeedCount THEN fate' = Skip(1..(h.tip - SeedCount)) ELSE fate' = fate
  BY DEF Finish, Walked
<1> HIDE DEF h
<1>5. RowFormed' /\ row'.tip = h.next - 1
  <2>1. row \in Row /\ played' = played
    BY <1>3 DEF IInv, Shape, RowFormed
  <2>2. h.next - 1 \in 0..MaxGames /\ h.next - 1 <= played /\ 1 <= h.next - 1
    BY <1>2, Bounds DEF IInv, Shape, Games
  <2>3. row' \in Row /\ row'.tip = h.next - 1
    BY <1>3, <2>1, <2>2 DEF Row
  <2> QED
    BY <2>1, <2>2, <2>3 DEF RowFormed
<1>6. /\ fate' \in [Games -> Fates] /\ \A g \in Games : Owed(g)' => Owed(g)
      /\ h.tip - h.start > SeedCount => \A g \in Games : g \in 1..(h.tip - SeedCount) => ~Owed(g)'
  <2>1. CASE h.tip - h.start > SeedCount
    BY <1>4, <2>1, SkipSettles
  <2>2. CASE ~(h.tip - h.start > SeedCount)
    BY <1>4, <2>2 DEF IInv, Shape, Owed
  <2> QED
    BY <2>1, <2>2
<1>7. \A g \in Games : g <= row'.tip /\ Owed(g)' => Settled(g)
  <2> SUFFICES ASSUME NEW g \in Games, g <= h.next - 1, Owed(g)'
               PROVE  Settled(g)
    BY <1>5
  <2>1. g \in Nat /\ 1 <= g /\ g < h.next
    BY <1>2, Bounds DEF Games
  <2>2. Settled(g) \/ (g + SeedCount <= h.tip /\ h.start + SeedCount < h.tip)
    BY <1>1, <2>1 DEF Behind
  <2> QED
    BY <1>2, <1>6, <2>1, <2>2, Bounds
<1>8. Formed(IdleCall) /\ BehindNext(IdleCall)
  BY IdleFormed DEF IInv, BehindNext, IdleCall, Polls
<1>9. running' \in BOOLEAN /\ upsets' \in 0..MaxUpsets /\ today' \subseteq Games
  BY <1>3, RunningTyped, UpsetTyped DEF IInv, Shape
<1>10. calls[c].step # "seed"
  BY <1>1 DEF h
<1> QED
  BY <1>3, <1>5, <1>6, <1>7, <1>8, <1>9, <1>10, HandlerKeeps
-------------------------------------------------------------------------------
(* Steps that leave no game unsettled keep the invariant when the tip      *)
(* stays, or goes with its row, and polls stay as they are, or end.        *)
LEMMA DebtKeeps ==
  ASSUME IInv, Shape',
         \A g \in Games : Settled(g) => Settled(g)',
         row'.tip <= row.tip,
         \A d \in Calls : calls'[d] = calls[d] \/ Behind(calls'[d])
  PROVE  IInv'
<1>1. TipOwesNothing'
  <2> SUFFICES ASSUME NEW g \in Games, g <= row'.tip, Owed(g)'
               PROVE  (g \in PendingSeeds)'
    BY DEF TipOwesNothing
  <2>1. row.tip \in Int /\ row'.tip \in Int /\ g \in Int
    BY Bounds DEF IInv, Shape, RowFormed, Row, Games
  <2>2. Settled(g)
    BY <2>1 DEF IInv, TipOwesNothing, Settled
  <2> QED
    BY <2>2 DEF Settled
<1>2. ASSUME NEW d \in Calls
      PROVE  Behind(calls[d])'
  <2>1. Behind(calls'[d])
    BY DEF IInv
  <2> QED
    BY <2>1 DEF Behind
<1> QED
  BY <1>1, <1>2 DEF IInv

LEMMA SeedStepKeeps ==
  ASSUME IInv, NEW c \in Calls, calls[c].step = "seed", AfterSeed(c),
         NEW n \in Games, n = calls[c].next,
         fate' \in [Games -> Fates], today' \subseteq Games,
         \A g \in Games : Owed(g)' => Owed(g),
         ~Owed(n)',
         upsets' \in 0..MaxUpsets,
         UNCHANGED <<played, valid, row, running>>
  PROVE  IInv'
<1> DEFINE h == calls[c]
           k == IF h.next = h.tip THEN IdleCall ELSE [h EXCEPT !.next = h.next + 1]
<1>1. h \in Handler /\ Formed(h) /\ h.step = "seed"
  BY HandlerOf
<1>2. /\ h.op \in Walks /\ 1 <= h.start /\ 1 <= h.next /\ h.next <= h.tip /\ h.start <= h.tip
      /\ h.tip <= played /\ h.next \in Nat /\ h.tip \in Nat /\ h.tip \in 0..MaxGames
      /\ h.start \in Nat
  BY <1>1, Bounds DEF Formed, Handler
<1>14. h.op \in {"baseline", "enable"} => h.seen # "INVALID_AUTH"
  BY <1>1 DEF Formed
<1>3. h.next # h.tip
        => /\ k \in Handler /\ k.op = h.op /\ k.start = h.start /\ k.tip = h.tip
           /\ k.step = "seed" /\ k.next = h.next + 1 /\ k.seen = h.seen
  <2> HIDE DEF h
  <2> SUFFICES ASSUME h.next # h.tip
               PROVE  /\ k \in Handler /\ k.op = h.op /\ k.start = h.start /\ k.tip = h.tip
                      /\ k.step = "seed" /\ k.next = h.next + 1 /\ k.seen = h.seen
    OBVIOUS
  <2>1. h.next + 1 \in 0..(MaxGames + 1)
    BY <1>1, <1>2, Bounds DEF Handler
  <2>2. k = [h EXCEPT !.next = h.next + 1]
    OBVIOUS
  <2>3. k \in Handler
    BY <1>1, <2>1, <2>2 DEF Handler
  <2> QED
    BY <1>1, <2>2, <2>3 DEF Handler
<1>4. h.next = h.tip => k = IdleCall
  OBVIOUS
<1>5. Formed(IdleCall) /\ Behind(IdleCall)
  BY IdleFormed DEF IInv
<1>6. calls' = [calls EXCEPT ![c] = k]
  BY DEF AfterSeed
<1> HIDE DEF k
<1>7. Formed(k) /\ Behind(k)
  <2>1. CASE h.next = h.tip
    BY <1>4, <1>5, <2>1
  <2>2. CASE h.next # h.tip
    <3>1. Formed(k)
      BY <1>2, <1>3, <1>14, <2>2 DEF Formed
    <3>2. Behind(k)
      BY <1>2, <1>3, <2>2 DEF Behind, Polls, Walks
    <3> QED
      BY <3>1, <3>2
  <2> QED
    BY <2>1, <2>2
<1>8. calls \in [Calls -> Handler] /\ k \in Handler
  BY <1>7 DEF IInv, Shape, Formed
<1>9. calls' \in [Calls -> Handler] /\ calls'[c] = k
      /\ \A d \in Calls : d # c => calls'[d] = calls[d]
  BY <1>6, <1>8
<1>10. Shape'
  <2>1. \A d \in Calls : Formed(calls[d])'
    BY <1>7, <1>9 DEF IInv, Shape, Formed
  <2>2. RowFormed'
    BY SameRow
  <2> QED
    BY <1>9, <2>1, <2>2 DEF IInv, Shape
<1>11. \A g \in Games : Settled(g) => Settled(g)'
  <2> SUFFICES ASSUME NEW g \in Games, Settled(g), Owed(g)'
               PROVE  BeingSeeded(g)'
    BY <1>10, PendingNext DEF Settled
  <2>1. g \in PendingSeeds /\ g # n
    BY DEF Settled
  <2>2. PICK d \in Calls : calls[d].step = "seed" /\ calls[d].next <= g /\ g <= calls[d].tip
    BY <2>1, Pending DEF IInv, BeingSeeded
  <2>3. CASE d # c
    BY <1>9, <2>2, <2>3 DEF BeingSeeded
  <2>4. CASE d = c
    <3>1. h.next < g /\ g <= h.tip /\ g \in Nat
      BY <1>2, <2>1, <2>2, <2>4, Bounds DEF Games
    <3>2. k.step = "seed" /\ k.next <= g /\ g <= k.tip
      BY <1>2, <1>3, <3>1
    <3> QED
      BY <1>9, <3>2 DEF BeingSeeded
  <2> QED
    BY <2>3, <2>4
<1>12. row'.tip <= row.tip
  BY Bounds DEF IInv, Shape, RowFormed, Row
<1>13. \A d \in Calls : calls'[d] = calls[d] \/ Behind(calls'[d])
  BY <1>7, <1>9
<1> QED
  BY <1>10, <1>11, <1>12, <1>13, DebtKeeps

LEMMA SeedKeeps ==
  ASSUME IInv, NEW c \in Calls, Seed(c) \/ SeedFails(c)
  PROVE  IInv'
<1>1. calls[c].step = "seed" /\ AfterSeed(c) /\ UNCHANGED <<played, valid, row, running>>
      /\ (Upset \/ upsets' = upsets)
  BY DEF Seed, SeedFails
<1>2. PICK n \in Games : n = calls[c].next
  <2>1. Formed(calls[c])
    BY HandlerOf
  <2> QED
    BY <1>1, <2>1, Bounds DEF Formed, Handler, Games
<1>3. /\ fate' \in [Games -> Fates] /\ today' \subseteq Games
      /\ \A g \in Games : Owed(g)' => Owed(g)
      /\ ~Owed(n)'
  <2>1. CASE Seed(c)
    BY <1>2, <2>1, EnqueueSettles DEF Seed
  <2>2. CASE SeedFails(c)
    BY <1>2, <2>2, SkipSettles DEF SeedFails, IInv, Shape
  <2> QED
    BY <2>1, <2>2
<1>4. upsets' \in 0..MaxUpsets
  BY <1>1, UpsetTyped
<1> QED
  BY <1>1, <1>2, <1>3, <1>4, SeedStepKeeps

(* A restart takes the seeds under way for skipped.                        *)
LEMMA RestartKeeps ==
  ASSUME IInv, Restart
  PROVE  IInv'
<1>1. /\ calls' = [c \in Calls |-> IdleCall] /\ fate' = Skip(PendingSeeds)
      /\ running' = FALSE /\ Upset /\ UNCHANGED <<played, valid, row, today>>
  BY DEF Restart
<1>2. Formed(IdleCall) /\ Behind(IdleCall)
  BY IdleFormed DEF IInv
<1>3. /\ fate' \in [Games -> Fates]
      /\ \A g \in Games : Owed(g)' => Owed(g)
      /\ \A g \in Games : g \in PendingSeeds => ~Owed(g)'
  BY <1>1, SkipSettles
<1>4. RowFormed' /\ upsets' \in 0..MaxUpsets
  BY <1>1, SameRow, UpsetTyped
<1>5. \A d \in Calls : calls'[d] = IdleCall
  BY <1>1
<1>6. Shape'
  <2>1. calls' \in [Calls -> Handler]
    BY <1>1, <1>2 DEF Formed
  <2>2. \A d \in Calls : Formed(calls[d])'
    BY <1>1, <1>2, <1>5 DEF Formed
  <2> QED
    BY <1>1, <1>3, <1>4, <2>1, <2>2 DEF IInv, Shape
<1>7. \A g \in Games : Settled(g) => Settled(g)'
  BY <1>3 DEF Settled
<1>8. row'.tip <= row.tip
  BY <1>1, Bounds DEF IInv, Shape, RowFormed, Row
<1> QED
  BY <1>2, <1>5, <1>6, <1>7, <1>8, DebtKeeps

(* The player and the world.                                               *)
LEMMA WorldKeeps ==
  ASSUME IInv, Disable \/ Delete \/ Play \/ NewDay \/ NewAuth \/ UNCHANGED vars
  PROVE  IInv'
<1>1. UNCHANGED <<calls, fate, running>> /\ (Upset \/ upsets' = upsets)
  BY DEF Disable, Delete, Play, NewDay, NewAuth, Request, vars
<1>2. played' \in Games /\ played <= played' /\ valid' \in 1..MaxAuths /\ today' \subseteq Games
  <2>1. played \in Games /\ valid \in 1..MaxAuths /\ today \subseteq Games
    BY DEF IInv, Shape
  <2>2. CASE Play
    BY <2>1, <2>2, Bounds DEF Play, Games
  <2>3. CASE NewAuth
    BY <2>1, <2>3, Bounds DEF NewAuth, Games
  <2> QED
    BY <2>1, <2>2, <2>3, Bounds DEF Disable, Delete, NewDay, Request, vars, Games
<1>3. RowFormed' /\ row'.tip <= row.tip
  <2>1. CASE Disable
    BY <2>1, Marked, Bounds DEF Disable, Request, IInv, Shape, RowFormed, Row
  <2>2. CASE Delete
    BY <1>2, <2>2, Bounds DEF Delete, NoRow, EnrollmentStatus, IInv, Shape, RowFormed, Row, Games
  <2>3. CASE row' = row
    BY <1>2, <2>3, Bounds DEF IInv, Shape, RowFormed, Row, Games
  <2> QED
    BY <2>1, <2>2, <2>3 DEF Play, NewDay, NewAuth, vars
<1>4. upsets' \in 0..MaxUpsets
  BY <1>1, UpsetTyped
<1>5. Shape'
  <2>1. ASSUME NEW d \in Calls
        PROVE  Formed(calls[d])'
    <3>1. Formed(calls[d]) /\ calls[d].tip \in Int /\ played \in Int /\ played' \in Int
      BY <1>2, HandlerOf, Bounds DEF Handler, IInv, Shape, Games
    <3> QED
      BY <1>1, <1>2, <3>1 DEF Formed
  <2> QED
    BY <1>1, <1>2, <1>3, <1>4, <2>1 DEF IInv, Shape
<1>6. \A g \in Games : Settled(g) => Settled(g)'
  BY <1>1 DEF Settled, Owed, PendingSeeds
<1> QED
  BY <1>1, <1>3, <1>5, <1>6, DebtKeeps

LEMMA StepIInv == IInv /\ [Next]_vars => IInv'
<1> SUFFICES ASSUME IInv, [Next]_vars
             PROVE  IInv'
  OBVIOUS
<1>1. ASSUME NEW c \in Calls, WalkStep(c) \/ SettleStep(c)
      PROVE  IInv'
  BY <1>1, ProbeOKKeeps, ProbeRefusedKeeps, WalkNextKeeps, WalkStopKeeps, WalkRefusedKeeps,
     EnableWriteKeeps, StoreKeeps, SeedKeeps, CheckPassesKeeps, CappedKeeps, EnqueueKeeps,
     FinishKeeps
     DEF WalkStep, SettleStep
<1>2. ASSUME NEW c \in Calls,
             \/ UserStep(c) \/ Poll(c) \/ Tick(c)
             \/ WalkSoftError(c) \/ SeedFails(c) \/ CallFails(c)
      PROVE  IInv'
  BY <1>2, UserKeeps, WalkStopKeeps, SeedKeeps, CallFailsKeeps
<1> QED
  BY <1>1, <1>2, RestartKeeps, WorldKeeps DEF Next

LEMMA SpecIInv == Spec => []IInv
BY InitIInv, StepIInv, PTL DEF Spec

(* TypeCorrect: the variables keep their types, and no handler or row ever *)
(* gets past the games that were played.                                   *)
THEOREM TypeCorrect == Spec => []TypeOK
<1>1. IInv => TypeOK
  BY ShapeIsType DEF IInv
<1> QED
  BY <1>1, SpecIInv, PTL

(* TipOwesNothing: no interleaving of enrollments, re-anchors, baselines   *)
(* and polls moves the tip past a game still owed to the player            *)
(* (match-history.service.ts:546-550), whatever the caps and page limits.  *)
THEOREM TipsOweNothing == Spec => []TipOwesNothing
<1>1. IInv => TipOwesNothing
  BY DEF IInv
<1> QED
  BY <1>1, SpecIInv, PTL
-------------------------------------------------------------------------------
(* The daily cap.  Jobs created by polls today, and polls that are about   *)
(* to create one: a look that passes finds room for one more than the jobs *)
(* there are, and nothing else adds to the two.                            *)
PolledToday == {g \in today : fate[g] = "poll"}
Creating == {c \in Calls : calls[c].step = "enqueue"}

LEMMA CapFinite ==
  ASSUME Shape
  PROVE  /\ IsFiniteSet(today) /\ IsFiniteSet(PolledToday) /\ IsFiniteSet(Creating)
         /\ Cardinality(PolledToday) <= Cardinality(today)
         /\ Cardinality(Creating) <= Cardinality(Calls)
         /\ {Cardinality(PolledToday), Cardinality(Creating), Cardinality(today),
             Cardinality(Calls)} \subseteq Nat
<1>1. IsFiniteSet(Games)
  BY FS_Interval, Bounds DEF Games
<1>2. IsFiniteSet(today)
  BY <1>1, FS_Subset DEF Shape
<1>3. PolledToday \subseteq today /\ Creating \subseteq Calls
  BY DEF PolledToday, Creating
<1> QED
  BY <1>2, <1>3, FS_Subset, FS_CardinalityType, Bounds

Finite == /\ IsFiniteSet(PolledToday) /\ IsFiniteSet(Creating)
          /\ Cardinality(PolledToday) \in Nat /\ Cardinality(Creating) \in Nat

LEMMA CapFiniteNext == Shape' => Finite'
<1>1. Shape => Finite
  BY CapFinite DEF Finite
<1>2. (Shape => Finite)'
  BY <1>1, PTL
<1> QED
  BY <1>2

CapOf == Cardinality(PolledToday) + Cardinality(Creating) <= MaxPerDay - 1 + Cardinality(Calls)

LEMMA NothingAdded ==
  ASSUME IInv, IInv', CapOf,
         \A g \in Games : g \in today' /\ fate'[g] = "poll" => g \in today /\ fate[g] = "poll",
         \A d \in Calls : calls'[d].step = "enqueue" => calls[d].step = "enqueue"
  PROVE  CapOf'
<1>1. PolledToday' \subseteq PolledToday /\ Creating' \subseteq Creating
  BY DEF IInv, Shape, PolledToday, Creating
<1>2. /\ Cardinality(PolledToday') <= Cardinality(PolledToday)
      /\ Cardinality(Creating') <= Cardinality(Creating)
  BY <1>1, CapFinite, FS_Subset DEF IInv
<1> QED
  BY <1>2, CapFinite, CapFiniteNext, Bounds DEF IInv, CapOf, Finite

LEMMA CheckKeepsCap ==
  ASSUME IInv, IInv', NEW c \in Calls, CheckPasses(c)
  PROVE  CapOf'
<1>1. PolledToday' = PolledToday /\ Cardinality(today) < MaxPerDay
  BY DEF CheckPasses, UnderDailyCap, PolledToday
<1>2. Creating' \subseteq Calls
  BY DEF Creating
<1>3. Cardinality(Creating') <= Cardinality(Calls)
  BY <1>2, FS_Subset, Bounds
<1> QED
  BY <1>1, <1>3, CapFinite, CapFiniteNext, Bounds DEF IInv, CapOf, Finite

LEMMA EnqueueKeepsCap ==
  ASSUME IInv, IInv', CapOf, NEW c \in Calls, Enqueue(c)
  PROVE  CapOf'
<1>1. calls[c].step = "enqueue" /\ calls'[c].step # "enqueue"
      /\ \A d \in Calls : d # c => calls'[d] = calls[d]
  BY DEF Enqueue, IInv, Shape, Handler
<1>2. Creating' = Creating \ {c} /\ c \in Creating
  BY <1>1 DEF Creating
<1>3. Cardinality(Creating') = Cardinality(Creating) - 1
  BY <1>2, CapFinite, FS_RemoveElement DEF IInv
<1>4. PICK n \in Games : EnqueueAs(n, "poll")
  <2>1. Formed(calls[c])
    BY HandlerOf
  <2> QED
    BY <1>1, <2>1, Bounds DEF Enqueue, Formed, Handler, Games
<1>5. PolledToday' \subseteq PolledToday \cup {n}
  BY <1>4 DEF EnqueueAs, PolledToday, IInv, Shape
<1>6. /\ IsFiniteSet(PolledToday \cup {n})
      /\ Cardinality(PolledToday \cup {n}) <= Cardinality(PolledToday) + 1
  <2>1. Cardinality(PolledToday) \in Nat /\ IsFiniteSet(PolledToday)
    BY CapFinite DEF IInv
  <2>2. IsFiniteSet(PolledToday \cup {n})
        /\ Cardinality(PolledToday \cup {n})
             \in {Cardinality(PolledToday), Cardinality(PolledToday) + 1}
    BY <2>1, FS_AddElement
  <2> QED
    BY <2>1, <2>2
<1>7. Cardinality(PolledToday') <= Cardinality(PolledToday \cup {n})
      /\ Cardinality(PolledToday \cup {n}) \in Nat
  BY <1>5, <1>6, FS_Subset, FS_CardinalityType
<1> QED
  BY <1>3, <1>6, <1>7, CapFinite, CapFiniteNext, Bounds DEF IInv, CapOf, Finite

LEMMA OthersAddNothing ==
  ASSUME IInv, [Next]_vars,
         \A c \in Calls : ~CheckPasses(c) /\ ~Enqueue(c)
  PROVE  /\ \A g \in Games : g \in today' /\ fate'[g] = "poll" => g \in today /\ fate[g] = "poll"
         /\ \A d \in Calls : calls'[d].step = "enqueue" => calls[d].step = "enqueue"
<1> USE DEF IInv, Shape, Handler
<1>1. ASSUME NEW c \in Calls, UserStep(c) \/ Poll(c) \/ Tick(c)
      PROVE  /\ UNCHANGED <<today, fate>>
             /\ \A d \in Calls : calls'[d].step = "enqueue" => calls[d].step = "enqueue"
  BY <1>1 DEF UserStep, Enroll, Reanchor, Baseline, EnableRead, Poll, Tick, Open, Request
<1>2. ASSUME NEW c \in Calls,
             ProbeOK(c) \/ ProbeRefused(c) \/ WalkNext(c) \/ WalkRefused(c) \/ EnableWrite(c) \/ CallFails(c)
      PROVE  /\ UNCHANGED <<today, fate>>
             /\ \A d \in Calls : calls'[d].step = "enqueue" => calls[d].step = "enqueue"
  BY <1>2 DEF ProbeOK, ProbeRefused, WalkNext, WalkRefused, EnableWrite, CallFails, Go, EndCall,
              IdleCall
<1>3. ASSUME NEW c \in Calls, WalkEnds(c) \/ WalkSoftError(c)
      PROVE  /\ UNCHANGED <<today, fate>>
             /\ \A d \in Calls : calls'[d].step = "enqueue" => calls[d].step = "enqueue"
  BY <1>3 DEF WalkEnds, WalkSoftError, StopWalk, AfterWalk
<1>4. ASSUME NEW c \in Calls, Store(c) \/ Capped(c) \/ Finish(c)
      PROVE  /\ \A g \in Games : g \in today' /\ fate'[g] = "poll" => g \in today /\ fate[g] = "poll"
             /\ \A d \in Calls : calls'[d].step = "enqueue" => calls[d].step = "enqueue"
  BY <1>4 DEF Store, Capped, Finish, Skip, Go, EndCall, IdleCall
<1>5. ASSUME NEW c \in Calls, Seed(c) \/ SeedFails(c)
      PROVE  /\ \A g \in Games : g \in today' /\ fate'[g] = "poll" => g \in today /\ fate[g] = "poll"
             /\ \A d \in Calls : calls'[d].step = "enqueue" => calls[d].step = "enqueue"
  <2>1. \A d \in Calls : calls'[d].step = "enqueue" => calls[d].step = "enqueue"
    BY <1>5 DEF Seed, SeedFails, AfterSeed, IdleCall
  <2>2. \A g \in Games : g \in today' /\ fate'[g] = "poll" => g \in today /\ fate[g] = "poll"
    BY <1>5 DEF Seed, SeedFails, Skip, EnqueueAs, Enqueued
  <2> QED
    BY <2>1, <2>2
<1>6. ASSUME Disable \/ Delete \/ Play \/ NewDay \/ NewAuth \/ Restart \/ UNCHANGED vars
      PROVE  /\ \A g \in Games : g \in today' /\ fate'[g] = "poll" => g \in today /\ fate[g] = "poll"
             /\ \A d \in Calls : calls'[d].step = "enqueue" => calls[d].step = "enqueue"
  BY <1>6 DEF Disable, Delete, Play, NewDay, NewAuth, Restart, Request, Skip, IdleCall, vars
<1> QED
  BY <1>1, <1>2, <1>3, <1>4, <1>5, <1>6 DEF Next, WalkStep, SettleStep

LEMMA StepCap == IInv /\ IInv' /\ CapOf /\ [Next]_vars => CapOf'
BY NothingAdded, CheckKeepsCap, EnqueueKeepsCap, OthersAddNothing

LEMMA InitCap == Init => CapOf
<1> SUFFICES ASSUME Init
             PROVE  CapOf
  OBVIOUS
<1>1. PolledToday = {} /\ Creating = {}
  BY DEF Init, PolledToday, Creating, IdleCall
<1>2. Cardinality(Calls) \in Nat
  BY Bounds, FS_CardinalityType
<1> QED
  BY <1>1, <1>2, FS_EmptySet, Bounds DEF CapOf

(* DailyCap: polls that overlap exceed the daily cap by at most one job    *)
(* each, since each looks (canAutoEnqueue) before every job it creates.    *)
THEOREM CapHolds == Spec => []DailyCap
<1>1. Spec => []CapOf
  BY InitCap, StepCap, SpecIInv, PTL DEF Spec
<1>2. CapOf => DailyCap
  BY DEF CapOf, DailyCap, PolledToday, Creating
<1> QED
  BY <1>1, <1>2, PTL
-------------------------------------------------------------------------------
(* ReauthRequired: an enrollment marked INVALID_AUTH gets ACTIVE again by  *)
(* credentials past their probe, or by a baseline or an enable that was    *)
(* let in before the mark (match-history.service.ts:142-157, 247-276).     *)
THEOREM ReauthIsRequired == Spec => ReauthRequired
<1> DEFINE Let == \E c \in Calls :
                    /\ calls'[c] # calls[c]
                    /\ \/ calls[c].op \in {"enroll", "reanchor"} /\ calls[c].step = "store"
                       \/ calls[c].op \in {"baseline", "enable"} /\ calls[c].seen # "INVALID_AUTH"
<1>1. ASSUME IInv, [Next]_vars, row.status = "INVALID_AUTH", row'.status = "ACTIVE"
      PROVE  Let
  <2>1. row \in Row /\ calls \in [Calls -> Handler]
    BY <1>1 DEF IInv, Shape, RowFormed
  <2>2. ASSUME NEW c \in Calls, EnableWrite(c)
        PROVE  Let
    <3>1. Formed(calls[c]) /\ calls[c].step = "enable"
      BY <1>1, <2>2, HandlerOf DEF EnableWrite
    <3>2. calls'[c] # calls[c]
      BY <2>1, <2>2, <3>1 DEF EnableWrite, EndCall, IdleCall
    <3> QED
      BY <3>1, <3>2 DEF Formed
  <2>3. ASSUME NEW c \in Calls, Store(c)
        PROVE  Let
    <3>1. Formed(calls[c]) /\ calls[c].step = "store" /\ calls[c] \in Handler
      BY <1>1, <2>3, HandlerOf DEF Store
    <3>2. calls'[c].step = "seed"
      BY <2>1, <2>3, <3>1 DEF Store, Handler
    <3> QED
      BY <3>1, <3>2 DEF Formed, Walks
  <2>4. ASSUME NEW c \in Calls,
               ProbeRefused(c) \/ WalkRefused(c) \/ Finish(c)
        PROVE  FALSE
    <3>1. row'.status \in {row.status, "INVALID_AUTH", "CHAIN_BROKEN"}
      BY <2>1, <2>4 DEF ProbeRefused, WalkRefused, Finish, Row
    <3> QED
      BY <1>1, <3>1
  <2>5. ASSUME NEW c \in Calls,
               UserStep(c) \/ Poll(c) \/ Tick(c) \/ ProbeOK(c) \/ WalkNext(c) \/ WalkEnds(c)
                 \/ WalkSoftError(c) \/ SeedFails(c) \/ CallFails(c)
                 \/ Seed(c) \/ CheckPasses(c) \/ Capped(c) \/ Enqueue(c)
        PROVE  FALSE
    <3>1. row' = row
      BY <2>5 DEF UserStep, Enroll, Reanchor, Baseline, EnableRead, Poll, Tick, ProbeOK,
         WalkNext, WalkEnds, WalkSoftError, StopWalk, SeedFails, CallFails,
         Seed, CheckPasses, Capped, Enqueue
    <3> QED
      BY <1>1, <3>1
  <2>6. ASSUME Disable \/ Delete \/ Restart \/ Play \/ NewDay \/ NewAuth \/ UNCHANGED vars
        PROVE  FALSE
    BY <1>1, <2>1, <2>6 DEF Disable, Delete, Restart, Play, NewDay, NewAuth, Request, NoRow, Row, vars
  <2> QED
    BY <1>1, <2>2, <2>3, <2>4, <2>5, <2>6 DEF Next, WalkStep, SettleStep
<1>2. IInv /\ [Next]_vars
        => [row.status = "INVALID_AUTH" /\ row'.status = "ACTIVE" => Let]_vars
  BY <1>1
<1> QED
  BY <1>2, SpecIInv, PTL DEF Spec, ReauthRequired
===============================================================================
