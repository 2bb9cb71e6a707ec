------------------------------- MODULE WorkerLogs -------------------------------
(***************************************************************************)
(* The render PCs: their registration and the console lines they ship for  *)
(* the dashboard's live tail.  A batch is inserted, then the worker's      *)
(* lines are pruned to a limit in two statements; PCs that share a token   *)
(* ship for one worker at once.  Lines are known by their ids, which the   *)
(* database's sequence gives in order, though an insert that took its ids  *)
(* first may commit last.                                                  *)
(***************************************************************************)
EXTENDS Naturals, FiniteSets, Sequences

CONSTANTS Names,       \* worker names
          Tokens,      \* machine tokens, given or generated
          MaxWorkers,  \* bounds the runs
          MaxLines,    \* lines kept per worker: 4000
          Limit,       \* lines of one page of the tail
          MaxBatch,    \* lines of one batch: 200
          MaxId,       \* lines ever shipped: bounds the runs
          Calls,       \* slots for requests in flight
          NoName, NoToken

ASSUME WorkerLogsAssumption ==
  /\ MaxLines \in Nat \ {0} /\ Limit \in Nat \ {0} /\ MaxBatch \in Nat \ {0}
  /\ MaxId \in Nat /\ MaxWorkers \in Nat
  /\ NoName \notin Names /\ NoToken \notin Tokens

VARIABLES workers,   \* rows in the order of their creation
          logs,      \* [1..MaxWorkers -> ids of the lines in the table]
          nextId,    \* the sequence of line ids
          calls,     \* [Calls -> request in flight]
          dash,      \* a dashboard that follows one worker
          stored,    \* [1..MaxWorkers -> ids ever committed] (bookkeeping)
          unpruned   \* ids of batches whose request failed before its prune (bookkeeping)

vars == <<workers, logs, nextId, calls, dash, stored, unpruned>>

WorkerIds == 1..MaxWorkers

IdleCall == [step |-> "idle", worker |-> 0, lines |-> 0, batch |-> {}, cutoff |-> 0,
             name |-> NoName, token |-> NoToken]

Init == /\ workers = <<>>
        /\ logs = [w \in WorkerIds |-> {}]
        /\ nextId = 1
        /\ calls = [c \in Calls |-> IdleCall]
        /\ dash = [worker |-> 0, after |-> 0, shown |-> {}, cut |-> {}, late |-> {}]
        /\ stored = [w \in WorkerIds |-> {}]
        /\ unpruned = {}

EndCall(c) == calls' = [calls EXCEPT ![c] = IdleCall]
Idle(c) == calls[c].step = "idle"
-------------------------------------------------------------------------------
(* Registration.                                                           *)

Registered == DOMAIN workers
TokensTaken == {workers[w].token : w \in Registered}

AddWorker(name, token) ==
  /\ Len(workers) < MaxWorkers
  /\ workers' = Append(workers, [name |-> name, token |-> token, enabled |-> TRUE])

(* The admin's createWorker and the bootstrap endpoint: a new token, or    *)
(* the given one, which fails where it is taken.                           *)
CreateWorker(name, token) ==
  /\ token \notin TokensTaken
  /\ AddWorker(name, token)
  /\ UNCHANGED <<logs, nextId, calls, dash, stored, unpruned>>

(* Variant: a token that is given always makes a new row.                  *)
NoRowWith(token) == {}

RowsWith(token) == {w \in Registered : workers[w].token = token}

(* workerSetup reads whether the name has a worker; it hands out that      *)
(* one's token, or, when none was given, creates the worker.               *)
SetupRead(c, name, token) ==
  /\ Idle(c)
  /\ \/ token # NoToken
     \/ \A w \in Registered : workers[w].name # name
  /\ calls' = [calls EXCEPT ![c] = [IdleCall EXCEPT !.step = "setup", !.name = name,
                                                    !.token = token]]
  /\ UNCHANGED <<workers, logs, nextId, dash, stored, unpruned>>

(* With a given token the row is upserted: renamed and enabled.            *)
SetupUpsert(c) ==
  /\ calls[c].step = "setup" /\ calls[c].token # NoToken
  /\ \/ \E w \in RowsWith(calls[c].token) :
          workers' = [workers EXCEPT ![w].name = calls[c].name, ![w].enabled = TRUE]
     \/ RowsWith(calls[c].token) = {} /\ AddWorker(calls[c].name, calls[c].token)
  /\ EndCall(c)
  /\ UNCHANGED <<logs, nextId, dash, stored, unpruned>>

SetupCreate(c) ==
  /\ calls[c].step = "setup" /\ calls[c].token = NoToken
  /\ \E t \in Tokens \ TokensTaken : AddWorker(calls[c].name, t)
  /\ EndCall(c)
  /\ UNCHANGED <<logs, nextId, dash, stored, unpruned>>

(* The operator disables a worker, in the database.                        *)
Disable(w) == /\ workers[w].enabled
              /\ workers' = [workers EXCEPT ![w].enabled = FALSE]
              /\ UNCHANGED <<logs, nextId, calls, dash, stored, unpruned>>
-------------------------------------------------------------------------------
(* Ingest: a batch of an enabled worker.                                   *)
Ship(c, w, n) ==
  /\ Idle(c)
  /\ workers[w].enabled
  /\ calls' = [calls EXCEPT ![c] = [IdleCall EXCEPT !.step = "insert", !.worker = w,
                                                    !.lines = n]]
  /\ UNCHANGED <<workers, logs, nextId, dash, stored, unpruned>>

(* The insert takes an id for each line, and commits them together.        *)
TakeId(c) ==
  /\ calls[c].step = "insert" /\ Cardinality(calls[c].batch) < calls[c].lines
  /\ nextId <= MaxId
  /\ calls' = [calls EXCEPT ![c].batch = calls[c].batch \cup {nextId}]
  /\ nextId' = nextId + 1
  /\ UNCHANGED <<workers, logs, dash, stored, unpruned>>

Commit(c) ==
  LET w == calls[c].worker
  IN /\ calls[c].step = "insert" /\ Cardinality(calls[c].batch) = calls[c].lines
     /\ logs' = [logs EXCEPT ![w] = logs[w] \cup calls[c].batch]
     /\ stored' = [stored EXCEPT ![w] = stored[w] \cup calls[c].batch]
     /\ dash' = IF dash.worker = w
                THEN [dash EXCEPT !.late = dash.late \cup
                                           {i \in calls[c].batch : i <= dash.after}]
                ELSE dash
     /\ calls' = [calls EXCEPT ![c].step = "cutoff"]
     /\ UNCHANGED <<workers, nextId, unpruned>>

NewerThan(i, lines) == {j \in lines : j > i}

(* Variant: one line too few is kept.                                      *)
CutoffTooHigh(lines) == {i \in lines : Cardinality(NewerThan(i, lines)) = MaxLines - 1}

(* The line that sits MaxLines back from the newest, if there are so many. *)
CutoffLine(lines) == {i \in lines : Cardinality(NewerThan(i, lines)) = MaxLines}

ReadCutoff(c) ==
  LET cutoff == CutoffLine(logs[calls[c].worker])
  IN /\ calls[c].step = "cutoff"
     /\ \/ cutoff = {} /\ EndCall(c)
        \/ \E i \in cutoff : calls' = [calls EXCEPT ![c].step = "prune", ![c].cutoff = i]
     /\ UNCHANGED <<workers, logs, nextId, dash, stored, unpruned>>

(* Variant: the cutoff line itself stays.                                  *)
BelowCutoff(i, cutoff) == i < cutoff

AtOrBelow(i, cutoff) == i <= cutoff

Prune(c) ==
  LET w == calls[c].worker
  IN /\ calls[c].step = "prune"
     /\ logs' = [logs EXCEPT ![w] = {i \in logs[w] : ~AtOrBelow(i, calls[c].cutoff)}]
     /\ EndCall(c)
     /\ UNCHANGED <<workers, nextId, dash, stored, unpruned>>

(* A request fails: a statement throws, or the server restarts.  What it   *)
(* had not committed is lost, and the worker does not send it again.       *)
CallFails(c) ==
  /\ ~Idle(c)
  /\ unpruned' = IF calls[c].step \in {"cutoff", "prune"}
                 THEN unpruned \cup calls[c].batch ELSE unpruned
  /\ EndCall(c)
  /\ UNCHANGED <<workers, logs, nextId, dash, stored>>
-------------------------------------------------------------------------------
(* Tail: the newest Limit lines above the last id the dashboard has.       *)

Newest(lines, n) == {i \in lines : Cardinality(NewerThan(i, lines)) < n}

(* Variant: the page is cut before the worker's lines are picked.          *)
PageOfAll(w, after) ==
  logs[w] \cap Newest({i \in UNION {logs[v] : v \in WorkerIds} : i > after}, Limit)

Page(w, after) == Newest({i \in logs[w] : i > after}, Limit)

Last(lines, after) == IF lines = {} THEN after
                      ELSE CHOOSE i \in lines : NewerThan(i, lines) = {}

Follow(w) == /\ dash.worker = 0
             /\ dash' = [dash EXCEPT !.worker = w]
             /\ UNCHANGED <<workers, logs, nextId, calls, stored, unpruned>>

PollTail ==
  LET w == dash.worker
      page == Page(w, dash.after)
  IN /\ w # 0
     /\ dash' = [dash EXCEPT !.after = Last(page, dash.after),
                   !.shown = dash.shown \cup page,
                   !.cut = IF Cardinality(page) < Limit THEN dash.cut
                           ELSE dash.cut \cup ({i \in logs[w] : i > dash.after} \ page)]
     /\ UNCHANGED <<workers, logs, nextId, calls, stored, unpruned>>

Registration == \/ \E name \in Names, t \in Tokens : CreateWorker(name, t)
                \/ \E c \in Calls, name \in Names, t \in Tokens \cup {NoToken} :
                     SetupRead(c, name, t)
                \/ \E c \in Calls : SetupUpsert(c) \/ SetupCreate(c)
                \/ \E w \in Registered : Disable(w)

Ingest == \/ \E c \in Calls, w \in Registered, n \in 1..MaxBatch : Ship(c, w, n)
          \/ \E c \in Calls : TakeId(c) \/ Commit(c) \/ ReadCutoff(c) \/ Prune(c)

Next == \/ Registration
        \/ Ingest
        \/ \E c \in Calls : CallFails(c)
        \/ \E w \in Registered : Follow(w)
        \/ PollTail

Spec == Init /\ [][Next]_vars
-------------------------------------------------------------------------------
Worker == [name : Names, token : Tokens, enabled : BOOLEAN]

(* TypeOK: the variables have their types, and no two workers share a      *)
(* token (its unique index).                                               *)
TypeOK ==
  /\ workers \in Seq(Worker) /\ Len(workers) <= MaxWorkers
  /\ \A v, w \in Registered : workers[v].token = workers[w].token => v = w
  /\ logs \in [WorkerIds -> SUBSET (1..MaxId)]
  /\ stored \in [WorkerIds -> SUBSET (1..MaxId)]
  /\ nextId \in 1..MaxId + 1
  /\ calls \in [Calls -> [step : {"idle", "setup", "insert", "cutoff", "prune"},
                          worker : 0..MaxWorkers, lines : 0..MaxBatch,
                          batch : SUBSET (1..MaxId), cutoff : 0..MaxId,
                          name : Names \cup {NoName}, token : Tokens \cup {NoToken}]]
  /\ dash \in [worker : 0..MaxWorkers, after : 0..MaxId, shown : SUBSET (1..MaxId),
               cut : SUBSET (1..MaxId), late : SUBSET (1..MaxId)]
  /\ unpruned \subseteq 1..MaxId

(* NewestKept: "prune that worker's tail down to MAX_LINES_PER_WORKER": a  *)
(* line goes only when MaxLines newer ones stay, however batches, prunes   *)
(* and failures overlap.                                                   *)
NewestKept ==
  \A w \in WorkerIds : \A i \in stored[w] \ logs[w] :
    Cardinality(NewerThan(i, logs[w])) >= MaxLines

Unfinished(w) == unpruned \cup UNION {calls[c].batch : c \in {d \in Calls : calls[d].worker = w}}

(* TailBounded: the table holds at most MaxLines lines of a worker, but    *)
(* for the lines of batches whose request has not finished or has failed.  *)
TailBounded ==
  \A w \in WorkerIds : Cardinality(logs[w] \ Unfinished(w)) <= MaxLines

(* GapsExplained: "so the dashboard can tail incrementally": a follower    *)
(* that asks for what is newer than its last id misses a line that is kept *)
(* only when more than a page was new at once or when the line committed   *)
(* after one with a higher id had been shown.                              *)
GapsExplained ==
  \A i \in IF dash.worker = 0 THEN {} ELSE logs[dash.worker] :
    i <= dash.after => i \in dash.shown \cup dash.cut \cup dash.late
===============================================================================
