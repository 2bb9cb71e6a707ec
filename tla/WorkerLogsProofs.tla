--------------------------- MODULE WorkerLogsProofs ---------------------------
(***************************************************************************)
(* The live tail, for any workers, limits and requests in flight: pruning  *)
(* never takes one of the newest lines, what is kept is bounded, and a     *)
(* follower's gaps are the ones a page or a late commit makes.             *)
(***************************************************************************)
EXTENDS WorkerLogs, FiniteSetTheorems, WellFoundedInduction, SequenceTheorems, TLAPS

Request == [step : {"idle", "setup", "insert", "cutoff", "prune"},
            worker : 0..MaxWorkers, lines : 0..MaxBatch,
            batch : SUBSET (1..MaxId), cutoff : 0..MaxId,
            name : Names \cup {NoName}, token : Tokens \cup {NoToken}]

(* A request at each of its steps.                                         *)
Formed(k) ==
  /\ k.step = "setup" => k.name \in Names
  /\ k.step \in {"insert", "cutoff", "prune"} => k.worker \in WorkerIds
  /\ k.step \in {"idle", "setup"} => k.batch = {}

(* Ids are given once: those of a batch that is not committed are in no    *)
(* table, and in no other batch.                                           *)
Fresh ==
  /\ \A w \in WorkerIds : logs[w] \subseteq 1..nextId - 1
  /\ \A c \in Calls : calls[c].batch \subseteq 1..nextId - 1
  /\ \A c, d \in Calls : c # d => calls[c].batch \cap calls[d].batch = {}
  /\ \A c \in Calls, w \in WorkerIds :
       calls[c].step = "insert" => calls[c].batch \cap logs[w] = {}

Pruning(w) == {c \in Calls : calls[c].step = "prune" /\ calls[c].worker = w}

(* A cutoff that was read leaves enough lines, whatever was pruned since.  *)
CutoffsHold ==
  \A w \in WorkerIds : \A c \in Pruning(w) :
    Cardinality(NewerThan(calls[c].cutoff, logs[w])) >= MaxLines

(* What is left when the requests in P have pruned, but for what is then   *)
(* unfinished.                                                             *)
LeftBy(P, w) ==
  {i \in logs[w] : /\ \A c \in P : i > calls[c].cutoff
                   /\ i \notin unpruned
                   /\ \A c \in Calls \ P : calls[c].worker = w => i \notin calls[c].batch}

(* Whichever of them do: the last of them to have read its cutoff had seen *)
(* the batches of the others.                                              *)
Settling ==
  \A w \in WorkerIds : \A P \in SUBSET Pruning(w) : Cardinality(LeftBy(P, w)) <= MaxLines

Following == dash.worker \in 0..MaxWorkers /\ (dash.worker = 0 => dash.after = 0)

Shape == TypeOK /\ Following /\ \A c \in Calls : Formed(calls[c])

IInv == Shape /\ Fresh /\ CutoffsHold /\ NewestKept /\ Settling /\ GapsExplained
-------------------------------------------------------------------------------
(* Sets of ids: their least, their greatest, their newest.                 *)

LEMMA Bounds == /\ MaxLines \in Nat \ {0} /\ Limit \in Nat \ {0} /\ MaxBatch \in Nat \ {0}
                /\ MaxId \in Nat /\ MaxWorkers \in Nat
                /\ NoName \notin Names /\ NoToken \notin Tokens
BY WorkerLogsAssumption DEF WorkerLogsAssumption

LEMMA LessIsWellFounded == IsWellFoundedOn({ss \in Nat \X Nat : ss[1] < ss[2]}, Nat)
BY NatLessThanWellFounded DEF OpToRel

LEMMA Least ==
  ASSUME NEW T \in SUBSET Nat, T # {}
  PROVE  \E x \in T : \A y \in T : x <= y
<1> DEFINE R == {ss \in Nat \X Nat : ss[1] < ss[2]}
<1>1. IsWellFoundedOn(R, Nat)
  BY LessIsWellFounded
<1>2. \A x, y \in Nat : x < y => <<x, y>> \in R
  OBVIOUS
<1> HIDE DEF R
<1>3. PICK x \in T : \A y \in T : ~(<<y, x>> \in R)
  BY <1>1, WFMin
<1>4. ASSUME NEW y \in T
      PROVE  x <= y
  <2>1. x \in Nat /\ y \in Nat
    OBVIOUS
  <2>2. ~(y < x)
    BY <1>2, <1>3, <2>1
  <2> QED
    BY <2>1, <2>2
<1> QED
  BY <1>4

LEMMA Greatest ==
  ASSUME NEW T \in SUBSET (1..MaxId), T # {}
  PROVE  \E x \in T : \A y \in T : y <= x
<1> DEFINE U == {MaxId - y : y \in T}
<1>1. U \in SUBSET Nat /\ U # {}
  <2>1. \A y \in T : MaxId - y \in Nat
    BY Bounds
  <2> QED
    BY <2>1
<1>2. PICK u \in U : \A v \in U : u <= v
  BY <1>1, Least
<1>3. PICK x \in T : u = MaxId - x
  BY <1>2
<1>4. \A y \in T : MaxId - x <= MaxId - y
  BY <1>2, <1>3
<1>5. \A y \in T : y <= x
  BY <1>3, <1>4, Bounds
<1> QED
  BY <1>5

LEMMA IdsFinite ==
  ASSUME NEW S \in SUBSET (1..MaxId)
  PROVE  /\ IsFiniteSet(S) /\ Cardinality(S) \in Nat
         /\ \A T \in SUBSET S : IsFiniteSet(T) /\ Cardinality(T) \in Nat
                                  /\ Cardinality(T) <= Cardinality(S)
<1>1. IsFiniteSet(1..MaxId)
  BY Bounds, FS_Interval
<1>2. IsFiniteSet(S)
  BY <1>1, FS_Subset
<1> QED
  BY <1>2, FS_Subset, FS_CardinalityType

(* A line that is not among the newest n has n above it that are.          *)
LEMMA NewestAreMany ==
  ASSUME NEW S \in SUBSET (1..MaxId), NEW n \in Nat, NEW i \in S, i \notin Newest(S, n)
  PROVE  Cardinality(Newest(S, n)) >= n
<1>1. SUFFICES ASSUME Cardinality(Newest(S, n)) < n
               PROVE  FALSE
  <2>1. Newest(S, n) \in SUBSET (1..MaxId)
    BY DEF Newest
  <2> QED
    BY <2>1, IdsFinite
<1>2. /\ Newest(S, n) \in SUBSET (1..MaxId)
      /\ \A j \in S : NewerThan(j, S) \in SUBSET (1..MaxId)
  BY DEF Newest, NewerThan
<1>3. ~(Cardinality(NewerThan(i, S)) < n) /\ Cardinality(NewerThan(i, S)) \in Nat
  BY <1>2, IdsFinite DEF Newest
<1> DEFINE T == NewerThan(i, S) \ Newest(S, n)
<1>4. CASE T = {}
  <2>1. NewerThan(i, S) \in SUBSET Newest(S, n)
    BY <1>4
  <2>2. Cardinality(NewerThan(i, S)) <= Cardinality(Newest(S, n))
        /\ Cardinality(Newest(S, n)) \in Nat
    BY <1>2, <2>1, IdsFinite
  <2> QED
    BY <1>1, <1>3, <2>2
<1>5. CASE T # {}
  <2>1. T \in SUBSET (1..MaxId)
    BY <1>2
  <2>2. PICK m \in T : \A j \in T : j <= m
    BY <1>5, <2>1, Greatest
  <2>3. m \in S /\ m > i /\ m \notin Newest(S, n)
    BY <2>2 DEF NewerThan
  <2>4. NewerThan(m, S) \in SUBSET Newest(S, n)
    <3> SUFFICES ASSUME NEW j \in NewerThan(m, S), j \notin Newest(S, n)
                 PROVE  FALSE
      OBVIOUS
    <3>1. j \in S /\ j > m /\ j \in Nat /\ m \in Nat /\ i \in Nat
      BY <2>3 DEF NewerThan
    <3>2. j \in T
      BY <2>3, <3>1 DEF NewerThan
    <3> QED
      BY <2>2, <3>1, <3>2
  <2>5. Cardinality(NewerThan(m, S)) <= Cardinality(Newest(S, n))
        /\ Cardinality(Newest(S, n)) \in Nat /\ Cardinality(NewerThan(m, S)) \in Nat
    BY <1>2, <2>3, <2>4, IdsFinite
  <2>6. m \in Newest(S, n)
    BY <1>1, <2>3, <2>5 DEF Newest
  <2> QED
    BY <2>3, <2>6
<1> QED
  BY <1>4, <1>5

(* Where there is no line MaxLines back from the newest there are at most  *)
(* MaxLines.                                                               *)
LEMMA NoCutoffFewLines ==
  ASSUME NEW S \in SUBSET (1..MaxId), CutoffLine(S) = {}
  PROVE  Cardinality(S) <= MaxLines
<1>1. SUFFICES ASSUME Cardinality(S) > MaxLines
               PROVE  FALSE
  BY IdsFinite, Bounds
<1>2. IsFiniteSet(S) /\ Cardinality(S) \in Nat
  BY IdsFinite
<1>3. \A j \in S : /\ NewerThan(j, S) \in SUBSET (1..MaxId)
                   /\ IsFiniteSet(NewerThan(j, S)) /\ Cardinality(NewerThan(j, S)) \in Nat
  BY IdsFinite DEF NewerThan
<1>4. ASSUME NEW U \in SUBSET S, IsFiniteSet(U), Cardinality(U) > MaxLines,
             \A j \in U, l \in S : l > j => l \in U
      PROVE  \E x \in U : Cardinality(NewerThan(x, S)) >= MaxLines
  <2>1. U # {} /\ U \in SUBSET Nat
    BY <1>4, FS_EmptySet, Bounds
  <2>2. PICK x \in U : \A y \in U : x <= y
    BY <2>1, Least
  <2>3. NewerThan(x, S) = U \ {x}
    <3>1. \A j \in NewerThan(x, S) : j \in U /\ j # x
      BY <1>4, <2>2 DEF NewerThan
    <3>2. \A j \in U \ {x} : j \in S /\ j > x
      BY <2>1, <2>2
    <3> QED
      BY <3>1, <3>2 DEF NewerThan
  <2>4. Cardinality(U \ {x}) = Cardinality(U) - 1 /\ Cardinality(U) \in Nat
    BY <1>4, <2>2, FS_RemoveElement, FS_CardinalityType
  <2>5. Cardinality(NewerThan(x, S)) >= MaxLines
    BY <1>4, <2>3, <2>4, Bounds
  <2> QED
    BY <2>5
<1> DEFINE T == {j \in S : Cardinality(NewerThan(j, S)) >= MaxLines}
<1>5. T \in SUBSET (1..MaxId) /\ T # {}
  <2>1. \E x \in S : Cardinality(NewerThan(x, S)) >= MaxLines
    BY <1>1, <1>2, <1>4
  <2> QED
    BY <2>1
<1>6. PICK m \in T : \A j \in T : j <= m
  BY <1>5, Greatest
<1>7. m \in S /\ Cardinality(NewerThan(m, S)) > MaxLines
  BY <1>3, <1>6, Bounds DEF CutoffLine
<1>8. \A j \in NewerThan(m, S), l \in S : l > j => l \in NewerThan(m, S)
  BY <1>7 DEF NewerThan
<1>9. PICK x \in NewerThan(m, S) : Cardinality(NewerThan(x, S)) >= MaxLines
  <2>1. NewerThan(m, S) \in SUBSET S /\ IsFiniteSet(NewerThan(m, S))
    BY <1>3, <1>7 DEF NewerThan
  <2> QED
    BY <1>4, <1>7, <1>8, <2>1
<1>10. x \in T /\ x > m /\ x \in Nat /\ m \in Nat
  BY <1>7, <1>9 DEF NewerThan
<1> QED
  BY <1>6, <1>10
-------------------------------------------------------------------------------
WorkersTyped == /\ workers \in Seq(Worker) /\ Len(workers) <= MaxWorkers
                /\ \A v, w \in Registered : workers[v].token = workers[w].token => v = w

LEMMA Typed == TypeOK => /\ WorkersTyped /\ calls \in [Calls -> Request]
                         /\ logs \in [WorkerIds -> SUBSET (1..MaxId)]
                         /\ stored \in [WorkerIds -> SUBSET (1..MaxId)]
                         /\ nextId \in 1..MaxId + 1 /\ unpruned \subseteq 1..MaxId
BY DEF TypeOK, WorkersTyped, Request

LEMMA RequestOf ==
  ASSUME IInv, NEW c \in Calls
  PROVE  calls[c] \in Request /\ Formed(calls[c])
BY Typed DEF IInv, Shape

LEMMA IdleIsRequest == /\ IdleCall \in Request /\ Formed(IdleCall)
                       /\ IdleCall.step = "idle" /\ IdleCall.batch = {}
BY Bounds DEF IdleCall, Request, Formed

LEMMA InitIInv == Init => IInv
<1> SUFFICES ASSUME Init
             PROVE  IInv
  OBVIOUS
<1>1. /\ calls = [c \in Calls |-> IdleCall] /\ logs = [w \in WorkerIds |-> {}]
      /\ stored = [w \in WorkerIds |-> {}] /\ workers = <<>> /\ nextId = 1 /\ unpruned = {}
      /\ dash = [worker |-> 0, after |-> 0, shown |-> {}, cut |-> {}, late |-> {}]
  BY DEF Init
<1>2. calls \in [Calls -> Request] /\ \A c \in Calls : Formed(calls[c])
  BY <1>1, IdleIsRequest
<1>3. Shape
  <2>1. workers \in Seq(Worker) /\ Len(workers) = 0 /\ Registered = {}
    BY <1>1 DEF Registered
  <2>2. 1 \in 1..MaxId + 1 /\ 0 \in 0..MaxId /\ 0 \in 0..MaxWorkers /\ 0 <= MaxWorkers
    BY Bounds
  <2> QED
    BY <1>1, <1>2, <2>1, <2>2 DEF Shape, TypeOK, Following, Request
<1>4. Fresh
  BY <1>1, IdleIsRequest DEF Fresh
<1>5. CutoffsHold
  BY <1>1, IdleIsRequest DEF CutoffsHold, Pruning
<1>6. NewestKept /\ GapsExplained
  BY <1>1 DEF NewestKept, GapsExplained
<1>7. Settling
  <2>1. \A w \in WorkerIds : \A P : LeftBy(P, w) = {}
    BY <1>1 DEF LeftBy
  <2> QED
    BY <2>1, FS_EmptySet, Bounds DEF Settling
<1> QED
  BY <1>3, <1>4, <1>5, <1>6, <1>7 DEF IInv
-------------------------------------------------------------------------------
(* A request that has nothing in the table, or nothing any more.           *)
LEMMA CallKeeps ==
  ASSUME IInv, NEW c \in Calls, NEW k \in Request, Formed(k),
         calls' = [calls EXCEPT ![c] = k], k.batch = {}, k.step # "prune",
         UNCHANGED <<logs, nextId, dash, stored>>, WorkersTyped',
         unpruned \subseteq unpruned', unpruned' \subseteq 1..MaxId,
         \A w \in WorkerIds :
           calls[c].worker = w => \/ calls[c].batch \cap logs[w] \subseteq unpruned'
                                  \/ Cardinality(logs[w]) <= MaxLines
  PROVE  IInv'
<1>1. /\ calls' \in [Calls -> Request] /\ calls'[c] = k
      /\ \A d \in Calls : d # c => calls'[d] = calls[d]
  BY Typed DEF IInv, Shape
<1>2. Shape'
  <2>1. TypeOK'
    BY <1>1 DEF IInv, Shape, TypeOK, WorkersTyped, Request
  <2>2. \A d \in Calls : Formed(calls[d])'
    BY <1>1 DEF IInv, Shape, Formed
  <2> QED
    BY <2>1, <2>2 DEF IInv, Shape, Following
<1>3. Fresh'
  BY <1>1 DEF IInv, Fresh
<1>4. \A w \in WorkerIds : Pruning(w)' \subseteq Pruning(w) /\ c \notin Pruning(w)'
  BY <1>1 DEF Pruning
<1>5. CutoffsHold'
  BY <1>1, <1>4 DEF IInv, CutoffsHold, Pruning
<1>6. NewestKept' /\ GapsExplained'
  BY DEF IInv, NewestKept, GapsExplained
<1>7. Settling'
  <2> SUFFICES ASSUME NEW w \in WorkerIds, NEW P \in SUBSET Pruning(w), c \notin P
               PROVE  Cardinality(LeftBy(P, w)') <= MaxLines
    BY <1>4 DEF Settling
  <2>1. logs[w] \in SUBSET (1..MaxId)
    BY Typed DEF IInv, Shape
  <2>2. CASE Cardinality(logs[w]) <= MaxLines
    <3>1. LeftBy(P, w)' \subseteq logs[w]
      BY DEF LeftBy
    <3> QED
      BY <2>1, <2>2, <3>1, IdsFinite, Bounds
  <2>3. CASE calls[c].worker = w => calls[c].batch \cap logs[w] \subseteq unpruned'
    <3>1. LeftBy(P, w)' \subseteq LeftBy(P, w)
      <4> SUFFICES ASSUME NEW i \in LeftBy(P, w)'
                   PROVE  i \in LeftBy(P, w)
        OBVIOUS
      <4>1. i \in logs[w] /\ i \notin unpruned' /\ i \notin unpruned
        BY DEF LeftBy
      <4>2. \A d \in P : i > calls[d].cutoff
        BY <1>1 DEF LeftBy, Pruning
      <4>3. ASSUME NEW d \in Calls \ P, calls[d].worker = w
            PROVE  i \notin calls[d].batch
        <5>1. CASE d = c
          BY <2>3, <4>1, <4>3, <5>1
        <5>2. CASE d # c
          BY <1>1, <4>3, <5>2 DEF LeftBy
        <5> QED
          BY <5>1, <5>2
      <4> QED
        BY <4>1, <4>2, <4>3 DEF LeftBy
    <3>2. LeftBy(P, w) \in SUBSET (1..MaxId) /\ Cardinality(LeftBy(P, w)) <= MaxLines
      BY <2>1 DEF LeftBy, IInv, Settling
    <3> QED
      BY <3>1, <3>2, IdsFinite, Bounds
  <2> QED
    BY <2>2, <2>3
<1> QED
  BY <1>2, <1>3, <1>5, <1>6, <1>7 DEF IInv

(* A worker is added: its token is its own.                                *)
LEMMA AddKeeps ==
  ASSUME IInv, NEW name \in Names, NEW token \in Tokens, token \notin TokensTaken,
         AddWorker(name, token)
  PROVE  WorkersTyped'
<1>1. workers \in Seq(Worker) /\ Len(workers) \in Nat /\ DOMAIN workers = 1..Len(workers)
  BY Typed DEF IInv, Shape, WorkersTyped
<1> DEFINE new == [name |-> name, token |-> token, enabled |-> TRUE]
<1>2. new \in Worker /\ new.token = token
  BY DEF Worker
<1>3. workers' = Append(workers, new) /\ Len(workers) < MaxWorkers
  BY DEF AddWorker
<1> HIDE DEF new
<1>4. /\ workers' \in Seq(Worker) /\ Len(workers') = Len(workers) + 1
      /\ \A i \in 1..Len(workers) : workers'[i] = workers[i]
      /\ workers'[Len(workers) + 1] = new
  BY <1>1, <1>2, <1>3, AppendProperties
<1>5. DOMAIN workers' = 1..Len(workers) + 1
  BY <1>4
<1>6. \A i \in 1..Len(workers) : workers[i].token # token
  BY <1>1 DEF TokensTaken, Registered
<1>7. \A v, w \in Registered' : workers'[v].token = workers'[w].token => v = w
  <2> SUFFICES ASSUME NEW v \in 1..Len(workers) + 1, NEW w \in 1..Len(workers) + 1,
                      workers'[v].token = workers'[w].token
               PROVE  v = w
    BY <1>5 DEF Registered
  <2>1. \A x, y \in 1..Len(workers) : workers[x].token = workers[y].token => x = y
    BY <1>1, Typed DEF IInv, Shape, WorkersTyped, Registered
  <2>2. \A x \in 1..Len(workers) + 1 : x = Len(workers) + 1 \/ x \in 1..Len(workers)
    BY <1>1
  <2> QED
    BY <1>2, <1>4, <1>6, <2>1, <2>2
<1>8. Len(workers') <= MaxWorkers
  BY <1>1, <1>3, <1>4, Bounds
<1>9. (\A v, w \in Registered : workers[v].token = workers[w].token => v = w)'
  BY <1>7
<1> QED
  BY <1>4, <1>8, <1>9 DEF WorkersTyped

(* A worker keeps its token.                                               *)
LEMMA RowKeeps ==
  ASSUME IInv, NEW w \in Registered, NEW r \in Worker, r.token = workers[w].token,
         workers' = [workers EXCEPT ![w] = r]
  PROVE  WorkersTyped'
<1>1. workers \in Seq(Worker) /\ Len(workers) <= MaxWorkers /\ w \in 1..Len(workers)
      /\ Registered = 1..Len(workers)
  BY Typed DEF IInv, Shape, WorkersTyped, Registered
<1>2. /\ workers' \in Seq(Worker) /\ Len(workers') = Len(workers)
      /\ \A v \in 1..Len(workers) : workers'[v] = IF v = w THEN r ELSE workers[v]
  BY <1>1, ExceptSeq
<1>3. Registered' = 1..Len(workers)
  BY <1>2 DEF Registered
<1>4. \A v \in Registered : workers'[v].token = workers[v].token
  BY <1>1, <1>2
<1>5. \A u, v \in Registered : workers[u].token = workers[v].token => u = v
  BY Typed DEF IInv, Shape, WorkersTyped
<1>6. \A u, v \in Registered' : workers'[u].token = workers'[v].token => u = v
  BY <1>1, <1>3, <1>4, <1>5
<1>7. (\A u, v \in Registered : workers[u].token = workers[v].token => u = v)'
  BY <1>6
<1> QED
  BY <1>1, <1>2, <1>7 DEF WorkersTyped

LEMMA WorkersOnly ==
  ASSUME IInv, WorkersTyped', UNCHANGED <<logs, nextId, calls, dash, stored, unpruned>>
  PROVE  IInv'
<1>1. Shape'
  <2>1. TypeOK'
    BY DEF IInv, Shape, TypeOK, WorkersTyped
  <2> QED
    BY <2>1 DEF IInv, Shape, Following, Formed
<1>2. Fresh' /\ CutoffsHold' /\ NewestKept' /\ GapsExplained'
  BY DEF IInv, Fresh, CutoffsHold, Pruning, NewestKept, GapsExplained
<1>3. Settling'
  BY DEF IInv, Settling, Pruning, LeftBy
<1> QED
  BY <1>1, <1>2, <1>3 DEF IInv

LEMMA RegistrationKeeps == IInv /\ Registration => IInv'
<1> SUFFICES ASSUME IInv, Registration
             PROVE  IInv'
  OBVIOUS
<1>1. ASSUME NEW name \in Names, NEW t \in Tokens, CreateWorker(name, t)
      PROVE  IInv'
  <2>1. WorkersTyped'
    BY <1>1, AddKeeps DEF CreateWorker
  <2> QED
    BY <1>1, <2>1, WorkersOnly DEF CreateWorker
<1>2. ASSUME NEW c \in Calls, NEW name \in Names, NEW t \in Tokens \cup {NoToken},
             SetupRead(c, name, t)
      PROVE  IInv'
  <2>1. PICK k : k = [IdleCall EXCEPT !.step = "setup", !.name = name, !.token = t]
    OBVIOUS
  <2>2. k \in Request /\ k.name = name /\ k.step = "setup" /\ k.batch = {}
    BY <2>1, IdleIsRequest DEF Request
  <2>7. Formed(k)
    BY <2>2 DEF Formed
  <2>3. calls' = [calls EXCEPT ![c] = k] /\ calls[c].step = "idle"
    BY <1>2, <2>1 DEF SetupRead, Idle
  <2>4. UNCHANGED <<logs, nextId, dash, stored, unpruned, workers>>
    BY <1>2 DEF SetupRead
  <2>5. WorkersTyped' /\ unpruned' \subseteq 1..MaxId
    BY <2>4, Typed DEF IInv, Shape, WorkersTyped, Registered
  <2>6. calls[c].batch = {}
    BY <2>3, RequestOf DEF Formed
  <2> QED
    BY <2>2, <2>3, <2>4, <2>5, <2>6, <2>7, CallKeeps
<1>3. ASSUME NEW c \in Calls, calls[c].step = "setup", EndCall(c), WorkersTyped',
             UNCHANGED <<logs, nextId, dash, stored, unpruned>>
      PROVE  IInv'
  <2>1. calls[c].batch = {} /\ unpruned' \subseteq 1..MaxId
    BY <1>3, RequestOf, Typed DEF Formed, IInv, Shape
  <2>2. calls' = [calls EXCEPT ![c] = IdleCall]
    BY <1>3 DEF EndCall
  <2>3. IdleCall.step # "prune"
    BY IdleIsRequest
  <2> QED
    BY <1>3, <2>1, <2>2, <2>3, IdleIsRequest, CallKeeps
<1>4. ASSUME NEW c \in Calls, SetupUpsert(c)
      PROVE  IInv'
  <2>1. calls[c] \in Request /\ Formed(calls[c])
    BY RequestOf
  <2>2. calls[c].name \in Names /\ calls[c].token \in Tokens
    BY <1>4, <2>1 DEF SetupUpsert, Formed, Request
  <2>3. CASE RowsWith(calls[c].token) = {} /\ AddWorker(calls[c].name, calls[c].token)
    <3>1. calls[c].token \notin TokensTaken
      BY <2>3 DEF RowsWith, TokensTaken
    <3>2. WorkersTyped'
      BY <2>2, <2>3, <3>1, AddKeeps
    <3> QED
      BY <1>3, <1>4, <3>2 DEF SetupUpsert
  <2>4. ASSUME NEW w \in RowsWith(calls[c].token),
               workers' = [workers EXCEPT ![w].name = calls[c].name, ![w].enabled = TRUE]
        PROVE  IInv'
    <3>1. w \in Registered
      BY DEF RowsWith
    <3>2. workers[w] \in Worker
      BY <3>1, Typed DEF IInv, Shape, WorkersTyped, Registered
    <3>3. PICK r : r = [workers[w] EXCEPT !.name = calls[c].name, !.enabled = TRUE]
      OBVIOUS
    <3>4. r \in Worker /\ r.token = workers[w].token
      BY <2>2, <3>2, <3>3 DEF Worker
    <3>5. workers' = [workers EXCEPT ![w] = r]
      BY <2>4, <3>1, <3>3 DEF Registered
    <3>6. WorkersTyped'
      BY <3>1, <3>4, <3>5, RowKeeps
    <3> QED
      BY <1>3, <1>4, <3>6 DEF SetupUpsert
  <2> QED
    BY <1>4, <2>3, <2>4 DEF SetupUpsert
<1>5. ASSUME NEW c \in Calls, SetupCreate(c)
      PROVE  IInv'
  <2>1. calls[c].name \in Names
    BY <1>5, RequestOf DEF SetupCreate, Formed
  <2>2. PICK t \in Tokens \ TokensTaken : AddWorker(calls[c].name, t)
    BY <1>5 DEF SetupCreate
  <2>3. WorkersTyped'
    BY <2>1, <2>2, AddKeeps
  <2> QED
    BY <1>3, <1>5, <2>3 DEF SetupCreate
<1>6. ASSUME NEW w \in Registered, Disable(w)
      PROVE  IInv'
  <2>1. workers[w] \in Worker
    BY Typed DEF IInv, Shape, WorkersTyped, Registered
  <2>2. PICK r : r = [workers[w] EXCEPT !.enabled = FALSE]
    OBVIOUS
  <2>3. r \in Worker /\ r.token = workers[w].token
    BY <2>1, <2>2 DEF Worker
  <2>4. workers' = [workers EXCEPT ![w] = r]
    BY <1>6, <2>2 DEF Disable, Registered
  <2>5. WorkersTyped'
    BY <2>3, <2>4, RowKeeps
  <2> QED
    BY <1>6, <2>5, WorkersOnly DEF Disable
<1> QED
  BY <1>1, <1>2, <1>4, <1>5, <1>6 DEF Registration
-------------------------------------------------------------------------------
LEMMA SameWorkers == IInv /\ UNCHANGED workers => WorkersTyped'
BY Typed DEF IInv, Shape, WorkersTyped, Registered

LEMMA ShipKeeps ==
  ASSUME IInv, NEW c \in Calls, NEW w \in Registered, NEW n \in 1..MaxBatch, Ship(c, w, n)
  PROVE  IInv'
<1>1. PICK k : k = [IdleCall EXCEPT !.step = "insert", !.worker = w, !.lines = n]
  OBVIOUS
<1>2. w \in WorkerIds
  BY Typed, Bounds DEF IInv, Shape, WorkersTyped, Registered, WorkerIds
<1>3. w \in 0..MaxWorkers /\ n \in 0..MaxBatch
  BY <1>2, Bounds DEF WorkerIds
<1>4. k \in Request /\ k.step = "insert" /\ k.worker = w /\ k.batch = {}
  BY <1>1, <1>3, IdleIsRequest DEF Request
<1>5. Formed(k)
  BY <1>2, <1>4 DEF Formed
<1>6. calls[c].batch = {}
  BY RequestOf DEF Ship, Idle, Formed
<1>7. calls' = [calls EXCEPT ![c] = k]
      /\ UNCHANGED <<workers, logs, nextId, dash, stored, unpruned>>
  BY <1>1 DEF Ship
<1>8. WorkersTyped' /\ unpruned' \subseteq 1..MaxId
  BY <1>7, SameWorkers, Typed DEF IInv, Shape
<1> QED
  BY <1>4, <1>5, <1>6, <1>7, <1>8, CallKeeps

LEMMA FailureKeeps ==
  ASSUME IInv, NEW c \in Calls, CallFails(c)
  PROVE  IInv'
<1>1. calls[c] \in Request /\ Formed(calls[c])
  BY RequestOf
<1>2. calls[c].batch \subseteq 1..MaxId
  BY <1>1 DEF Request
<1>3. unpruned \subseteq unpruned' /\ unpruned' \subseteq 1..MaxId
  BY <1>2, Typed DEF CallFails, IInv, Shape
<1>4. ASSUME NEW w \in WorkerIds
      PROVE  calls[c].batch \cap logs[w] \subseteq unpruned'
  <2>1. CASE calls[c].step \in {"idle", "setup"}
    BY <1>1, <2>1 DEF Formed
  <2>2. CASE calls[c].step = "insert"
    BY <2>2 DEF IInv, Fresh
  <2>3. CASE calls[c].step \in {"cutoff", "prune"}
    BY <2>3 DEF CallFails
  <2> QED
    BY <1>1, <2>1, <2>2, <2>3 DEF Request
<1>5. calls' = [calls EXCEPT ![c] = IdleCall] /\ UNCHANGED <<workers, logs, nextId, dash, stored>>
  BY DEF CallFails, EndCall
<1>6. IdleCall.step # "prune" /\ WorkersTyped'
  BY <1>5, IdleIsRequest, SameWorkers
<1> QED
  BY <1>3, <1>4, <1>5, <1>6, IdleIsRequest, CallKeeps

LEMMA ReadCutoffKeeps ==
  ASSUME IInv, NEW c \in Calls, ReadCutoff(c)
  PROVE  IInv'
<1>1. calls[c] \in Request /\ calls[c].worker \in WorkerIds /\ calls[c].step = "cutoff"
  BY RequestOf DEF ReadCutoff, Formed
<1> DEFINE v == calls[c].worker
<1>2. logs \in [WorkerIds -> SUBSET (1..MaxId)] /\ logs[v] \in SUBSET (1..MaxId)
  BY <1>1, Typed DEF IInv, Shape
<1>3. UNCHANGED <<workers, logs, nextId, dash, stored, unpruned>>
  BY DEF ReadCutoff
<1>4. WorkersTyped' /\ unpruned' \subseteq 1..MaxId
  BY <1>3, SameWorkers, Typed DEF IInv, Shape
<1>5. CASE CutoffLine(logs[v]) = {} /\ EndCall(c)
  <2>1. Cardinality(logs[v]) <= MaxLines
    BY <1>2, <1>5, NoCutoffFewLines
  <2>2. calls' = [calls EXCEPT ![c] = IdleCall] /\ IdleCall.step # "prune"
    BY <1>5, IdleIsRequest DEF EndCall
  <2> QED
    BY <1>3, <1>4, <2>1, <2>2, IdleIsRequest, CallKeeps
<1>6. ASSUME NEW i \in CutoffLine(logs[v]),
             calls' = [calls EXCEPT ![c].step = "prune", ![c].cutoff = i]
      PROVE  IInv'
  <2>1. i \in logs[v] /\ i \in 1..MaxId /\ Cardinality(NewerThan(i, logs[v])) = MaxLines
    BY <1>2, <1>6 DEF CutoffLine
  <2>2. PICK k : k = [calls[c] EXCEPT !.step = "prune", !.cutoff = i]
    OBVIOUS
  <2>3. k \in Request /\ k.step = "prune" /\ k.cutoff = i /\ k.worker = v
        /\ k.batch = calls[c].batch
    <3>1. i \in 0..MaxId
      BY <2>1, Bounds
    <3> QED
      BY <1>1, <2>2, <3>1 DEF Request
  <2>4. calls' = [calls EXCEPT ![c] = k]
    BY <1>6, <2>2
  <2>5. /\ calls' \in [Calls -> Request] /\ calls'[c] = k
        /\ \A d \in Calls : d # c => calls'[d] = calls[d]
    BY <2>3, <2>4, Typed DEF IInv, Shape
  <2>6. Shape'
    <3>1. TypeOK'
      BY <1>3, <1>4, <2>5, Typed DEF IInv, Shape, TypeOK, WorkersTyped, Request
    <3>2. \A d \in Calls : Formed(calls[d])'
      BY <1>1, <2>3, <2>5 DEF IInv, Shape, Formed
    <3> QED
      BY <1>3, <3>1, <3>2 DEF IInv, Shape, Following
  <2>7. Fresh'
    BY <1>3, <2>3, <2>5 DEF IInv, Fresh
  <2>8. /\ \A w \in WorkerIds : Pruning(w)' \subseteq Pruning(w) \cup {c}
        /\ \A w \in WorkerIds : c \in Pruning(w)' => w = v
    BY <2>3, <2>5 DEF Pruning
  <2>9. CutoffsHold'
    <3> SUFFICES ASSUME NEW w \in WorkerIds, NEW d \in Pruning(w)'
                 PROVE  Cardinality(NewerThan(calls'[d].cutoff, logs[w])) >= MaxLines
      BY <1>3 DEF CutoffsHold
    <3>1. CASE d = c
      BY <2>1, <2>3, <2>5, <2>8, <3>1, Bounds
    <3>2. CASE d # c
      <4>1. d \in Pruning(w) /\ calls'[d] = calls[d]
        BY <2>5, <2>8, <3>2 DEF Pruning
      <4> QED
        BY <4>1 DEF IInv, CutoffsHold
    <3> QED
      BY <3>1, <3>2
  <2>10. NewestKept' /\ GapsExplained'
    BY <1>3 DEF IInv, NewestKept, GapsExplained
  <2>11. Settling'
    <3> SUFFICES ASSUME NEW w \in WorkerIds, NEW P \in SUBSET (Pruning(w)')
                 PROVE  Cardinality(LeftBy(P, w)') <= MaxLines
      BY DEF Settling
    <3>1. CASE c \in P
      <4>1. LeftBy(P, w)' \subseteq NewerThan(i, logs[v])
        BY <1>3, <2>3, <2>5, <2>8, <3>1 DEF LeftBy, NewerThan
      <4>2. NewerThan(i, logs[v]) \in SUBSET (1..MaxId)
        BY <1>2 DEF NewerThan
      <4> QED
        BY <2>1, <4>1, <4>2, IdsFinite, Bounds
    <3>2. CASE c \notin P
      <4>1. P \in SUBSET Pruning(w)
        BY <2>8, <3>2
      <4>2. LeftBy(P, w)' \subseteq LeftBy(P, w)
        <5> SUFFICES ASSUME NEW j \in LeftBy(P, w)'
                     PROVE  j \in LeftBy(P, w)
          OBVIOUS
        <5>1. j \in logs[w] /\ j \notin unpruned
          BY <1>3 DEF LeftBy
        <5>2. \A d \in P : j > calls[d].cutoff
          BY <2>5, <3>2 DEF LeftBy, Pruning
        <5>3. \A d \in Calls \ P : calls[d].worker = w => j \notin calls[d].batch
          <6>1. \A d \in Calls : calls'[d].worker = calls[d].worker
                                  /\ calls'[d].batch = calls[d].batch
            BY <2>3, <2>5
          <6> QED
            BY <6>1 DEF LeftBy
        <5> QED
          BY <5>1, <5>2, <5>3 DEF LeftBy
      <4>3. LeftBy(P, w) \in SUBSET (1..MaxId) /\ Cardinality(LeftBy(P, w)) <= MaxLines
        BY <1>2, <4>1 DEF LeftBy, IInv, Settling
      <4> QED
        BY <4>2, <4>3, IdsFinite, Bounds
    <3> QED
      BY <3>1, <3>2
  <2> QED
    BY <2>6, <2>7, <2>9, <2>10, <2>11 DEF IInv
<1> QED
  BY <1>5, <1>6 DEF ReadCutoff

LEMMA TakeIdKeeps ==
  ASSUME IInv, NEW c \in Calls, TakeId(c)
  PROVE  IInv'
<1>1. calls[c] \in Request /\ Formed(calls[c]) /\ calls[c].step = "insert"
  BY RequestOf DEF TakeId
<1>2. nextId \in 1..MaxId /\ nextId' = nextId + 1 /\ nextId' \in 1..MaxId + 1
  BY Typed, Bounds DEF TakeId, IInv, Shape
<1>3. UNCHANGED <<workers, logs, dash, stored, unpruned>>
  BY DEF TakeId
<1>4. PICK k : k = [calls[c] EXCEPT !.batch = calls[c].batch \cup {nextId}]
  OBVIOUS
<1>5. k \in Request /\ k.step = "insert" /\ k.batch = calls[c].batch \cup {nextId}
      /\ k.worker = calls[c].worker
  BY <1>1, <1>2, <1>4 DEF Request
<1>6. Formed(k)
  BY <1>1, <1>5 DEF Formed
<1>7. calls' = [calls EXCEPT ![c] = k]
  BY <1>4 DEF TakeId
<1>8. /\ calls' \in [Calls -> Request] /\ calls'[c] = k
      /\ \A d \in Calls : d # c => calls'[d] = calls[d]
  BY <1>5, <1>7, Typed DEF IInv, Shape
<1>9. Shape'
  <2>1. WorkersTyped'
    BY <1>3, SameWorkers
  <2>2. TypeOK'
    BY <1>2, <1>3, <1>8, <2>1, Typed DEF IInv, Shape, TypeOK, WorkersTyped, Request
  <2>3. \A d \in Calls : Formed(calls[d])'
    BY <1>6, <1>8 DEF IInv, Shape, Formed
  <2> QED
    BY <1>3, <2>2, <2>3 DEF IInv, Shape, Following
<1>10. Fresh'
  <2>1. /\ \A w \in WorkerIds : logs[w] \subseteq 1..nextId - 1
        /\ \A d \in Calls : calls[d].batch \subseteq 1..nextId - 1
        /\ \A d, e \in Calls : d # e => calls[d].batch \cap calls[e].batch = {}
        /\ \A d \in Calls, w \in WorkerIds :
             calls[d].step = "insert" => calls[d].batch \cap logs[w] = {}
    BY DEF IInv, Fresh
  <2>2. 1..nextId - 1 \subseteq 1..nextId' - 1 /\ nextId \in 1..nextId' - 1
        /\ nextId \notin 1..nextId - 1
    BY <1>2
  <2>3. \A w \in WorkerIds : logs'[w] \subseteq 1..nextId' - 1
    BY <1>3, <2>1, <2>2
  <2>4. \A d \in Calls : calls'[d].batch \subseteq 1..nextId' - 1
    BY <1>5, <1>8, <2>1, <2>2
  <2>5. \A d, e \in Calls : d # e => calls'[d].batch \cap calls'[e].batch = {}
    BY <1>5, <1>8, <2>1, <2>2
  <2>6. \A d \in Calls, w \in WorkerIds :
          calls'[d].step = "insert" => calls'[d].batch \cap logs'[w] = {}
    BY <1>1, <1>3, <1>5, <1>8, <2>1, <2>2
  <2> QED
    BY <2>3, <2>4, <2>5, <2>6 DEF Fresh
<1>11. \A w \in WorkerIds : Pruning(w)' = Pruning(w) /\ c \notin Pruning(w)
  BY <1>1, <1>5, <1>8 DEF Pruning
<1>12. CutoffsHold'
  <2> SUFFICES ASSUME NEW w \in WorkerIds, NEW d \in Pruning(w)
               PROVE  Cardinality(NewerThan(calls'[d].cutoff, logs'[w])) >= MaxLines
    BY <1>11 DEF CutoffsHold
  <2>1. calls'[d] = calls[d]
    BY <1>8, <1>11 DEF Pruning
  <2> QED
    BY <1>3, <2>1 DEF IInv, CutoffsHold
<1>13. NewestKept' /\ GapsExplained'
  BY <1>3 DEF IInv, NewestKept, GapsExplained
<1>14. Settling'
  <2> SUFFICES ASSUME NEW w \in WorkerIds, NEW P \in SUBSET Pruning(w)
               PROVE  Cardinality(LeftBy(P, w)') <= MaxLines
    BY <1>11 DEF Settling
  <2>1. LeftBy(P, w)' \subseteq LeftBy(P, w)
    <3>1. \A d \in P : calls'[d] = calls[d]
      BY <1>8, <1>11 DEF Pruning
    <3>2. \A d \in Calls : calls'[d].worker = calls[d].worker
                             /\ calls[d].batch \subseteq calls'[d].batch
      BY <1>5, <1>8
    <3> QED
      BY <1>3, <3>1, <3>2 DEF LeftBy
  <2>2. LeftBy(P, w) \in SUBSET (1..MaxId) /\ Cardinality(LeftBy(P, w)) <= MaxLines
    BY Typed DEF LeftBy, IInv, Shape, Settling
  <2> QED
    BY <2>1, <2>2, IdsFinite, Bounds
<1> QED
  BY <1>9, <1>10, <1>12, <1>13, <1>14 DEF IInv

LEMMA MoreIsNewer ==
  ASSUME NEW S \in SUBSET (1..MaxId), NEW T \in SUBSET S, NEW i
  PROVE  /\ Cardinality(NewerThan(i, S)) \in Nat /\ Cardinality(NewerThan(i, T)) \in Nat
         /\ Cardinality(NewerThan(i, T)) <= Cardinality(NewerThan(i, S))
<1>1. NewerThan(i, S) \in SUBSET (1..MaxId) /\ NewerThan(i, T) \in SUBSET NewerThan(i, S)
  BY DEF NewerThan
<1> QED
  BY <1>1, IdsFinite

LEMMA CommitKeeps ==
  ASSUME IInv, NEW c \in Calls, Commit(c)
  PROVE  IInv'
<1>1. calls[c] \in Request /\ Formed(calls[c]) /\ calls[c].step = "insert"
  BY RequestOf DEF Commit
<1> DEFINE v == calls[c].worker
           B == calls[c].batch
<1>2. v \in WorkerIds /\ B \in SUBSET (1..MaxId)
  BY <1>1 DEF Formed, Request
<1>3. UNCHANGED <<workers, nextId, unpruned>>
  BY DEF Commit
<1>4. /\ logs' = [logs EXCEPT ![v] = logs[v] \cup B]
      /\ stored' = [stored EXCEPT ![v] = stored[v] \cup B]
      /\ dash' = IF dash.worker = v
                 THEN [dash EXCEPT !.late = dash.late \cup {i \in B : i <= dash.after}]
                 ELSE dash
  BY DEF Commit
<1>5. PICK k : k = [calls[c] EXCEPT !.step = "cutoff"]
  OBVIOUS
<1>6. k \in Request /\ k.step = "cutoff" /\ k.batch = B /\ k.worker = v
  BY <1>1, <1>5 DEF Request
<1>7. calls' = [calls EXCEPT ![c] = k]
  BY <1>5 DEF Commit
<1>8. /\ calls' \in [Calls -> Request] /\ calls'[c] = k
      /\ \A d \in Calls : d # c => calls'[d] = calls[d]
  BY <1>6, <1>7, Typed DEF IInv, Shape
<1>9. /\ logs' \in [WorkerIds -> SUBSET (1..MaxId)]
      /\ stored' \in [WorkerIds -> SUBSET (1..MaxId)]
      /\ logs'[v] = logs[v] \cup B /\ stored'[v] = stored[v] \cup B
      /\ \A w \in WorkerIds : w # v => logs'[w] = logs[w] /\ stored'[w] = stored[w]
  BY <1>2, <1>4, Typed DEF IInv, Shape
<1> HIDE DEF B, v
<1>10. \A w \in WorkerIds : /\ logs[w] \in SUBSET logs'[w] /\ logs'[w] \in SUBSET (1..MaxId)
                            /\ logs'[w] \subseteq logs[w] \cup B
                            /\ stored'[w] \ logs'[w] \subseteq stored[w] \ logs[w]
  BY <1>9
<1>11. Shape'
  <2>1. dash' \in [worker : 0..MaxWorkers, after : 0..MaxId, shown : SUBSET (1..MaxId),
                   cut : SUBSET (1..MaxId), late : SUBSET (1..MaxId)]
        /\ dash'.worker = dash.worker /\ dash'.after = dash.after
    BY <1>2, <1>4 DEF IInv, Shape, TypeOK
  <2>2. WorkersTyped'
    BY <1>3, SameWorkers
  <2>3. TypeOK'
    BY <1>3, <1>8, <1>9, <2>1, <2>2, Typed DEF IInv, Shape, TypeOK, WorkersTyped, Request
  <2>4. \A d \in Calls : Formed(calls[d])'
    BY <1>2, <1>6, <1>8 DEF IInv, Shape, Formed
  <2> QED
    BY <2>1, <2>3, <2>4 DEF IInv, Shape, Following
<1>12. /\ \A w \in WorkerIds : logs[w] \subseteq 1..nextId - 1
       /\ \A d \in Calls : calls[d].batch \subseteq 1..nextId - 1
       /\ \A d, e \in Calls : d # e => calls[d].batch \cap calls[e].batch = {}
       /\ \A d \in Calls, w \in WorkerIds :
            calls[d].step = "insert" => calls[d].batch \cap logs[w] = {}
  BY DEF IInv, Fresh
<1>13. Fresh'
  <2>1. \A d \in Calls : calls'[d].batch = calls[d].batch
    BY <1>6, <1>8 DEF B
  <2>2. \A w \in WorkerIds : logs'[w] \subseteq 1..nextId' - 1
    BY <1>3, <1>10, <1>12 DEF B
  <2>3. \A d \in Calls, w \in WorkerIds :
          calls'[d].step = "insert" => calls'[d].batch \cap logs'[w] = {}
    <3> SUFFICES ASSUME NEW d \in Calls, NEW w \in WorkerIds, calls'[d].step = "insert"
                 PROVE  calls'[d].batch \cap logs'[w] = {}
      OBVIOUS
    <3>1. d # c /\ calls[d].step = "insert"
      BY <1>6, <1>8
    <3>2. calls[d].batch \cap logs[w] = {} /\ calls[d].batch \cap B = {}
      BY <1>12, <3>1 DEF B
    <3> QED
      BY <1>10, <2>1, <3>2
  <2> QED
    BY <1>3, <1>12, <2>1, <2>2, <2>3 DEF Fresh
<1>14. \A w \in WorkerIds : Pruning(w)' = Pruning(w) /\ c \notin Pruning(w)
  BY <1>1, <1>6, <1>8 DEF Pruning
<1>15. CutoffsHold'
  <2> SUFFICES ASSUME NEW w \in WorkerIds, NEW d \in Pruning(w)
               PROVE  Cardinality(NewerThan(calls'[d].cutoff, logs'[w])) >= MaxLines
    BY <1>14 DEF CutoffsHold
  <2>1. calls'[d] = calls[d]
    BY <1>8, <1>14 DEF Pruning
  <2>2. Cardinality(NewerThan(calls[d].cutoff, logs[w])) >= MaxLines
    BY DEF IInv, CutoffsHold
  <2>3. /\ Cardinality(NewerThan(calls[d].cutoff, logs'[w])) \in Nat
        /\ Cardinality(NewerThan(calls[d].cutoff, logs[w])) \in Nat
        /\ Cardinality(NewerThan(calls[d].cutoff, logs[w]))
             <= Cardinality(NewerThan(calls[d].cutoff, logs'[w]))
    BY <1>10, MoreIsNewer
  <2> QED
    BY <2>1, <2>2, <2>3, Bounds
<1>16. NewestKept'
  <2> SUFFICES ASSUME NEW w \in WorkerIds, NEW i \in stored'[w] \ logs'[w]
               PROVE  Cardinality(NewerThan(i, logs'[w])) >= MaxLines
    BY DEF NewestKept
  <2>1. Cardinality(NewerThan(i, logs[w])) >= MaxLines
    BY <1>10 DEF IInv, NewestKept
  <2>2. /\ Cardinality(NewerThan(i, logs'[w])) \in Nat
        /\ Cardinality(NewerThan(i, logs[w])) \in Nat
        /\ Cardinality(NewerThan(i, logs[w])) <= Cardinality(NewerThan(i, logs'[w]))
    BY <1>10, MoreIsNewer
  <2> QED
    BY <2>1, <2>2, Bounds
<1>17. GapsExplained'
  <2>1. /\ dash'.worker = dash.worker /\ dash'.after = dash.after /\ dash'.shown = dash.shown
        /\ dash'.cut = dash.cut /\ dash.late \subseteq dash'.late
        /\ dash.worker = v => \A i \in B : i <= dash.after => i \in dash'.late
        /\ dash.worker \in 0..MaxWorkers
    BY <1>4 DEF IInv, Shape, TypeOK
  <2> SUFFICES ASSUME dash.worker # 0, NEW i \in logs'[dash.worker], i <= dash.after
               PROVE  i \in dash.shown \cup dash.cut \cup dash'.late
    BY <2>1 DEF GapsExplained
  <2>2. dash.worker \in WorkerIds
    BY <2>1, Bounds DEF WorkerIds
  <2>3. CASE i \in logs[dash.worker]
    BY <2>1, <2>3 DEF IInv, GapsExplained
  <2>4. CASE i \notin logs[dash.worker]
    BY <1>9, <2>1, <2>2, <2>4
  <2> QED
    BY <2>3, <2>4
<1>18. Settling'
  <2> SUFFICES ASSUME NEW w \in WorkerIds, NEW P \in SUBSET Pruning(w)
               PROVE  Cardinality(LeftBy(P, w)') <= MaxLines
    BY <1>14 DEF Settling
  <2>1. LeftBy(P, w)' \subseteq LeftBy(P, w)
    <3> SUFFICES ASSUME NEW j \in LeftBy(P, w)'
                 PROVE  j \in LeftBy(P, w)
      OBVIOUS
    <3>1. \A d \in P : calls'[d] = calls[d]
      BY <1>8, <1>14 DEF Pruning
    <3>2. \A d \in Calls : calls'[d].worker = calls[d].worker
                             /\ calls[d].batch = calls'[d].batch
      BY <1>6, <1>8 DEF B, v
    <3>3. c \in Calls \ P
      BY <1>14
    <3>4. j \in logs'[w] /\ j \notin unpruned
          /\ (\A d \in P : j > calls[d].cutoff)
          /\ (\A d \in Calls \ P : calls[d].worker = w => j \notin calls[d].batch)
      BY <1>3, <3>1, <3>2 DEF LeftBy
    <3>5. w = v => j \notin B
      BY <3>3, <3>4 DEF B, v
    <3>6. j \in logs[w]
      BY <1>9, <3>4, <3>5
    <3> QED
      BY <3>4, <3>6 DEF LeftBy
  <2>2. LeftBy(P, w) \in SUBSET (1..MaxId) /\ Cardinality(LeftBy(P, w)) <= MaxLines
    BY Typed DEF LeftBy, IInv, Shape, Settling
  <2> QED
    BY <2>1, <2>2, IdsFinite, Bounds
<1> QED
  BY <1>11, <1>13, <1>15, <1>16, <1>17, <1>18 DEF IInv

(* What is above the cutoff stays, and that is enough.                     *)
LEMMA EnoughStay ==
  ASSUME NEW S \in SUBSET (1..MaxId), NEW k \in Nat, NEW n \in Nat,
         Cardinality(NewerThan(k, S)) >= MaxLines, Cardinality(NewerThan(n, S)) >= MaxLines
  PROVE  Cardinality(NewerThan(n, NewerThan(k, S))) >= MaxLines
<1> USE DEF NewerThan
<1>1. CASE n >= k
  <2>1. \A j \in S : j \in Nat
    OBVIOUS
  <2>2. \A j \in S : j > n => j > k
    BY <1>1, <2>1
  <2>3. NewerThan(n, NewerThan(k, S)) = NewerThan(n, S)
    BY <2>2
  <2> QED
    BY <2>3
<1>2. CASE ~(n >= k)
  <2>1. \A j \in S : j \in Nat
    OBVIOUS
  <2>2. \A j \in S : j > k => j > n
    BY <1>2, <2>1
  <2>3. NewerThan(n, NewerThan(k, S)) = NewerThan(k, S)
    BY <2>2
  <2> QED
    BY <2>3
<1> QED
  BY <1>1, <1>2

LEMMA PruneKeeps ==
  ASSUME IInv, NEW c \in Calls, Prune(c)
  PROVE  IInv'
<1>1. calls[c] \in Request /\ Formed(calls[c]) /\ calls[c].step = "prune"
  BY RequestOf DEF Prune
<1> DEFINE v == calls[c].worker
           k == calls[c].cutoff
<1>2. v \in WorkerIds /\ k \in Nat
  BY <1>1 DEF Formed, Request
<1>3. UNCHANGED <<workers, nextId, dash, stored, unpruned>>
  BY DEF Prune
<1>4. logs' = [logs EXCEPT ![v] = {i \in logs[v] : ~(i <= k)}]
  BY DEF Prune, AtOrBelow
<1>5. calls' = [calls EXCEPT ![c] = IdleCall]
  BY DEF Prune, EndCall
<1>6. /\ calls' \in [Calls -> Request] /\ calls'[c] = IdleCall
      /\ \A d \in Calls : d # c => calls'[d] = calls[d]
  BY <1>5, IdleIsRequest, Typed DEF IInv, Shape
<1>7. logs \in [WorkerIds -> SUBSET (1..MaxId)] /\ logs[v] \in SUBSET (1..MaxId)
      /\ stored \in [WorkerIds -> SUBSET (1..MaxId)]
  BY <1>2, Typed DEF IInv, Shape
<1>8. {i \in logs[v] : ~(i <= k)} = NewerThan(k, logs[v])
  BY <1>2, <1>7 DEF NewerThan
<1>9. /\ logs' \in [WorkerIds -> SUBSET (1..MaxId)]
      /\ logs'[v] = NewerThan(k, logs[v])
      /\ \A w \in WorkerIds : w # v => logs'[w] = logs[w]
  BY <1>2, <1>4, <1>7, <1>8 DEF NewerThan
<1>10. /\ Cardinality(NewerThan(k, logs[v])) >= MaxLines /\ c \in Pruning(v)
       /\ \A w \in WorkerIds : c \in Pruning(w) => w = v
  BY <1>1, <1>2 DEF IInv, CutoffsHold, Pruning
<1> HIDE DEF k, v
<1>11. \A w \in WorkerIds : logs'[w] \subseteq logs[w]
  BY <1>9 DEF NewerThan
<1>12. Shape'
  <2>1. WorkersTyped'
    BY <1>3, SameWorkers
  <2>2. TypeOK'
    BY <1>3, <1>6, <1>9, <2>1, Typed DEF IInv, Shape, TypeOK, WorkersTyped, Request
  <2>3. \A d \in Calls : Formed(calls[d])'
    BY <1>6, IdleIsRequest DEF IInv, Shape, Formed
  <2> QED
    BY <1>3, <2>2, <2>3 DEF IInv, Shape, Following
<1>13. Fresh'
  <2>1. \A d \in Calls : calls'[d] = IdleCall \/ calls'[d] = calls[d]
    BY <1>6
  <2>2. IdleCall.batch = {}
    BY IdleIsRequest
  <2>3. /\ \A w \in WorkerIds : logs[w] \subseteq 1..nextId - 1
        /\ \A d \in Calls : calls[d].batch \subseteq 1..nextId - 1
        /\ \A d, e \in Calls : d # e => calls[d].batch \cap calls[e].batch = {}
        /\ \A d \in Calls, w \in WorkerIds :
             calls[d].step = "insert" => calls[d].batch \cap logs[w] = {}
    BY DEF IInv, Fresh
  <2>4. \A w \in WorkerIds : logs'[w] \subseteq 1..nextId - 1
    BY <1>11, <2>3
  <2>5. \A d \in Calls : calls'[d].batch \subseteq 1..nextId - 1
    BY <2>1, <2>2, <2>3
  <2>6. \A d, e \in Calls : d # e => calls'[d].batch \cap calls'[e].batch = {}
    BY <2>1, <2>2, <2>3
  <2>7. \A d \in Calls, w \in WorkerIds :
          calls'[d].step = "insert" => calls'[d].batch \cap logs'[w] = {}
    <3> SUFFICES ASSUME NEW d \in Calls, NEW w \in WorkerIds, calls'[d].step = "insert"
                 PROVE  calls'[d].batch \cap logs'[w] = {}
      OBVIOUS
    <3>1. CASE calls'[d] = IdleCall
      BY <2>2, <3>1
    <3>2. CASE calls'[d] = calls[d]
      <4>1. calls[d].batch \cap logs[w] = {}
        BY <2>3, <3>2
      <4> QED
        BY <1>11, <3>2, <4>1
    <3> QED
      BY <2>1, <3>1, <3>2
  <2> QED
    BY <1>3, <2>4, <2>5, <2>6, <2>7 DEF Fresh
<1>14. \A w \in WorkerIds : Pruning(w)' = Pruning(w) \ {c}
  BY <1>6, IdleIsRequest DEF Pruning
<1>15. ASSUME NEW w \in WorkerIds, NEW n \in Nat,
              Cardinality(NewerThan(n, logs[w])) >= MaxLines
       PROVE  Cardinality(NewerThan(n, logs'[w])) >= MaxLines
  BY <1>2, <1>7, <1>9, <1>10, <1>15, EnoughStay DEF k
<1>16. CutoffsHold'
  <2> SUFFICES ASSUME NEW w \in WorkerIds, NEW d \in Pruning(w) \ {c}
               PROVE  Cardinality(NewerThan(calls'[d].cutoff, logs'[w])) >= MaxLines
    BY <1>14 DEF CutoffsHold
  <2>1. calls'[d] = calls[d] /\ calls[d].cutoff \in Nat
    BY <1>6, RequestOf DEF Pruning, Request
  <2>2. Cardinality(NewerThan(calls[d].cutoff, logs[w])) >= MaxLines
    BY DEF IInv, CutoffsHold
  <2> QED
    BY <1>15, <2>1, <2>2
<1>17. NewestKept'
  <2> SUFFICES ASSUME NEW w \in WorkerIds, NEW i \in stored[w] \ logs'[w]
               PROVE  Cardinality(NewerThan(i, logs'[w])) >= MaxLines
    BY <1>3 DEF NewestKept
  <2>1. i \in Nat
    BY <1>7
  <2>2. CASE i \notin logs[w]
    <3>1. Cardinality(NewerThan(i, logs[w])) >= MaxLines
      BY <2>2 DEF IInv, NewestKept
    <3> QED
      BY <1>15, <2>1, <3>1
  <2>3. CASE i \in logs[w]
    <3>1. w = v /\ i <= k
      BY <1>2, <1>9, <2>1, <2>3 DEF NewerThan
    <3>2. NewerThan(k, logs[v]) \in SUBSET NewerThan(i, logs[v])
          /\ NewerThan(i, logs[v]) \in SUBSET (1..MaxId)
      BY <1>2, <1>7, <2>1, <3>1 DEF NewerThan
    <3>3. Cardinality(NewerThan(k, logs[v])) <= Cardinality(NewerThan(i, logs[v]))
          /\ Cardinality(NewerThan(k, logs[v])) \in Nat
          /\ Cardinality(NewerThan(i, logs[v])) \in Nat
      BY <3>2, IdsFinite
    <3>4. Cardinality(NewerThan(i, logs[w])) >= MaxLines
      BY <1>10, <3>1, <3>3, Bounds
    <3> QED
      BY <1>15, <2>1, <3>4
  <2> QED
    BY <2>2, <2>3
<1>18. GapsExplained'
  <2>1. dash.worker \in 0..MaxWorkers
    BY DEF IInv, Shape, TypeOK
  <2> SUFFICES ASSUME dash.worker # 0, NEW i \in logs'[dash.worker], i <= dash.after
               PROVE  i \in dash.shown \cup dash.cut \cup dash.late
    BY <1>3 DEF GapsExplained
  <2>2. dash.worker \in WorkerIds
    BY <2>1, Bounds DEF WorkerIds
  <2>3. i \in logs[dash.worker]
    BY <1>11, <2>2
  <2> QED
    BY <2>3 DEF IInv, GapsExplained
<1>19. Settling'
  <2> SUFFICES ASSUME NEW w \in WorkerIds, NEW P \in SUBSET (Pruning(w) \ {c})
               PROVE  Cardinality(LeftBy(P, w)') <= MaxLines
    BY <1>14 DEF Settling
  <2>1. \A d \in P : calls'[d] = calls[d] /\ d # c
    BY <1>6 DEF Pruning
  <2>2. \A Q \in SUBSET Pruning(w) : /\ LeftBy(Q, w) \in SUBSET (1..MaxId)
                                     /\ Cardinality(LeftBy(Q, w)) <= MaxLines
    BY <1>7 DEF LeftBy, IInv, Settling
  <2>3. PICK Q \in SUBSET Pruning(w) : LeftBy(P, w)' \subseteq LeftBy(Q, w)
    <3>1. CASE w = v
      <4>1. P \cup {c} \in SUBSET Pruning(w)
        BY <1>10, <3>1
      <4>2. LeftBy(P, w)' \subseteq LeftBy(P \cup {c}, w)
        <5> SUFFICES ASSUME NEW j \in LeftBy(P, w)'
                     PROVE  j \in LeftBy(P \cup {c}, w)
          OBVIOUS
        <5>1. j \in logs'[w] /\ j \notin unpruned /\ \A d \in P : j > calls[d].cutoff
          BY <1>3, <2>1 DEF LeftBy
        <5>2. j \in logs[w] /\ j > calls[c].cutoff
          BY <1>9, <3>1, <5>1 DEF NewerThan, k
        <5>3. \A d \in Calls \ (P \cup {c}) : calls[d].worker = w => j \notin calls[d].batch
          BY <1>6 DEF LeftBy
        <5> QED
          BY <5>1, <5>2, <5>3 DEF LeftBy
      <4> QED
        BY <4>1, <4>2
    <3>2. CASE w # v
      <4>1. LeftBy(P, w)' \subseteq LeftBy(P, w)
        <5> SUFFICES ASSUME NEW j \in LeftBy(P, w)'
                     PROVE  j \in LeftBy(P, w)
          OBVIOUS
        <5>1. j \in logs[w] /\ j \notin unpruned /\ \A d \in P : j > calls[d].cutoff
          BY <1>3, <1>9, <2>1, <3>2 DEF LeftBy
        <5>2. \A d \in Calls \ P : calls[d].worker = w => j \notin calls[d].batch
          BY <1>6, <3>2 DEF LeftBy, v
        <5> QED
          BY <5>1, <5>2 DEF LeftBy
      <4> QED
        BY <4>1
    <3> QED
      BY <3>1, <3>2
  <2> QED
    BY <2>2, <2>3, IdsFinite, Bounds
<1> QED
  BY <1>12, <1>13, <1>16, <1>17, <1>18, <1>19 DEF IInv
-------------------------------------------------------------------------------
(* The dashboard's polls.                                                  *)
LEMMA DashOnly ==
  ASSUME IInv, UNCHANGED <<workers, logs, nextId, calls, stored, unpruned>>,
         dash' \in [worker : 0..MaxWorkers, after : 0..MaxId, shown : SUBSET (1..MaxId),
                    cut : SUBSET (1..MaxId), late : SUBSET (1..MaxId)],
         Following', GapsExplained'
  PROVE  IInv'
<1>1. Shape'
  <2>1. WorkersTyped'
    BY SameWorkers
  <2>2. TypeOK'
    BY <2>1, Typed DEF IInv, Shape, TypeOK, WorkersTyped
  <2> QED
    BY <2>2 DEF IInv, Shape, Formed
<1>2. Fresh' /\ CutoffsHold' /\ NewestKept'
  BY DEF IInv, Fresh, CutoffsHold, Pruning, NewestKept
<1>3. Settling'
  <2>1. \A w : Pruning(w)' = Pruning(w)
    BY DEF Pruning
  <2>2. \A P, w : LeftBy(P, w)' = LeftBy(P, w)
    BY DEF LeftBy
  <2> QED
    BY <2>1, <2>2 DEF IInv, Settling
<1> QED
  BY <1>1, <1>2, <1>3 DEF IInv

LEMMA FollowKeeps ==
  ASSUME IInv, NEW w \in Registered, Follow(w)
  PROVE  IInv'
<1>1. dash \in [worker : 0..MaxWorkers, after : 0..MaxId, shown : SUBSET (1..MaxId),
                cut : SUBSET (1..MaxId), late : SUBSET (1..MaxId)]
      /\ dash.after = 0
  BY DEF Follow, IInv, Shape, TypeOK, Following
<1>2. w \in WorkerIds /\ w \in 0..MaxWorkers /\ w # 0
  BY Typed, Bounds DEF IInv, Shape, WorkersTyped, Registered, WorkerIds
<1>3. dash' = [dash EXCEPT !.worker = w]
      /\ UNCHANGED <<workers, logs, nextId, calls, stored, unpruned>>
  BY DEF Follow
<1>4. dash' \in [worker : 0..MaxWorkers, after : 0..MaxId, shown : SUBSET (1..MaxId),
                 cut : SUBSET (1..MaxId), late : SUBSET (1..MaxId)]
      /\ dash'.worker = w /\ dash'.after = 0
  BY <1>1, <1>2, <1>3
<1>5. Following'
  BY <1>2, <1>4 DEF Following
<1>6. GapsExplained'
  <2>1. \A i \in logs[w] : ~(i <= 0)
    BY <1>2, Typed, Bounds DEF IInv, Shape
  <2> QED
    BY <1>2, <1>3, <1>4, <2>1 DEF GapsExplained
<1> QED
  BY <1>3, <1>4, <1>5, <1>6, DashOnly

LEMMA LastOf ==
  ASSUME NEW S \in SUBSET (1..MaxId), NEW after \in 0..MaxId, \A i \in S : i > after
  PROVE  /\ Last(S, after) \in 0..MaxId
         /\ S # {} => Last(S, after) \in S /\ \A i \in S : i <= Last(S, after)
         /\ S = {} => Last(S, after) = after
<1>1. CASE S = {}
  BY <1>1 DEF Last
<1>2. CASE S # {}
  <2>1. PICK m \in S : \A i \in S : i <= m
    BY <1>2, Greatest
  <2>2. NewerThan(m, S) = {}
    <3>1. \A i \in S : ~(i > m)
      BY <2>1
    <3> QED
      BY <3>1 DEF NewerThan
  <2>3. PICK l \in S : l = Last(S, after) /\ NewerThan(l, S) = {}
    BY <1>2, <2>2 DEF Last
  <2>4. \A i \in S : i <= l
    <3>1. \A i \in S : ~(i > l)
      BY <2>3 DEF NewerThan
    <3> QED
      BY <3>1
  <2>5. l \in 0..MaxId
    BY Bounds
  <2> QED
    BY <1>2, <2>3, <2>4, <2>5
<1> QED
  BY <1>1, <1>2

LEMMA PollKeeps ==
  ASSUME IInv, PollTail
  PROVE  IInv'
<1> DEFINE w == dash.worker
           new == {i \in logs[w] : i > dash.after}
           page == Page(w, dash.after)
<1>1. dash \in [worker : 0..MaxWorkers, after : 0..MaxId, shown : SUBSET (1..MaxId),
                cut : SUBSET (1..MaxId), late : SUBSET (1..MaxId)]
      /\ w # 0
  BY DEF PollTail, IInv, Shape, TypeOK
<1>2. w \in WorkerIds
  BY <1>1, Bounds DEF WorkerIds
<1>3. logs[w] \in SUBSET (1..MaxId) /\ new \in SUBSET (1..MaxId)
  BY <1>2, Typed DEF IInv, Shape
<1>4. page = Newest(new, Limit) /\ page \in SUBSET new
  BY DEF Page, Newest
<1>5. dash' = [dash EXCEPT !.after = Last(page, dash.after),
                 !.shown = dash.shown \cup page,
                 !.cut = IF Cardinality(page) < Limit THEN dash.cut
                         ELSE dash.cut \cup (new \ page)]
  BY DEF PollTail
<1>6. UNCHANGED <<workers, logs, nextId, calls, stored, unpruned>>
  BY DEF PollTail
<1> HIDE DEF page
<1>7. /\ page \in SUBSET (1..MaxId) /\ Last(page, dash.after) \in 0..MaxId
      /\ page # {} => Last(page, dash.after) \in page
                        /\ \A i \in page : i <= Last(page, dash.after)
      /\ page = {} => Last(page, dash.after) = dash.after
  <2>1. page \in SUBSET (1..MaxId) /\ \A i \in page : i > dash.after
    BY <1>3, <1>4
  <2>2. dash.after \in 0..MaxId
    BY <1>1
  <2> QED
    BY <2>1, <2>2, LastOf
<1> DEFINE cut == IF Cardinality(page) < Limit THEN dash.cut ELSE dash.cut \cup (new \ page)
<1>8. cut \in SUBSET (1..MaxId)
  BY <1>1, <1>3
<1>9. dash' = [dash EXCEPT !.after = Last(page, dash.after),
                 !.shown = dash.shown \cup page, !.cut = cut]
  BY <1>5
<1> HIDE DEF cut
<1>10. /\ dash' \in [worker : 0..MaxWorkers, after : 0..MaxId, shown : SUBSET (1..MaxId),
                     cut : SUBSET (1..MaxId), late : SUBSET (1..MaxId)]
       /\ dash'.worker = w /\ dash'.after = Last(page, dash.after)
       /\ dash'.shown = dash.shown \cup page /\ dash'.cut = cut /\ dash'.late = dash.late
  BY <1>1, <1>7, <1>8, <1>9
<1>11. Following'
  BY <1>1, <1>10 DEF Following
<1>12. GapsExplained'
  <2> SUFFICES ASSUME NEW i \in logs[w], i <= dash'.after
               PROVE  i \in dash.shown \cup page \cup cut \cup dash.late
    BY <1>1, <1>6, <1>10 DEF GapsExplained
  <2>1. i \in Nat /\ dash.after \in Nat
    BY <1>1, <1>3
  <2>2. CASE i <= dash.after
    <3>1. i \in dash.shown \cup dash.cut \cup dash.late
      BY <1>1, <2>2 DEF IInv, GapsExplained
    <3>2. dash.cut \subseteq cut
      BY DEF cut
    <3> QED
      BY <3>1, <3>2
  <2>3. CASE ~(i <= dash.after)
    <3>1. i \in new
      BY <2>1, <2>3
    <3>2. CASE i \in page
      BY <3>2
    <3>3. CASE i \notin page
      <4>1. Cardinality(page) >= Limit
        BY <1>3, <1>4, <3>1, <3>3, NewestAreMany, Bounds
      <4>2. ~(Cardinality(page) < Limit)
        BY <1>7, <4>1, IdsFinite, Bounds
      <4> QED
        BY <3>1, <3>3, <4>2 DEF cut
    <3> QED
      BY <3>2, <3>3
  <2> QED
    BY <2>2, <2>3
<1> QED
  BY <1>6, <1>10, <1>11, <1>12, DashOnly
-------------------------------------------------------------------------------
LEMMA StepIInv == IInv /\ [Next]_vars => IInv'
<1> SUFFICES ASSUME IInv, [Next]_vars
             PROVE  IInv'
  OBVIOUS
<1>1. CASE Registration
  BY <1>1, RegistrationKeeps
<1>2. CASE Ingest
  BY <1>2, ShipKeeps, TakeIdKeeps, CommitKeeps, ReadCutoffKeeps, PruneKeeps DEF Ingest
<1>3. CASE \E c \in Calls : CallFails(c)
  BY <1>3, FailureKeeps
<1>4. CASE \E w \in Registered : Follow(w)
  BY <1>4, FollowKeeps
<1>5. CASE PollTail
  BY <1>5, PollKeeps
<1>6. CASE UNCHANGED vars
  <2>1. UNCHANGED <<workers, logs, nextId, calls, dash, stored, unpruned>>
    BY <1>6 DEF vars
  <2> QED
    BY <2>1, SameWorkers, WorkersOnly
<1> QED
  BY <1>1, <1>2, <1>3, <1>4, <1>5, <1>6 DEF Next

(* Spec keeps the inductive invariant, which the theorems below rest on.   *)
THEOREM SpecIInv == Spec => []IInv
BY InitIInv, StepIInv, PTL DEF Spec

(* The tables, the requests in flight and the follower have their types,   *)
(* and no two workers share a token: createWorker, workerSetup, ingest and *)
(* listForDashboard, for any number of requests at once.                   *)
THEOREM TypeCorrect == Spec => []TypeOK
<1>1. IInv => TypeOK
  BY DEF IInv, Shape
<1> QED
  BY <1>1, SpecIInv, PTL

(* ingest's pruning removes a line only when MaxLines newer ones of the    *)
(* worker stay, however batches, prunes and failures overlap.              *)
THEOREM NewestAreKept == Spec => []NewestKept
<1>1. IInv => NewestKept
  BY DEF IInv
<1> QED
  BY <1>1, SpecIInv, PTL

(* The table of ingest's lines is bounded: MaxLines lines of a worker, and *)
(* the batches whose request has not finished or failed before its prune.  *)
THEOREM TailIsBounded == Spec => []TailBounded
<1>1. IInv => TailBounded
  <2> SUFFICES ASSUME IInv, NEW w \in WorkerIds
               PROVE  Cardinality(logs[w] \ Unfinished(w)) <= MaxLines
    BY DEF TailBounded
  <2>1. LeftBy({}, w) = logs[w] \ Unfinished(w)
    BY DEF LeftBy, Unfinished
  <2>2. Cardinality(LeftBy({}, w)) <= MaxLines
    BY DEF IInv, Settling
  <2> QED
    BY <2>1, <2>2
<1> QED
  BY <1>1, SpecIInv, PTL

(* A dashboard that polls listForDashboard with its last id misses a kept  *)
(* line only behind a full page or an insert that committed late.          *)
THEOREM GapsAreExplained == Spec => []GapsExplained
<1>1. IInv => GapsExplained
  BY DEF IInv
<1> QED
  BY <1>1, SpecIInv, PTL
===============================================================================
