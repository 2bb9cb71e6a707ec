---------------------------- MODULE ClipStoreProofs ----------------------------
(***************************************************************************)
(* Rows and objects, for any files, matches and handlers: no delete and no *)
(* sweep removes an object of a clip it has not looked at, no object is    *)
(* left without a row but by a failure, and re-renders are not announced.  *)
(***************************************************************************)
EXTENDS ClipStore, FiniteSetTheorems, TLAPS

Deletes == {"deleteMatch", "deleteDemo"}

Call == [op : {"none", "ingest", "announce", "deleteClip", "deleteMatch", "deleteDemo", "sweep"},
         step : {"idle", "known", "save", "post", "files", "rows", "match",
                 "list", "listRows", "listObjects", "objects"},
         files : SUBSET Files, known : SUBSET Files,
         scope : SUBSET Matches, code : 0..MaxCodes,
         fresh : SUBSET Codes, keys : SUBSET KeysFor(Files),
         attempt : 0..Attempts]

(* A handler at each of its steps.                                         *)
Formed(k) ==
  /\ k.step \in {"known", "save"} => k.op = "ingest"
  /\ k.step = "known" => k.fresh = {}
  /\ k.step \in {"list", "listRows", "listObjects"} => k.op = "sweep"
  /\ k.step \in {"files", "match"} => k.op \in Deletes
  /\ k.step = "rows" => k.op \in {"deleteClip"} \cup Deletes
  /\ k.step = "objects" => k.op \in {"deleteClip", "sweep"} \cup Deletes
  /\ k.step = "rows" /\ k.op = "deleteClip" => k.code # 0 /\ \E f \in Files : k.files = {f}
  /\ k.op = "sweep" => k.files = {}

(* What a handler knows of a saved clip, unless the clip was saved since.  *)
Knows(k, f) ==
  /\ k.op \in Deletes /\ k.step = "rows"
       => \/ f \in k.files <=> matchOf[f] \in k.scope
          \/ f \in k.files /\ matchOf[f] = NoMatch
  /\ k.op \in Deletes /\ k.step \in {"match", "objects"} /\ f \in k.files => matchOf[f] = NoMatch
  /\ k.op = "deleteClip" /\ k.step = "objects" => f \notin k.files
  /\ k.step = "listObjects" => f \in k.known
  /\ k.op = "sweep" /\ k.step = "objects" => \A p \in Parts : <<f, p>> \notin k.keys

Spared == \A c \in Calls : \A f \in Saved : f \in since[c] \/ Knows(calls[c], f)

(* Ingestions that may still announce a clip.                              *)
Awaits(k, code) ==
  /\ k.step = "save"
  /\ code \in k.fresh \/ \E f \in k.files \ k.known : clips[f] = code

Awaiting(code) == {c \in Calls : Awaits(calls[c], code)}

Paid ==
  \A code \in Codes :
    /\ announced[code] + Cardinality(Awaiting(code)) <= readers[code]
    /\ code > created => announced[code] = 0 /\ Awaiting(code) = {}

Shape == TypeOK /\ \A c \in Calls : Formed(calls[c])

IInv == Shape /\ Spared /\ Paid /\ NothingLeaks
-------------------------------------------------------------------------------
LEMMA Bounds == /\ Video \in Parts /\ Owner \in [Files -> Matches] /\ NoMatch \notin Matches
                /\ MaxCodes \in Nat /\ Attempts \in Nat \ {0} /\ IsFiniteSet(Calls)
BY ClipStoreAssumption DEF ClipStoreAssumption

LEMMA IdleIsCall == /\ Idle \in Call /\ Formed(Idle) /\ Idle.step = "idle"
                    /\ Idle.files = {} /\ Idle.fresh = {}
BY Bounds DEF Idle, Call, Formed, Deletes

LEMMA CallsTyped == TypeOK => calls \in [Calls -> Call]
BY DEF TypeOK, Call

LEMMA InitIInv == Init => IInv
<1> SUFFICES ASSUME Init
             PROVE  IInv
  OBVIOUS
<1>1. \A c \in Calls : calls[c] = Idle
  BY DEF Init
<1>2. calls \in [Calls -> Call] /\ \A c \in Calls : Formed(calls[c])
  BY IdleIsCall DEF Init
<1>3. Saved = {}
  BY DEF Init, Saved
<1>4. TypeOK
  <2>1. calls \in [Calls -> Call] /\ rendered \in BOOLEAN /\ since \in [Calls -> SUBSET Files]
    BY <1>2 DEF Init
  <2>2. /\ clips \in [Files -> 0..created] /\ created \in 0..MaxCodes
        /\ matchOf \in [Files -> matches \cup {NoMatch}]
        /\ announced \in [Codes -> Nat] /\ readers \in [Codes -> Nat]
    BY Bounds DEF Init
  <2> QED
    BY <1>3, <2>1, <2>2 DEF Init, TypeOK, Call
<1>5. Spared
  BY <1>3 DEF Spared
<1>6. \A code \in Codes : Awaiting(code) = {} /\ announced[code] = 0 /\ readers[code] = 0
  BY <1>1 DEF Init, Awaiting, Awaits, Idle
<1>7. Paid
  BY <1>6, FS_EmptySet DEF Paid
<1>8. NothingLeaks
  BY DEF Init, NothingLeaks
<1> QED
  BY <1>2, <1>4, <1>5, <1>7, <1>8 DEF IInv, Shape
-------------------------------------------------------------------------------
(* Steps of one handler that write no row and no object.                   *)
LEMMA HandlerKeeps ==
  ASSUME IInv, NEW c \in Calls, NEW k \in Call, Formed(k),
         calls' = [calls EXCEPT ![c] = k],
         UNCHANGED <<bucket, Rows, rendered, pending, Discord>>,
         since' = since \/ since' = [since EXCEPT ![c] = {}],
         \A f \in Saved : f \in since'[c] \/ Knows(k, f),
         k.step = "save" => k.fresh = {} /\ \A f \in k.files \ k.known : f \notin Saved,
         leaked \subseteq leaked', leaked' \subseteq KeysFor(Files),
         calls[c].step \in {"match", "objects"}
           => \/ bucket \cap KeysFor(calls[c].files) \subseteq leaked'
  PROVE  IInv'
<1>1. calls'[c] = k /\ \A d \in Calls : d # c => calls'[d] = calls[d]
  BY CallsTyped DEF IInv, Shape
<1>2. UNCHANGED <<bucket, clips, matchOf, matches, favorites, created, announced, readers, pending>>
  BY DEF Rows, Discord
<1>3. TypeOK'
  <2>1. calls' \in [Calls -> Call]
    BY CallsTyped DEF IInv, Shape
  <2>2. since' \in [Calls -> SUBSET Files]
    BY DEF IInv, Shape, TypeOK
  <2>3. UNCHANGED <<Saved, rendered>>
    BY <1>2 DEF Saved
  <2> QED
    BY <1>2, <2>1, <2>2, <2>3 DEF IInv, Shape, TypeOK, Call
<1>4. Shape'
  BY <1>1, <1>3 DEF IInv, Shape
<1>5. Spared'
  <2> SUFFICES ASSUME NEW d \in Calls, NEW f \in Saved
               PROVE  (f \in since[d] \/ Knows(calls[d], f))'
    BY <1>2 DEF Spared, Saved
  <2>1. CASE d = c
    BY <1>1, <1>2, <2>1 DEF Knows
  <2>2. CASE d # c
    <3>1. since'[d] = since[d] /\ calls'[d] = calls[d]
      BY <1>1, <2>2 DEF IInv, Shape, TypeOK
    <3>2. f \in since[d] \/ Knows(calls[d], f)
      BY DEF IInv, Spared
    <3> QED
      BY <1>2, <3>1, <3>2 DEF Knows
  <2> QED
    BY <2>1, <2>2
<1>6. Paid'
  <2> SUFFICES ASSUME NEW code \in Codes
               PROVE  /\ announced[code] + Cardinality(Awaiting(code)') <= readers[code]
                      /\ code > created => announced[code] = 0 /\ Awaiting(code)' = {}
    BY <1>2 DEF Paid, Codes
  <2>1. Awaiting(code)' \subseteq Awaiting(code)
    <3>1. ~Awaits(calls[c], code)'
      BY <1>1, <1>2, Bounds DEF Awaits, Saved, Codes, Call
    <3>2. \A d \in Calls : d # c => (Awaits(calls[d], code)' <=> Awaits(calls[d], code))
      BY <1>1, <1>2 DEF Awaits
    <3> QED
      BY <3>1, <3>2 DEF Awaiting
  <2>2. /\ Cardinality(Awaiting(code)') <= Cardinality(Awaiting(code))
        /\ Cardinality(Awaiting(code)') \in Nat /\ Cardinality(Awaiting(code)) \in Nat
    <3>1. IsFiniteSet(Awaiting(code))
      BY Bounds, FS_Subset DEF Awaiting
    <3> QED
      BY <2>1, <3>1, FS_Subset, FS_CardinalityType
  <2>3. announced[code] \in Nat /\ readers[code] \in Nat
    BY DEF IInv, Shape, TypeOK
  <2> QED
    BY <2>1, <2>2, <2>3 DEF IInv, Paid
<1>7. NothingLeaks'
  <2> SUFFICES ASSUME NEW f \in Files \ Saved, NEW p \in Parts,
                      <<f, p>> \in bucket \ leaked', f \notin pending
               PROVE  \E d \in Calls : f \in calls'[d].files /\ calls'[d].step \in {"match", "objects"}
    BY <1>2 DEF NothingLeaks, Saved
  <2>1. PICK d \in Calls : f \in calls[d].files /\ calls[d].step \in {"match", "objects"}
    BY DEF IInv, NothingLeaks
  <2>2. d # c
    BY <2>1 DEF KeysFor
  <2> QED
    BY <1>1, <2>1, <2>2
<1> QED
  BY <1>4, <1>5, <1>6, <1>7 DEF IInv

LEMMA HandlerOf ==
  ASSUME IInv, NEW c \in Calls
  PROVE  calls[c] \in Call /\ Formed(calls[c]) /\ leaked \subseteq KeysFor(Files)
         /\ Saved \subseteq Files /\ bucket \subseteq KeysFor(Files) /\ matches \subseteq Matches
BY CallsTyped DEF IInv, Shape, TypeOK, Saved

(* A handler that goes on, or ends, where it has nothing to remember.      *)
LEMMA GoesOn ==
  ASSUME IInv, NEW c \in Calls, NEW k \in Call, Put(c, k),
         k.step \in {"idle", "known", "post", "files", "list", "listRows"},
         k.step = "known" => k.op = "ingest" /\ k.fresh = {},
         k.step \in {"list", "listRows"} => k.op = "sweep",
         k.step = "files" => k.op \in Deletes,
         k.op = "sweep" => k.files = {},
         calls[c].step \notin {"match", "objects"},
         UNCHANGED <<bucket, Rows, rendered, pending, leaked, Discord>>,
         since' = since \/ since' = [since EXCEPT ![c] = {}]
  PROVE  IInv'
<1>1. Formed(k)
  BY DEF Formed
<1>2. \A f \in Saved : Knows(k, f)
  BY DEF Knows, Deletes
<1>3. k.step # "save" /\ leaked \subseteq KeysFor(Files)
  BY HandlerOf
<1>4. calls' = [calls EXCEPT ![c] = k]
  BY DEF Put
<1> QED
  BY <1>1, <1>2, <1>3, <1>4, HandlerKeeps

LEMMA IngestKeeps ==
  ASSUME IInv, NEW c \in Calls, IngestMatches(c) \/ IngestKnown(c)
  PROVE  IInv'
<1>1. CASE IngestMatches(c)
  <2> DEFINE k == [Idle EXCEPT !.op = "ingest", !.step = "known", !.scope = matches]
  <2>1. k \in Call /\ k.step = "known" /\ k.op = "ingest" /\ k.fresh = {}
    <3>1. Idle \in Call /\ Idle.fresh = {} /\ matches \in SUBSET Matches
      BY IdleIsCall, HandlerOf
    <3> QED
      BY <3>1 DEF Call
  <2>2. /\ Put(c, k) /\ calls[c].step = "idle"
        /\ UNCHANGED <<bucket, Rows, rendered, pending, leaked, since, Discord>>
    BY <1>1 DEF IngestMatches
  <2> HIDE DEF k
  <2> QED
    BY <2>1, <2>2, GoesOn
<1>2. CASE IngestKnown(c)
  <2> DEFINE k == [calls[c] EXCEPT !.step = "save", !.files = Files, !.known = Saved]
  <2>1. calls[c] \in Call /\ Formed(calls[c]) /\ calls[c].step = "known" /\ Saved \subseteq Files
    BY <1>2, HandlerOf DEF IngestKnown
  <2>2. /\ k \in Call /\ k.step = "save" /\ k.op = "ingest" /\ k.fresh = {}
        /\ k.files = Files /\ k.known = Saved
    BY <2>1 DEF Formed, Call
  <2>3. /\ calls' = [calls EXCEPT ![c] = k]
        /\ UNCHANGED <<bucket, Rows, rendered, pending, leaked, since, Discord>>
    BY <1>2 DEF IngestKnown, Put, KnownFiles
  <2> HIDE DEF k
  <2>4. Formed(k) /\ \A f \in Saved : Knows(k, f)
    BY <2>2 DEF Formed, Knows, Deletes
  <2>5. leaked \subseteq KeysFor(Files)
    BY HandlerOf
  <2> QED
    BY <2>1, <2>2, <2>3, <2>4, <2>5, HandlerKeeps
<1> QED
  BY <1>1, <1>2

LEMMA AnnounceKeeps ==
  ASSUME IInv, NEW c \in Calls, Announce(c)
  PROVE  IInv'
<1>1. /\ calls[c].step = "post" /\ UNCHANGED <<bucket, Rows, rendered, pending, leaked, since, Discord>>
  BY DEF Announce, PostAnswered, PostRetried, PostFatal
<1>2. calls[c] \in Call /\ Formed(calls[c])
  BY HandlerOf
<1>3. CASE Put(c, Idle)
  BY <1>1, <1>3, IdleIsCall, GoesOn DEF Idle
<1>4. ASSUME NEW fresh \in SUBSET Codes, NEW attempt \in 0..Attempts,
             Put(c, [calls[c] EXCEPT !.fresh = fresh, !.attempt = attempt])
      PROVE  IInv'
  <2> DEFINE k == [calls[c] EXCEPT !.fresh = fresh, !.attempt = attempt]
  <2>1. k \in Call /\ k.step = "post" /\ k.op = calls[c].op /\ k.files = calls[c].files
    BY <1>1, <1>2 DEF Call
  <2>2. k.op = "sweep" => k.files = {}
    BY <1>2, <2>1 DEF Formed
  <2>3. Put(c, k)
    BY <1>4
  <2> HIDE DEF k
  <2> QED
    BY <1>1, <2>1, <2>2, <2>3, GoesOn
<1>5. calls[c].fresh \in SUBSET Codes /\ calls[c].attempt \in 0..Attempts /\ 1 \in 0..Attempts
  BY <1>2, Bounds DEF Call
<1>6. ASSUME NEW n, DoneWith(c, n)
      PROVE  IInv'
  <2>1. CASE Put(c, [calls[c] EXCEPT !.fresh = calls[c].fresh \ {n}, !.attempt = 1])
    BY <1>4, <1>5, <2>1
  <2> QED
    BY <1>3, <1>6, <2>1 DEF DoneWith
<1>7. ASSUME calls[c].attempt # Attempts,
             Put(c, [calls[c] EXCEPT !.attempt = calls[c].attempt + 1])
      PROVE  IInv'
  <2>1. calls[c].attempt + 1 \in 0..Attempts
    BY <1>5, <1>7, Bounds
  <2>2. [calls[c] EXCEPT !.attempt = calls[c].attempt + 1]
          = [calls[c] EXCEPT !.fresh = calls[c].fresh, !.attempt = calls[c].attempt + 1]
    BY <1>2 DEF Call
  <2> QED
    BY <1>4, <1>5, <1>7, <2>1, <2>2
<1> QED
  BY <1>3, <1>6, <1>7 DEF Announce, PostAnswered, PostRetried, PostFatal

LEMMA LookKeeps ==
  ASSUME IInv, NEW c \in Calls,
         \/ \E f \in Files : DeleteClip(c, f)
         \/ \E m \in Matches : DeleteMatch(c, m)
         \/ DeleteDemo(c) \/ SweepStart(c)
  PROVE  IInv'
<1>1. ASSUME NEW f \in Files, DeleteClip(c, f)
      PROVE  IInv'
  <2> DEFINE k == [Idle EXCEPT !.op = "deleteClip", !.step = "rows", !.files = {f}, !.code = clips[f]]
  <2>1. clips[f] \in 0..MaxCodes /\ clips[f] # 0
    <3>1. clips \in [Files -> 0..created] /\ created \in 0..MaxCodes
      BY DEF IInv, Shape, TypeOK
    <3>2. clips[f] # 0
      BY <1>1 DEF DeleteClip, Saved
    <3> QED
      BY <3>1, <3>2, Bounds
  <2>2. k \in Call /\ k.step = "rows" /\ k.op = "deleteClip" /\ k.code = clips[f] /\ k.files = {f}
    <3>1. Idle \in Call /\ {f} \in SUBSET Files
      BY IdleIsCall
    <3> QED
      BY <2>1, <3>1 DEF Call
  <2>3. /\ calls' = [calls EXCEPT ![c] = k] /\ calls[c].step = "idle"
        /\ since' = [since EXCEPT ![c] = {}]
        /\ UNCHANGED <<bucket, Rows, rendered, pending, leaked, Discord>>
    BY <1>1 DEF DeleteClip, Look, Put
  <2> HIDE DEF k
  <2>4. Formed(k) /\ \A g \in Saved : Knows(k, g)
    BY <2>1, <2>2 DEF Formed, Knows, Deletes
  <2>5. leaked \subseteq KeysFor(Files)
    BY HandlerOf
  <2> QED
    BY <2>2, <2>3, <2>4, <2>5, HandlerKeeps
<1>2. ASSUME NEW op \in Deletes, NEW scope \in SUBSET Matches,
             Look(c, [Idle EXCEPT !.op = op, !.step = "files", !.scope = scope])
      PROVE  IInv'
  <2> DEFINE k == [Idle EXCEPT !.op = op, !.step = "files", !.scope = scope]
  <2>1. k \in Call /\ k.step = "files" /\ k.op = op /\ k.files = {}
    BY IdleIsCall DEF Call, Deletes
  <2>2. /\ Put(c, k) /\ calls[c].step = "idle" /\ since' = [since EXCEPT ![c] = {}]
        /\ UNCHANGED <<bucket, Rows, rendered, pending, leaked, Discord>>
    BY <1>2 DEF Look
  <2> HIDE DEF k
  <2> QED
    BY <2>1, <2>2, GoesOn
<1>3. CASE SweepStart(c)
  <2> DEFINE k == [Idle EXCEPT !.op = "sweep", !.step = "list"]
  <2>1. k \in Call /\ k.step = "list" /\ k.op = "sweep" /\ k.files = {}
    BY IdleIsCall DEF Call
  <2>2. /\ Put(c, k) /\ calls[c].step = "idle" /\ since' = [since EXCEPT ![c] = {}]
        /\ UNCHANGED <<bucket, Rows, rendered, pending, leaked, Discord>>
    BY <1>3 DEF SweepStart, Look
  <2> HIDE DEF k
  <2> QED
    BY <2>1, <2>2, GoesOn
<1>4. matches \in SUBSET Matches /\ \A m \in Matches : {m} \in SUBSET Matches
  BY HandlerOf
<1> QED
  BY <1>1, <1>2, <1>3, <1>4 DEF DeleteMatch, DeleteDemo, Deletes

LEMMA DeleteFilesKeeps ==
  ASSUME IInv, NEW c \in Calls, DeleteFiles(c)
  PROVE  IInv'
<1> DEFINE k == [calls[c] EXCEPT !.step = "rows", !.files = FilesOf(calls[c].scope)]
<1>1. calls[c] \in Call /\ Formed(calls[c]) /\ calls[c].step = "files" /\ leaked \subseteq KeysFor(Files)
      /\ Saved \subseteq Files
  BY HandlerOf DEF DeleteFiles
<1>2. /\ k \in Call /\ k.step = "rows" /\ k.op = calls[c].op /\ k.op \in Deletes
      /\ k.scope = calls[c].scope /\ k.files = FilesOf(k.scope)
  <2>1. FilesOf(calls[c].scope) \in SUBSET Files
    BY <1>1 DEF FilesOf
  <2> QED
    BY <1>1, <2>1 DEF Formed, Call
<1>3. /\ calls' = [calls EXCEPT ![c] = k] /\ since' = [since EXCEPT ![c] = {}]
      /\ UNCHANGED <<bucket, Rows, rendered, pending, leaked, Discord>>
  BY DEF DeleteFiles, Put, DoomedFiles
<1> HIDE DEF k
<1>4. Formed(k) /\ \A f \in Saved : Knows(k, f)
  BY <1>2 DEF Formed, Knows, Deletes, FilesOf
<1> QED
  BY <1>1, <1>2, <1>3, <1>4, HandlerKeeps

LEMMA SweepListKeeps ==
  ASSUME IInv, NEW c \in Calls, SweepList(c)
  PROVE  IInv'
<1>1. calls[c] \in Call /\ Formed(calls[c]) /\ calls[c].step = "list" /\ leaked \subseteq KeysFor(Files)
      /\ Saved \subseteq Files /\ bucket \subseteq KeysFor(Files)
  BY HandlerOf DEF SweepList
<1>2. calls[c].op = "sweep" /\ calls[c].files = {}
  BY <1>1 DEF Formed
<1>3. /\ since' = [since EXCEPT ![c] = {}]
      /\ UNCHANGED <<bucket, Rows, rendered, pending, leaked, Discord>>
  BY DEF SweepList
<1>4. CASE Put(c, [calls[c] EXCEPT !.step = "listRows", !.keys = bucket])
  <2> DEFINE k == [calls[c] EXCEPT !.step = "listRows", !.keys = bucket]
  <2>1. k \in Call /\ k.step = "listRows" /\ k.op = "sweep" /\ k.files = {}
    BY <1>1, <1>2 DEF Call
  <2> HIDE DEF k
  <2> QED
    BY <1>1, <1>3, <1>4, <2>1, GoesOn DEF k
<1>5. CASE Put(c, [calls[c] EXCEPT !.step = "listObjects", !.known = Saved])
  <2> DEFINE k == [calls[c] EXCEPT !.step = "listObjects", !.known = Saved]
  <2>1. k \in Call /\ k.step = "listObjects" /\ k.op = "sweep" /\ k.files = {} /\ k.known = Saved
    BY <1>1, <1>2 DEF Call
  <2>2. calls' = [calls EXCEPT ![c] = k]
    BY <1>5 DEF Put
  <2> HIDE DEF k
  <2>3. Formed(k) /\ \A f \in Saved : Knows(k, f)
    BY <2>1 DEF Formed, Knows, Deletes
  <2> QED
    BY <1>1, <1>3, <2>1, <2>2, <2>3, HandlerKeeps
<1> QED
  BY <1>4, <1>5 DEF SweepList

LEMMA SweepCompareKeeps ==
  ASSUME IInv, NEW c \in Calls, SweepCompare(c)
  PROVE  IInv'
<1>1. calls[c] \in Call /\ Formed(calls[c]) /\ calls[c].step \in {"listRows", "listObjects"}
      /\ leaked \subseteq KeysFor(Files) /\ Saved \subseteq Files /\ bucket \subseteq KeysFor(Files)
  BY HandlerOf DEF SweepCompare
<1>2. /\ since' = since \/ since' = [since EXCEPT ![c] = {}]
      /\ UNCHANGED <<bucket, Rows, rendered, pending, leaked, Discord>>
  BY DEF SweepCompare
<1>3. CASE Put(c, Idle)
  BY <1>1, <1>2, <1>3, IdleIsCall, GoesOn DEF Idle
<1>4. ASSUME NEW orphans, Put(c, [Idle EXCEPT !.op = "sweep", !.step = "objects", !.keys = orphans]),
             orphans \subseteq KeysFor(Files),
             \A f \in Saved : f \in since'[c] \/ \A p \in Parts : <<f, p>> \notin orphans
      PROVE  IInv'
  <2> DEFINE k == [Idle EXCEPT !.op = "sweep", !.step = "objects", !.keys = orphans]
  <2>1. k \in Call /\ k.step = "objects" /\ k.op = "sweep" /\ k.files = {} /\ k.keys = orphans
    BY <1>4, IdleIsCall DEF Call
  <2>2. calls' = [calls EXCEPT ![c] = k]
    BY <1>4 DEF Put
  <2> HIDE DEF k
  <2>3. Formed(k) /\ \A f \in Saved : f \in since'[c] \/ Knows(k, f)
    BY <1>4, <2>1 DEF Formed, Knows, Deletes
  <2> QED
    BY <1>1, <1>2, <2>1, <2>2, <2>3, HandlerKeeps
<1>5. CASE calls[c].step = "listRows"
  <2> DEFINE orphans == calls[c].keys \ KeysFor(Saved)
  <2>1. Put(c, Idle) \/ Put(c, [Idle EXCEPT !.op = "sweep", !.step = "objects", !.keys = orphans])
    BY <1>5 DEF SweepCompare, Referenced
  <2>2. calls[c].keys \subseteq KeysFor(Files)
    BY <1>1 DEF Call
  <2>3. \A f \in Saved, p \in Parts : <<f, p>> \notin orphans
    BY DEF KeysFor
  <2> QED
    BY <1>3, <1>4, <2>1, <2>2, <2>3
<1>6. CASE calls[c].step = "listObjects"
  <2> DEFINE orphans == bucket \ KeysFor(calls[c].known)
  <2>1. Put(c, Idle) \/ Put(c, [Idle EXCEPT !.op = "sweep", !.step = "objects", !.keys = orphans])
    BY <1>6 DEF SweepCompare, Referenced
  <2>2. since' = since
    BY <1>6 DEF SweepCompare
  <2>3. \A f \in Saved : f \in since'[c] \/ \A p \in Parts : <<f, p>> \notin orphans
    <3> SUFFICES ASSUME NEW f \in Saved, f \notin since[c]
                 PROVE  \A p \in Parts : <<f, p>> \notin orphans
      BY <2>2
    <3>1. f \in calls[c].known
      BY <1>6 DEF IInv, Spared, Knows
    <3> QED
      BY <3>1 DEF KeysFor
  <2> QED
    BY <1>1, <1>3, <1>4, <2>1, <2>3
<1> QED
  BY <1>1, <1>5, <1>6

LEMMA CallFailsKeeps ==
  ASSUME IInv, NEW c \in Calls, CallFails(c)
  PROVE  IInv'
<1>1. Idle \in Call /\ Formed(Idle) /\ \A f \in Saved : Knows(Idle, f)
  BY IdleIsCall DEF Knows, Idle, Deletes
<1>2. /\ calls' = [calls EXCEPT ![c] = Idle] /\ Idle.step = "idle"
      /\ UNCHANGED <<bucket, Rows, rendered, pending, since, Discord>>
      /\ leaked' = IF calls[c].step \in {"match", "objects"}
                    THEN leaked \cup (bucket \cap KeysFor(calls[c].files)) ELSE leaked
  BY IdleIsCall DEF CallFails, Put
<1>3. leaked \subseteq leaked' /\ leaked' \subseteq KeysFor(Files)
  BY <1>2, HandlerOf
<1>4. calls[c].step \in {"match", "objects"} => bucket \cap KeysFor(calls[c].files) \subseteq leaked'
  BY <1>2
<1> QED
  BY <1>1, <1>2, <1>3, <1>4, HandlerKeeps
-------------------------------------------------------------------------------
(* Rows are removed, or lose their match, or their objects.                *)

LEMMA AwaitingFinite ==
  ASSUME NEW code
  PROVE  /\ IsFiniteSet(Awaiting(code)) /\ Cardinality(Awaiting(code)) \in Nat
         /\ \A S \in SUBSET Awaiting(code) :
              IsFiniteSet(S) /\ Cardinality(S) \in Nat /\ Cardinality(S) <= Cardinality(Awaiting(code))
<1>1. IsFiniteSet(Awaiting(code))
  BY Bounds, FS_Subset DEF Awaiting
<1> QED
  BY <1>1, FS_Subset, FS_CardinalityType

(* Nobody new awaits an announcement, and none is made.                    *)
LEMMA PaidKeeps ==
  ASSUME IInv, UNCHANGED <<announced, readers, created>>,
         \A c \in Calls, code \in Codes : Awaits(calls[c], code)' => Awaits(calls[c], code)
  PROVE  Paid'
<1> SUFFICES ASSUME NEW code \in Codes
             PROVE  /\ announced[code] + Cardinality(Awaiting(code)') <= readers[code]
                    /\ code > created => announced[code] = 0 /\ Awaiting(code)' = {}
  BY DEF Paid, Codes
<1>1. Awaiting(code)' \subseteq Awaiting(code)
  BY DEF Awaiting
<1>2. announced[code] \in Nat /\ readers[code] \in Nat
  BY DEF IInv, Shape, TypeOK
<1> QED
  BY <1>1, <1>2, AwaitingFinite DEF IInv, Paid

LEMMA StepOf ==
  ASSUME IInv, NEW c \in Calls, NEW step \in {"match", "objects"}, NEW k,
         k = [calls[c] EXCEPT !.step = step],
         calls' = [calls EXCEPT ![c] = k],
         step = "match" => calls[c].op \in Deletes,
         calls[c].op \in {"deleteClip"} \cup Deletes
  PROVE  /\ calls' \in [Calls -> Call] /\ \A d \in Calls : Formed(calls[d])'
         /\ calls'[c] = k /\ \A d \in Calls : d # c => calls'[d] = calls[d]
         /\ k.step = step /\ k.op = calls[c].op /\ k.files = calls[c].files
         /\ k.scope = calls[c].scope
<1>1. calls \in [Calls -> Call] /\ calls[c] \in Call
  BY CallsTyped DEF IInv, Shape
<1>2. k \in Call /\ k.step = step /\ k.op = calls[c].op /\ k.files = calls[c].files
      /\ k.scope = calls[c].scope
  BY <1>1 DEF Call
<1>3. calls' \in [Calls -> Call] /\ calls'[c] = k /\ \A d \in Calls : d # c => calls'[d] = calls[d]
  BY <1>1, <1>2
<1>4. Formed(k)
  BY <1>2 DEF Formed, Deletes
<1>5. \A d \in Calls : Formed(calls[d])'
  BY <1>3, <1>4 DEF IInv, Shape, Formed
<1> QED
  BY <1>2, <1>3, <1>5

LEMMA DropKeeps ==
  ASSUME IInv, NEW c \in Calls, NEW S, S \subseteq Saved, NEW k, NEW step \in {"match", "objects"},
         calls[c].step = "rows",
         k = [calls[c] EXCEPT !.step = step],
         step = "match" => calls[c].op \in Deletes,
         calls' = [calls EXCEPT ![c] = k],
         DropRows(S),
         matchOf' = [f \in Files |-> IF f \in S THEN NoMatch ELSE matchOf[f]],
         UNCHANGED <<bucket, matches, created, rendered, pending, since, Discord>>,
         leaked \subseteq leaked', leaked' \subseteq KeysFor(Files),
         bucket \cap KeysFor(S \ calls[c].files) \subseteq leaked',
         \A f \in Saved \ S : f \in since[c] \/ Knows(k, f)
  PROVE  IInv'
<1>1. calls[c].op \in {"deleteClip"} \cup Deletes
  BY HandlerOf DEF Formed
<1>2. /\ calls' \in [Calls -> Call] /\ \A d \in Calls : Formed(calls[d])'
      /\ calls'[c] = k /\ \A d \in Calls : d # c => calls'[d] = calls[d]
      /\ k.step = step /\ k.files = calls[c].files
  BY <1>1, StepOf
<1>3. UNCHANGED <<announced, readers>>
  BY DEF Discord
<1>4. Saved' = Saved \ S /\ \A f \in Saved \ S : clips'[f] = clips[f] /\ matchOf'[f] = matchOf[f]
  BY DEF DropRows, Saved, IInv, Shape, TypeOK
<1>5. Shape'
  <2>1. clips' \in [Files -> 0..created] /\ created \in 0..MaxCodes
    BY Bounds DEF DropRows, IInv, Shape, TypeOK
  <2>2. \A f, g \in Saved' : clips'[f] = clips'[g] => f = g
    <3> SUFFICES ASSUME NEW f \in Saved \ S, NEW g \in Saved \ S, clips'[f] = clips'[g]
                 PROVE  f = g
      BY <1>4
    <3>1. \A x, y \in Saved : clips[x] = clips[y] => x = y
      BY DEF IInv, Shape, TypeOK
    <3> QED
      BY <1>4, <3>1
  <2>3. matchOf' \in [Files -> matches \cup {NoMatch}]
    BY DEF IInv, Shape, TypeOK
  <2>4. favorites' \subseteq {clips'[f] : f \in Saved'}
    <3>1. favorites' = favorites \ {clips[f] : f \in S} /\ favorites \subseteq {clips[f] : f \in Saved}
      BY DEF DropRows, FavoritesWithout, IInv, Shape, TypeOK
    <3> QED
      BY <1>4, <3>1
  <2>5. rendered' \in BOOLEAN
    BY DEF IInv, Shape, TypeOK
  <2> QED
    BY <1>2, <1>3, <2>1, <2>2, <2>3, <2>4, <2>5 DEF IInv, Shape, TypeOK, Call
<1>6. Spared'
  <2> SUFFICES ASSUME NEW d \in Calls, NEW f \in Saved \ S, f \notin since[d]
               PROVE  Knows(calls[d], f)'
    BY <1>4 DEF Spared
  <2>1. CASE d = c
    BY <1>2, <1>4, <2>1 DEF Knows
  <2>2. CASE d # c
    BY <1>2, <1>4, <2>2 DEF IInv, Spared, Knows
  <2> QED
    BY <2>1, <2>2
<1>7. Paid'
  <2> SUFFICES ASSUME NEW d \in Calls, NEW code \in Codes, Awaits(calls[d], code)'
               PROVE  Awaits(calls[d], code)
    BY <1>3, PaidKeeps
  <2>1. d # c
    BY <1>2 DEF Awaits
  <2>2. calls[d].files \subseteq Files
    BY HandlerOf DEF Call
  <2>3. \A f \in Files : clips'[f] = code => clips[f] = code
    BY Bounds DEF DropRows, Codes
  <2> QED
    BY <1>2, <2>1, <2>2, <2>3 DEF Awaits
<1>8. NothingLeaks'
  <2> SUFFICES ASSUME NEW f \in Files, f \notin Saved \ S, NEW p \in Parts,
                      <<f, p>> \in bucket \ leaked', f \notin pending
               PROVE  \E d \in Calls : f \in calls'[d].files /\ calls'[d].step \in {"match", "objects"}
    BY <1>4 DEF NothingLeaks
  <2>1. CASE f \in S
    BY <1>2, <2>1 DEF KeysFor
  <2>2. CASE f \notin Saved
    <3>1. PICK d \in Calls : f \in calls[d].files /\ calls[d].step \in {"match", "objects"}
      BY <2>2 DEF IInv, NothingLeaks
    <3> QED
      BY <1>2, <3>1
  <2> QED
    BY <2>1, <2>2
<1> QED
  BY <1>5, <1>6, <1>7, <1>8 DEF IInv

LEMMA DeleteClipRowKeeps ==
  ASSUME IInv, NEW c \in Calls, DeleteClipRow(c)
  PROVE  IInv'
<1>1. calls[c].op = "deleteClip" /\ calls[c].step = "rows" /\ calls[c].code # 0
      /\ leaked \subseteq KeysFor(Files) /\ Formed(calls[c])
  BY HandlerOf DEF DeleteClipRow, Formed
<1>2. PICK f \in Files : calls[c].files = {f}
  BY <1>1 DEF Formed
<1>3. f = CHOOSE g \in Files : calls[c].files = {g}
  BY <1>2
<1> DEFINE k == [calls[c] EXCEPT !.step = "objects"]
<1>4. /\ clips[f] = calls[c].code /\ DropRows({f})
      /\ matchOf' = [matchOf EXCEPT ![f] = NoMatch]
      /\ calls' = [calls EXCEPT ![c] = k]
      /\ UNCHANGED <<bucket, matches, created, rendered, pending, leaked, since, Discord>>
  BY <1>3 DEF DeleteClipRow, Put
<1>5. {f} \subseteq Saved
  BY <1>1, <1>4 DEF Saved
<1>6. matchOf' = [g \in Files |-> IF g \in {f} THEN NoMatch ELSE matchOf[g]]
  BY <1>4 DEF IInv, Shape, TypeOK
<1>7. \A g \in Saved \ {f} : Knows(k, g)
  <2>1. k.op = "deleteClip" /\ k.step = "objects" /\ k.files = {f}
    BY <1>1, <1>2, HandlerOf DEF Call
  <2> HIDE DEF k
  <2> QED
    BY <2>1 DEF Knows, Deletes
<1>8. {f} \ calls[c].files = {} /\ bucket \cap KeysFor({}) \subseteq leaked'
  BY <1>2 DEF KeysFor
<1> HIDE DEF k
<1> QED
  BY <1>1, <1>4, <1>5, <1>6, <1>7, <1>8, DropKeeps DEF k

LEMMA DeleteRowsKeeps ==
  ASSUME IInv, NEW c \in Calls, DeleteRows(c)
  PROVE  IInv'
<1> DEFINE gone == FilesOf(calls[c].scope)
           k == [calls[c] EXCEPT !.step = "match"]
<1>1. /\ calls[c].op \in Deletes /\ calls[c].step = "rows" /\ DropRows(gone)
      /\ matchOf' = [f \in Files |-> IF f \in gone THEN NoMatch ELSE matchOf[f]]
      /\ leaked' = leaked \cup (bucket \cap KeysFor(gone \cap since[c]))
      /\ calls' = [calls EXCEPT ![c] = k]
      /\ UNCHANGED <<bucket, matches, created, rendered, pending, since, Discord>>
  BY DEF DeleteRows, Put, Deletes
<1>2. gone \subseteq Saved /\ \A f \in Saved : f \in gone <=> matchOf[f] \in calls[c].scope
  BY DEF FilesOf
<1>3. leaked \subseteq leaked' /\ leaked' \subseteq KeysFor(Files)
  BY <1>1, HandlerOf
<1> HIDE DEF gone
<1>4. \A f \in Saved : f \in since[c] \/ Knows(calls[c], f)
  BY DEF IInv, Spared
<1>5. bucket \cap KeysFor(gone \ calls[c].files) \subseteq leaked'
  <2>1. gone \ calls[c].files \subseteq gone \cap since[c]
    <3> SUFFICES ASSUME NEW f \in gone, f \notin calls[c].files, f \notin since[c]
                 PROVE  FALSE
      OBVIOUS
    <3>1. Knows(calls[c], f) /\ matchOf[f] \in calls[c].scope
      BY <1>2, <1>4
    <3> QED
      BY <1>1, <3>1 DEF Knows
  <2> QED
    BY <1>1, <2>1 DEF KeysFor
<1>6. \A f \in Saved \ gone : f \in since[c] \/ Knows(k, f)
  <2>1. k.op = calls[c].op /\ k.step = "match" /\ k.files = calls[c].files
    BY HandlerOf DEF Call
  <2> HIDE DEF k
  <2> SUFFICES ASSUME NEW f \in Saved \ gone, f \notin since[c]
               PROVE  Knows(k, f)
    OBVIOUS
  <2>2. Knows(calls[c], f) /\ matchOf[f] \notin calls[c].scope
    BY <1>2, <1>4
  <2> QED
    BY <1>1, <2>1, <2>2 DEF Knows, Deletes
<1> HIDE DEF k
<1> QED
  BY <1>1, <1>2, <1>3, <1>5, <1>6, DropKeeps DEF k

LEMMA DeleteMatchRowsKeeps ==
  ASSUME IInv, NEW c \in Calls, DeleteMatchRows(c)
  PROVE  IInv'
<1> DEFINE k == [calls[c] EXCEPT !.step = "objects"]
<1>1. /\ calls[c].step = "match" /\ calls[c].op \in Deletes
      /\ calls[c] \in Call /\ calls[c].scope \subseteq Matches
  BY HandlerOf DEF DeleteMatchRows, Formed, Call
<1>2. /\ matches' = matches \ calls[c].scope
      /\ matchOf' = [f \in Files |-> IF matchOf[f] \in calls[c].scope THEN NoMatch ELSE matchOf[f]]
      /\ calls' = [calls EXCEPT ![c] = k]
      /\ UNCHANGED <<bucket, clips, favorites, created, rendered, pending, leaked, since,
                     announced, readers>>
  BY DEF DeleteMatchRows, Put, Discord
<1>3. /\ calls' \in [Calls -> Call] /\ \A d \in Calls : Formed(calls[d])'
      /\ calls'[c] = k /\ \A d \in Calls : d # c => calls'[d] = calls[d]
      /\ k.step = "objects" /\ k.op = calls[c].op /\ k.files = calls[c].files
  BY <1>1, <1>2, StepOf DEF Deletes
<1>4. Saved' = Saved
  BY <1>2 DEF Saved
<1> HIDE DEF k
<1>5. Shape'
  <2>1. matches' \subseteq Matches /\ matchOf' \in [Files -> matches' \cup {NoMatch}]
    BY <1>2 DEF IInv, Shape, TypeOK
  <2> QED
    BY <1>2, <1>3, <1>4, <2>1 DEF IInv, Shape, TypeOK, Call
<1>6. Spared'
  <2> SUFFICES ASSUME NEW d \in Calls, NEW f \in Saved, f \notin since[d]
               PROVE  Knows(calls[d], f)'
    BY <1>2, <1>4 DEF Spared
  <2>1. Knows(calls[d], f) /\ f \in Files
    BY DEF IInv, Spared, Saved
  <2>2. /\ matchOf'[f] = matchOf[f] \/ matchOf'[f] = NoMatch
        /\ matchOf[f] = NoMatch => matchOf'[f] = NoMatch
    BY <1>2, <2>1
  <2>3. CASE d = c
    BY <1>1, <1>3, <2>1, <2>2, <2>3 DEF Knows, Deletes
  <2>4. CASE d # c
    <3>1. calls'[d] = calls[d] /\ NoMatch \notin calls[d].scope
      BY <1>3, <2>4, Bounds, HandlerOf DEF Call
    <3> QED
      BY <2>1, <2>2, <3>1 DEF Knows
  <2> QED
    BY <2>3, <2>4
<1>7. Paid'
  <2> SUFFICES ASSUME NEW d \in Calls, NEW code \in Codes, Awaits(calls[d], code)'
               PROVE  Awaits(calls[d], code)
    BY <1>2, PaidKeeps
  <2>1. d # c
    BY <1>3 DEF Awaits
  <2> QED
    BY <1>2, <1>3, <2>1 DEF Awaits
<1>8. NothingLeaks'
  BY <1>2, <1>3, <1>4 DEF IInv, NothingLeaks
<1> QED
  BY <1>5, <1>6, <1>7, <1>8 DEF IInv

LEMMA DeleteObjectsKeeps ==
  ASSUME IInv, NEW c \in Calls, DeleteObjects(c)
  PROVE  IInv'
<1>1. PICK failed \in SUBSET (Doomed(c) \cap bucket) :
        /\ bucket' = bucket \ (Doomed(c) \ failed)
        /\ leaked' = (leaked \cup failed) \cap bucket'
        /\ calls' = [calls EXCEPT ![c] = Idle]
  BY DEF DeleteObjects, Put
<1>2. /\ calls[c].step = "objects" /\ calls[c] \in Call /\ Formed(calls[c])
      /\ UNCHANGED <<clips, matchOf, matches, favorites, created, rendered, pending, since,
                     announced, readers>>
  BY HandlerOf DEF DeleteObjects, Rows, Discord
<1>3. /\ calls' \in [Calls -> Call] /\ calls'[c] = Idle
      /\ \A d \in Calls : d # c => calls'[d] = calls[d]
  BY <1>1, IdleIsCall, CallsTyped DEF IInv, Shape
<1>4. Saved' = Saved
  BY <1>2 DEF Saved
<1>5. Shape'
  <2>1. bucket' \subseteq KeysFor(Files) /\ leaked' \subseteq KeysFor(Files)
    BY <1>1, HandlerOf
  <2>2. \A d \in Calls : Formed(calls[d])'
    BY <1>3, IdleIsCall DEF IInv, Shape, Formed
  <2> QED
    BY <1>2, <1>3, <1>4, <2>1, <2>2 DEF IInv, Shape, TypeOK, Call
<1>6. Spared'
  <2> SUFFICES ASSUME NEW d \in Calls, NEW f \in Saved, f \notin since[d]
               PROVE  Knows(calls[d], f)'
    BY <1>2, <1>4 DEF Spared
  <2>1. CASE d = c
    BY <1>3, <2>1 DEF Knows, Idle, Deletes
  <2>2. CASE d # c
    BY <1>2, <1>3, <2>2 DEF IInv, Spared, Knows
  <2> QED
    BY <2>1, <2>2
<1>7. Paid'
  <2> SUFFICES ASSUME NEW d \in Calls, NEW code \in Codes, Awaits(calls[d], code)'
               PROVE  Awaits(calls[d], code)
    BY <1>2, PaidKeeps
  <2>1. d # c
    BY <1>3, IdleIsCall DEF Awaits
  <2> QED
    BY <1>2, <1>3, <2>1 DEF Awaits
<1>8. NothingLeaks'
  <2> SUFFICES ASSUME NEW f \in Files \ Saved, NEW p \in Parts,
                      <<f, p>> \in bucket' \ leaked', f \notin pending
               PROVE  \E d \in Calls : f \in calls'[d].files /\ calls'[d].step \in {"match", "objects"}
    BY <1>2, <1>4 DEF NothingLeaks
  <2>1. <<f, p>> \in bucket \ leaked /\ <<f, p>> \notin Doomed(c)
    BY <1>1
  <2>2. PICK d \in Calls : f \in calls[d].files /\ calls[d].step \in {"match", "objects"}
    BY <2>1 DEF IInv, NothingLeaks
  <2>3. d # c
    BY <1>2, <2>1, <2>2 DEF Doomed, KeysFor, Formed
  <2> QED
    BY <1>3, <2>2, <2>3
<1> QED
  BY <1>5, <1>6, <1>7, <1>8 DEF IInv
-------------------------------------------------------------------------------
(* A row is saved.                                                         *)

CodeOf(f) == IF f \in Saved THEN clips[f] ELSE created + 1
FreshOf(c, f) == IF f \in calls[c].known THEN calls[c].fresh
                 ELSE calls[c].fresh \cup {CodeOf(f)}

(* The handler after the save: it goes on, announces, or is done.          *)
LEMMA SaveHandler ==
  ASSUME IInv, NEW c \in Calls, NEW f \in Files, Save(c, f),
         NEW left, NEW fresh, left = calls[c].files \ {f}, fresh = FreshOf(c, f)
  PROVE  /\ calls' \in [Calls -> Call] /\ \A d \in Calls : d # c => calls'[d] = calls[d]
         /\ Formed(calls'[c]) /\ calls'[c].op \in {"none", "ingest", "announce"}
         /\ calls'[c].step \in {"save", "post", "idle"}
         /\ calls'[c].step = "save"
              => /\ left # {} /\ calls'[c].files = left
                 /\ calls'[c].known = calls[c].known /\ calls'[c].fresh = fresh
<1>1. /\ CodeOf(f) \in Codes /\ calls[c].step = "save" /\ calls[c] \in Call /\ Formed(calls[c])
  BY HandlerOf DEF Save, CodeOf
<1>2. \/ left # {} /\ Put(c, [calls[c] EXCEPT !.files = left, !.fresh = fresh])
      \/ left = {} /\ Put(c, Idle)
      \/ left = {} /\ Put(c, [Idle EXCEPT !.op = "announce", !.step = "post",
                                          !.fresh = fresh, !.attempt = 1])
  BY DEF Save, CodeOf, FreshOf
<1>3. left \in SUBSET Files /\ fresh \in SUBSET Codes
  BY <1>1 DEF Call, FreshOf
<1>4. SUFFICES ASSUME NEW k \in Call, Put(c, k), k.op \in {"none", "ingest", "announce"},
                      k.step \in {"save", "post", "idle"}, k.step = "save" => k.op = "ingest",
                      k.step = "save" => left # {} /\ k.files = left
                                         /\ k.known = calls[c].known /\ k.fresh = fresh
               PROVE  /\ calls' \in [Calls -> Call] /\ \A d \in Calls : d # c => calls'[d] = calls[d]
                      /\ Formed(calls'[c]) /\ calls'[c].op \in {"none", "ingest", "announce"}
                      /\ calls'[c].step \in {"save", "post", "idle"}
                      /\ calls'[c].step = "save"
                           => /\ left # {} /\ calls'[c].files = left
                              /\ calls'[c].known = calls[c].known /\ calls'[c].fresh = fresh
  <2>1. CASE left # {} /\ Put(c, [calls[c] EXCEPT !.files = left, !.fresh = fresh])
    <3> DEFINE k == [calls[c] EXCEPT !.files = left, !.fresh = fresh]
    <3>1. calls[c].op = "ingest"
      BY <1>1 DEF Formed
    <3>2. /\ k \in Call /\ k.op = "ingest" /\ k.step = "save" /\ k.files = left
          /\ k.known = calls[c].known /\ k.fresh = fresh
      BY <1>1, <1>3, <3>1 DEF Call
    <3>3. Put(c, k) /\ left # {}
      BY <2>1
    <3> HIDE DEF k
    <3> QED
      BY <1>4, <3>2, <3>3
  <2>2. CASE Put(c, Idle)
    <3>1. Idle \in Call /\ Idle.op = "none" /\ Idle.step = "idle"
      BY IdleIsCall DEF Idle
    <3> QED
      BY <1>4, <2>2, <3>1
  <2>3. CASE Put(c, [Idle EXCEPT !.op = "announce", !.step = "post", !.fresh = fresh, !.attempt = 1])
    <3> DEFINE k == [Idle EXCEPT !.op = "announce", !.step = "post", !.fresh = fresh, !.attempt = 1]
    <3>1. Idle \in Call /\ 1 \in 0..Attempts
      BY IdleIsCall, Bounds
    <3>2. k \in Call /\ k.op = "announce" /\ k.step = "post"
      BY <1>3, <3>1 DEF Call
    <3>3. Put(c, k)
      BY <2>3
    <3> HIDE DEF k
    <3> QED
      BY <1>4, <3>2, <3>3
  <2> QED
    BY <1>2, <2>1, <2>2, <2>3
<1>5. calls' = [calls EXCEPT ![c] = k] /\ calls \in [Calls -> Call]
  BY <1>4, CallsTyped DEF Put, IInv, Shape
<1>6. calls'[c] = k /\ calls' \in [Calls -> Call] /\ \A d \in Calls : d # c => calls'[d] = calls[d]
  BY <1>5
<1>7. Formed(k)
  BY <1>4 DEF Formed
<1> QED
  BY <1>4, <1>6, <1>7

LEMMA SaveRows ==
  ASSUME IInv, NEW c \in Calls, NEW f \in Files, Save(c, f)
  PROVE  /\ clips' = [clips EXCEPT ![f] = CodeOf(f)] /\ Saved' = Saved \cup {f}
         /\ created' = IF f \in Saved THEN created ELSE CodeOf(f)
         /\ clips \in [Files -> 0..created] /\ created \in 0..MaxCodes /\ created' \in 0..MaxCodes
         /\ \A g \in Saved : clips'[g] = clips[g]
         /\ f \in Saved => clips' = clips
         /\ CodeOf(f) \in Codes /\ (f \notin Saved => CodeOf(f) = created + 1)
         /\ \A g \in Files : g # f => clips'[g] = clips[g] /\ matchOf'[g] = matchOf[g]
<1>1. /\ clips' = [clips EXCEPT ![f] = CodeOf(f)] /\ CodeOf(f) \in Codes
      /\ created' = IF f \in Saved THEN created ELSE CodeOf(f)
      /\ \E m \in matches \cup {NoMatch} : matchOf' = [matchOf EXCEPT ![f] = m]
  BY DEF Save, CodeOf
<1>2. /\ clips \in [Files -> 0..created] /\ created \in 0..MaxCodes
      /\ matchOf \in [Files -> matches \cup {NoMatch}]
  BY DEF IInv, Shape, TypeOK
<1>3. created' \in 0..MaxCodes /\ (f \notin Saved => CodeOf(f) = created + 1)
  BY <1>1, <1>2, Bounds DEF Codes, CodeOf
<1>4. Saved' = Saved \cup {f}
  BY <1>1, <1>2, Bounds DEF Saved, Codes
<1>5. f \in Saved => CodeOf(f) = clips[f]
  BY DEF CodeOf
<1>6. Saved \subseteq Files
  BY DEF Saved
<1> QED
  BY <1>1, <1>2, <1>3, <1>4, <1>5, <1>6

LEMMA SaveShape ==
  ASSUME IInv, NEW c \in Calls, NEW f \in Files, Save(c, f)
  PROVE  Shape'
<1>1. clips' \in [Files -> 0..created'] /\ created' \in 0..MaxCodes
  BY SaveRows, Bounds DEF Codes
<1>2. \A g, h \in Saved' : clips'[g] = clips'[h] => g = h
  <2>1. \A g, h \in Saved : clips[g] = clips[h] => g = h
    BY DEF IInv, Shape, TypeOK
  <2>2. CASE f \in Saved
    BY <2>1, <2>2, SaveRows
  <2>3. CASE f \notin Saved
    <3>1. \A g \in Saved : clips'[g] # clips'[f]
      BY <2>3, SaveRows, Bounds DEF Saved
    <3> QED
      BY <2>1, <3>1, SaveRows
  <2> QED
    BY <2>2, <2>3
<1>3. matchOf' \in [Files -> matches' \cup {NoMatch}] /\ matches' = matches
  <2>1. matchOf \in [Files -> matches \cup {NoMatch}]
    BY DEF IInv, Shape, TypeOK
  <2>2. PICK m \in matches \cup {NoMatch} : matchOf' = [matchOf EXCEPT ![f] = m]
    BY DEF Save
  <2> QED
    BY <2>1, <2>2 DEF Save
<1>4. favorites' \subseteq {clips'[g] : g \in Saved'}
  <2>1. favorites' = favorites /\ favorites \subseteq {clips[g] : g \in Saved}
    BY DEF Save, IInv, Shape, TypeOK
  <2> QED
    BY <2>1, SaveRows
<1>5. announced' \in [Codes -> Nat] /\ readers' \in [Codes -> Nat]
  <2>1. announced \in [Codes -> Nat] /\ readers \in [Codes -> Nat]
    BY DEF IInv, Shape, TypeOK
  <2>2. Cardinality(Ingesting) \in Nat
    BY Bounds, FS_Subset, FS_CardinalityType DEF Ingesting
  <2>3. announced' \in [Codes -> Nat]
    <3>1. PICK fresh : \/ announced' = announced
                       \/ announced' = [k \in Codes |-> announced[k] + (IF k \in fresh THEN 1 ELSE 0)]
      BY DEF Save
    <3>2. \A k \in Codes : announced[k] + (IF k \in fresh THEN 1 ELSE 0) \in Nat
      BY <2>1
    <3> QED
      BY <2>1, <3>1, <3>2
  <2>4. readers' \in [Codes -> Nat]
    BY <2>1, <2>2 DEF Save
  <2> QED
    BY <2>3, <2>4
<1>6. since' \in [Calls -> SUBSET Files] /\ pending' \subseteq Files
  BY DEF Save, IInv, Shape, TypeOK
<1>7. calls' \in [Calls -> Call] /\ \A d \in Calls : Formed(calls'[d])
  BY SaveHandler DEF IInv, Shape
<1>8. /\ bucket' \subseteq KeysFor(Files) /\ leaked' \subseteq KeysFor(Files)
      /\ matches' \subseteq Matches /\ rendered' \in BOOLEAN
  BY DEF Save, IInv, Shape, TypeOK
<1>9. \A d \in Calls : Formed(calls[d])'
  BY <1>7 DEF Formed
<1> QED
  BY <1>1, <1>2, <1>3, <1>4, <1>5, <1>6, <1>7, <1>8, <1>9 DEF Shape, TypeOK, Call

(* Who waits to announce a row that was there before, and what is paid.    *)
LEMMA SaveAwaits ==
  ASSUME IInv, NEW c \in Calls, NEW f \in Files, Save(c, f),
         NEW n \in Codes, f \in Saved \/ n # CodeOf(f)
  PROVE  /\ Awaiting(n)' \subseteq Awaiting(n)
         /\ calls[c].files \ {f} = {} /\ n \in FreshOf(c, f)
              => c \in Awaiting(n) \ Awaiting(n)'
<1> DEFINE left == calls[c].files \ {f}
           fresh == FreshOf(c, f)
<1>1. \A g \in Files : clips'[g] = n => clips[g] = n /\ (g = f => n = CodeOf(f))
  BY SaveRows
<1>2. calls[c].step = "save" /\ f \in calls[c].files /\ calls[c] \in Call
  BY HandlerOf DEF Save
<1>3. n \in fresh => Awaits(calls[c], n)
  <2>1. CASE n \in calls[c].fresh
    BY <1>2, <2>1 DEF Awaits
  <2>2. CASE f \notin calls[c].known /\ n = CodeOf(f)
    BY <1>2, <2>2 DEF Awaits, CodeOf
  <2> QED
    BY <2>1, <2>2 DEF FreshOf
<1>4. /\ \A d \in Calls : d # c => calls'[d] = calls[d]
      /\ calls'[c].step = "save"
           => /\ left # {} /\ calls'[c].files = left
              /\ calls'[c].known = calls[c].known /\ calls'[c].fresh = fresh
  <2>1. left = calls[c].files \ {f} /\ fresh = FreshOf(c, f)
    OBVIOUS
  <2> HIDE DEF left, fresh
  <2> QED
    BY <2>1, SaveHandler
<1> HIDE DEF fresh
<1>5. ASSUME NEW d \in Calls, Awaits(calls[d], n)'
      PROVE  Awaits(calls[d], n)
  <2>1. calls[d].files \subseteq Files
    BY HandlerOf DEF Call
  <2>2. CASE d # c
    BY <1>1, <1>4, <1>5, <2>1, <2>2 DEF Awaits
  <2>3. CASE d = c
    <3>1. calls'[c].step = "save" /\ left # {}
      BY <1>4, <1>5, <2>3 DEF Awaits
    <3>2. CASE n \in fresh
      BY <1>3, <2>3, <3>2
    <3>3. CASE \E g \in left \ calls[c].known : clips'[g] = n
      BY <1>1, <1>2, <2>1, <2>3, <3>3 DEF Awaits
    <3> QED
      BY <1>4, <1>5, <2>3, <3>1, <3>2, <3>3 DEF Awaits
  <2> QED
    BY <2>2, <2>3
<1>6. Awaiting(n)' \subseteq Awaiting(n)
  BY <1>5 DEF Awaiting
<1>7. ASSUME left = {}, n \in fresh
      PROVE  c \in Awaiting(n) \ Awaiting(n)'
  <2>1. ~Awaits(calls[c], n)'
    BY <1>4, <1>7 DEF Awaits
  <2> QED
    BY <1>3, <1>7, <2>1 DEF Awaiting
<1> QED
  BY <1>6, <1>7 DEF fresh

(* Ingestions that await the new row were under way when it was created.   *)
LEMMA NewAwaits ==
  ASSUME IInv, NEW c \in Calls, NEW f \in Files, Save(c, f), NEW n \in Codes
  PROVE  /\ Awaiting(n)' \subseteq Ingesting /\ c \in Ingesting
         /\ calls[c].files \ {f} = {} => c \notin Awaiting(n)'
         /\ IsFiniteSet(Ingesting) /\ Cardinality(Ingesting) \in Nat
<1> DEFINE left == calls[c].files \ {f}
<1>1. /\ \A d \in Calls : d # c => calls'[d] = calls[d]
      /\ calls'[c].step = "save" => left # {}
  BY SaveHandler
<1>2. calls[c].step = "save"
  BY DEF Save
<1>3. \A d \in Calls : Awaits(calls[d], n)' => d \in Ingesting /\ (d = c => left # {})
  BY <1>1, <1>2 DEF Awaits, Ingesting
<1>4. IsFiniteSet(Ingesting) /\ Cardinality(Ingesting) \in Nat
  BY Bounds, FS_Subset, FS_CardinalityType DEF Ingesting
<1> QED
  BY <1>2, <1>3, <1>4 DEF Awaiting, Ingesting

LEMMA SavePaid ==
  ASSUME IInv, NEW c \in Calls, NEW f \in Files, Save(c, f)
  PROVE  Paid'
<1> SUFFICES ASSUME NEW n \in Codes
             PROVE  /\ announced'[n] + Cardinality(Awaiting(n)') <= readers'[n]
                    /\ n > created' => announced'[n] = 0 /\ Awaiting(n)' = {}
  BY DEF Paid, Codes
<1> DEFINE posts == calls[c].files \ {f} = {} /\ n \in FreshOf(c, f)
<1>1. announced'[n] = announced[n] + (IF posts THEN 1 ELSE 0)
      /\ announced[n] \in Nat /\ readers[n] \in Nat
  BY DEF Save, FreshOf, CodeOf, IInv, Shape, TypeOK
<1>2. /\ announced[n] + Cardinality(Awaiting(n)) <= readers[n]
      /\ n > created => announced[n] = 0 /\ Awaiting(n) = {}
  BY DEF IInv, Paid
<1>3. /\ created' = IF f \in Saved THEN created ELSE CodeOf(f)
      /\ created \in Nat /\ (f \notin Saved => CodeOf(f) = created + 1)
  BY SaveRows, Bounds
<1>4. CASE f \in Saved \/ n # CodeOf(f)
  <2>1. /\ Awaiting(n)' \subseteq Awaiting(n)
        /\ posts => c \in Awaiting(n) /\ c \notin Awaiting(n)'
    BY <1>4, SaveAwaits
  <2>2. readers'[n] = readers[n]
    BY <1>4 DEF Save, CodeOf, IInv, Shape, TypeOK
  <2>3. n > created' => n > created
    BY <1>3 DEF Codes
  <2>4. CASE posts
    <3>1. Cardinality(Awaiting(n)') + 1 <= Cardinality(Awaiting(n))
      <4>1. PICK A : A = Awaiting(n)'
        OBVIOUS
      <4>2. IsFiniteSet(Awaiting(n)) /\ A \subseteq Awaiting(n) \ {c} /\ c \in Awaiting(n)
        BY <2>1, <2>4, <4>1, AwaitingFinite
      <4>3. /\ IsFiniteSet(Awaiting(n) \ {c})
            /\ Cardinality(Awaiting(n) \ {c}) = Cardinality(Awaiting(n)) - 1
        BY <4>2, FS_RemoveElement
      <4>4. Cardinality(A) <= Cardinality(Awaiting(n) \ {c}) /\ IsFiniteSet(A)
        BY <4>2, <4>3, FS_Subset
      <4>5. Cardinality(A) \in Nat /\ Cardinality(Awaiting(n)) \in Nat
        BY <4>2, <4>4, FS_CardinalityType
      <4> QED
        BY <4>1, <4>3, <4>4, <4>5
    <3>2. Cardinality(Awaiting(n)') \in Nat /\ Cardinality(Awaiting(n)) \in Nat
      BY <2>1, AwaitingFinite
    <3>3. ~(n > created)
      BY <1>2, <2>1, <2>4
    <3>4. announced'[n] = announced[n] + 1
      BY <1>1, <2>4
    <3> HIDE DEF posts
    <3> QED
      BY <1>1, <1>2, <2>2, <2>3, <3>1, <3>2, <3>3, <3>4
  <2>5. CASE ~posts
    <3>1. /\ Cardinality(Awaiting(n)') \in Nat /\ Cardinality(Awaiting(n)) \in Nat
          /\ Cardinality(Awaiting(n)') <= Cardinality(Awaiting(n))
      BY <2>1, AwaitingFinite
    <3>2. announced'[n] = announced[n]
      BY <1>1, <2>5
    <3> HIDE DEF posts
    <3> QED
      BY <1>1, <1>2, <2>1, <2>2, <2>3, <3>1, <3>2
  <2> QED
    BY <2>4, <2>5
<1>5. CASE f \notin Saved /\ n = CodeOf(f)
  <2>1. announced[n] = 0 /\ ~(n > created')
    BY <1>2, <1>3, <1>5
  <2>2. readers'[n] = Cardinality(Ingesting)
    BY <1>5 DEF Save, CodeOf, IInv, Shape, TypeOK
  <2>3. PICK A : A = Awaiting(n)'
    OBVIOUS
  <2>4. /\ A \subseteq Ingesting /\ c \in Ingesting /\ (posts => c \notin A)
        /\ IsFiniteSet(Ingesting) /\ Cardinality(Ingesting) \in Nat
    BY <2>3, NewAwaits
  <2>5. CASE posts
    <3>1. /\ IsFiniteSet(Ingesting \ {c})
          /\ Cardinality(Ingesting \ {c}) = Cardinality(Ingesting) - 1
      BY <2>4, FS_RemoveElement
    <3>2. A \subseteq Ingesting \ {c}
      BY <2>4, <2>5
    <3>3. IsFiniteSet(A) /\ Cardinality(A) <= Cardinality(Ingesting \ {c})
      BY <3>1, <3>2, FS_Subset
    <3>4. Cardinality(A) \in Nat
      BY <3>3, FS_CardinalityType
    <3>5. announced'[n] = 1
      BY <1>1, <2>1, <2>5
    <3> HIDE DEF posts
    <3> QED
      BY <2>1, <2>2, <2>3, <2>4, <3>1, <3>3, <3>4, <3>5
  <2>6. CASE ~posts
    <3>1. IsFiniteSet(A) /\ Cardinality(A) <= Cardinality(Ingesting)
      BY <2>4, FS_Subset
    <3>2. announced'[n] = 0
      BY <1>1, <2>1, <2>6
    <3> HIDE DEF posts
    <3> QED
      BY <2>1, <2>2, <2>3, <3>1, <3>2, FS_CardinalityType
  <2> QED
    BY <2>5, <2>6
<1> QED
  BY <1>4, <1>5

LEMMA SaveKeeps ==
  ASSUME IInv, NEW c \in Calls, NEW f \in Files, Save(c, f)
  PROVE  IInv'
<1>1. /\ \A d \in Calls : d # c => calls'[d] = calls[d]
      /\ calls'[c].op \in {"none", "ingest", "announce"}
      /\ calls'[c].step \in {"save", "post", "idle"}
      /\ calls[c].step = "save"
  BY SaveHandler DEF Save
<1>2. Spared'
  <2> SUFFICES ASSUME NEW d \in Calls, NEW g \in Saved', g \notin since'[d]
               PROVE  Knows(calls[d], g)'
    BY DEF Spared
  <2>1. g # f /\ g \notin since[d] /\ g \in Saved /\ g \in Files /\ matchOf'[g] = matchOf[g]
    BY SaveRows DEF Save, Saved
  <2>2. CASE d = c
    BY <1>1, <2>2 DEF Knows, Deletes
  <2>3. CASE d # c
    BY <1>1, <2>1, <2>3 DEF IInv, Spared, Knows
  <2> QED
    BY <2>2, <2>3
<1>3. NothingLeaks'
  <2> SUFFICES ASSUME NEW g \in Files \ Saved', NEW p \in Parts,
                      <<g, p>> \in bucket \ leaked, g \notin pending \ {f}
               PROVE  \E d \in Calls : g \in calls'[d].files /\ calls'[d].step \in {"match", "objects"}
    BY DEF NothingLeaks, Save
  <2>1. g \notin Saved /\ g \notin pending
    BY SaveRows
  <2>2. PICK d \in Calls : g \in calls[d].files /\ calls[d].step \in {"match", "objects"}
    BY <2>1 DEF IInv, NothingLeaks
  <2> QED
    BY <1>1, <2>2
<1> QED
  BY <1>2, <1>3, SaveShape, SavePaid DEF IInv
-------------------------------------------------------------------------------
(* The worker and the viewer, who own no handler.                          *)

LEMMA UploadKeeps ==
  ASSUME IInv, NEW f \in Files, NEW p \in Parts, Upload(f, p)
  PROVE  IInv'
<1>1. /\ bucket' = bucket \cup {<<f, p>>} /\ pending' = pending \cup {f}
      /\ leaked' = leaked \ {<<f, p>>}
      /\ UNCHANGED <<clips, matchOf, matches, favorites, created, rendered, calls, since,
                     announced, readers>>
  BY DEF Upload, Rows, Discord
<1>2. Saved' = Saved
  BY <1>1 DEF Saved
<1>3. Shape'
  <2>1. bucket' \subseteq KeysFor(Files) /\ leaked' \subseteq KeysFor(Files) /\ pending' \subseteq Files
    BY <1>1 DEF KeysFor, IInv, Shape, TypeOK
  <2>2. \A c \in Calls : Formed(calls[c])'
    BY <1>1 DEF IInv, Shape, Formed
  <2> QED
    BY <1>1, <1>2, <2>1, <2>2 DEF IInv, Shape, TypeOK
<1>4. Spared'
  BY <1>1, <1>2 DEF IInv, Spared, Knows
<1>5. Paid'
  BY <1>1, PaidKeeps DEF Awaits
<1>6. NothingLeaks'
  BY <1>1, <1>2 DEF IInv, NothingLeaks
<1> QED
  BY <1>3, <1>4, <1>5, <1>6 DEF IInv

LEMMA OthersKeep ==
  ASSUME IInv, FinishRender \/ (\E f \in Files : SetFavorite(f)) \/ UNCHANGED vars
  PROVE  IInv'
<1>1. UNCHANGED <<bucket, clips, matchOf, matches, created, calls, pending, leaked, since,
                  announced, readers>>
  BY DEF FinishRender, SetFavorite, vars, Rows, Discord
<1>2. Saved' = Saved
  BY <1>1 DEF Saved
<1>3. favorites' \subseteq {clips[f] : f \in Saved} /\ rendered' \in BOOLEAN
  <2>1. favorites \subseteq {clips[f] : f \in Saved} /\ rendered \in BOOLEAN
    BY DEF IInv, Shape, TypeOK
  <2>2. ASSUME NEW f \in Files, SetFavorite(f)
        PROVE  favorites' \subseteq {clips[g] : g \in Saved} /\ rendered' = rendered
    <3>1. /\ favorites' \subseteq favorites \cup {clips[f]} /\ f \in Saved
          /\ rendered' = rendered
      BY <2>2 DEF SetFavorite
    <3> QED
      BY <2>1, <3>1
  <2>3. CASE FinishRender
    BY <2>1, <2>3 DEF FinishRender, Rows
  <2>4. CASE UNCHANGED vars
    BY <2>1, <2>4 DEF vars
  <2> QED
    BY <2>1, <2>2, <2>3, <2>4
<1>4. Shape'
  <2>1. \A c \in Calls : Formed(calls[c])'
    BY <1>1 DEF IInv, Shape, Formed
  <2> QED
    BY <1>1, <1>2, <1>3, <2>1 DEF IInv, Shape, TypeOK
<1>5. Spared'
  BY <1>1, <1>2 DEF IInv, Spared, Knows
<1>6. Paid'
  BY <1>1, PaidKeeps DEF Awaits
<1>7. NothingLeaks'
  BY <1>1, <1>2 DEF IInv, NothingLeaks
<1> QED
  BY <1>4, <1>5, <1>6, <1>7 DEF IInv

LEMMA StepIInv ==
  ASSUME IInv, [Next]_vars
  PROVE  IInv'
<1>1. ASSUME NEW c \in Calls, Ingest(c)
      PROVE  IInv'
  BY <1>1, IngestKeeps, SaveKeeps DEF Ingest
<1>2. ASSUME NEW c \in Calls, DeleteStep(c)
      PROVE  IInv'
  BY <1>2, LookKeeps, DeleteFilesKeeps, DeleteClipRowKeeps, DeleteRowsKeeps,
     DeleteMatchRowsKeeps, DeleteObjectsKeeps DEF DeleteStep
<1>3. ASSUME NEW c \in Calls, Sweep(c)
      PROVE  IInv'
  BY <1>3, LookKeeps, SweepListKeeps, SweepCompareKeeps DEF Sweep
<1> QED
  BY <1>1, <1>2, <1>3, AnnounceKeeps, CallFailsKeeps, UploadKeeps, OthersKeep DEF Next

LEMMA SpecIInv == Spec => []IInv
<1>1. Init => IInv
  BY InitIInv
<1>2. IInv /\ [Next]_vars => IInv'
  BY StepIInv
<1> QED
  BY <1>1, <1>2, PTL DEF Spec
-------------------------------------------------------------------------------
(* The variables keep their types, whatever deletes, sweeps, renders and   *)
(* ingestions overlap: no clip links a match that is gone, no favorite     *)
(* outlives its clip, and no code is given twice.                          *)
THEOREM TypeCorrect == Spec => []TypeOK
<1>1. IInv => TypeOK
  BY DEF IInv, Shape
<1> QED
  BY <1>1, SpecIInv, PTL

(* However many deletes, sweeps and uploads overlap (admin.service.ts      *)
(* 540-684), an object without a row is an upload still to be saved, or is *)
(* about to be removed, or was left by a failed step.                      *)
THEOREM NothingIsLeaked == Spec => []NothingLeaks
<1>1. IInv => NothingLeaks
  BY DEF IInv
<1> QED
  BY <1>1, SpecIInv, PTL

(* A clip is announced at most once by each ingestion under way when its   *)
(* row was created, and never by a re-render (clips.service.ts 116-170).   *)
THEOREM AnnouncedOnceEach == Spec => []AnnouncedOnce
<1>1. IInv => AnnouncedOnce
  <2> SUFFICES ASSUME IInv, NEW code \in Codes
               PROVE  announced[code] <= readers[code]
    BY DEF AnnouncedOnce
  <2>1. announced[code] \in Nat /\ readers[code] \in Nat
    BY DEF IInv, Shape, TypeOK
  <2>2. announced[code] + Cardinality(Awaiting(code)) <= readers[code]
    BY DEF IInv, Paid
  <2> QED
    BY <2>1, <2>2, AwaitingFinite
<1> QED
  BY <1>1, SpecIInv, PTL

(* The deletes and the sweep (admin.service.ts 540-684) remove an object   *)
(* of a clip that has a row only if they had looked before it was saved,   *)
(* or if another delete took its match and left the row.                   *)
THEOREM ObjectsAreSpared == Spec => ObjectsSpared
<1> DEFINE Sparing ==
      \A f \in Saved, p \in Parts : <<f, p>> \in bucket \ bucket'
        => \E c \in Calls : calls[c].step = "objects" /\ calls'[c].step = "idle"
                              /\ \/ f \in since[c]
                                 \/ calls[c].op # "sweep" /\ matchOf[f] = NoMatch
<1>1. IInv /\ [Next]_vars => [Sparing]_vars
  <2> SUFFICES ASSUME IInv, Next, NEW f \in Saved, NEW p \in Parts,
                      <<f, p>> \in bucket, <<f, p>> \notin bucket'
               PROVE  \E c \in Calls : calls[c].step = "objects" /\ calls'[c].step = "idle"
                                         /\ \/ f \in since[c]
                                            \/ calls[c].op # "sweep" /\ matchOf[f] = NoMatch
    OBVIOUS
  <2>1. PICK c \in Calls : DeleteObjects(c)
    <3> SUFFICES ASSUME \A c \in Calls : ~DeleteObjects(c)
                 PROVE  bucket \subseteq bucket'
      OBVIOUS
    <3>1. ASSUME NEW c \in Calls, Ingest(c) \/ Announce(c) \/ Sweep(c) \/ CallFails(c)
          PROVE  bucket' = bucket
      <4>1. Ingest(c) => bucket' = bucket
        BY DEF Ingest, IngestMatches, IngestKnown, Save
      <4>2. Announce(c) => bucket' = bucket
        BY DEF Announce, PostAnswered, PostRetried, PostFatal
      <4>3. Sweep(c) \/ CallFails(c) => bucket' = bucket
        BY DEF Sweep, SweepStart, Look, SweepList, SweepCompare, CallFails
      <4> QED
        BY <3>1, <4>1, <4>2, <4>3
    <3>2. ASSUME NEW c \in Calls, DeleteStep(c), ~DeleteObjects(c)
          PROVE  bucket' = bucket
      BY <3>2 DEF DeleteStep, DeleteClip, DeleteMatch, DeleteDemo, Look, DeleteFiles,
                  DeleteClipRow, DeleteRows, DeleteMatchRows
    <3>3. ASSUME NEW g \in Files, SetFavorite(g) \/ \E q \in Parts : Upload(g, q)
          PROVE  bucket \subseteq bucket'
      BY <3>3 DEF SetFavorite, Upload
    <3>4. FinishRender => bucket' = bucket
      BY DEF FinishRender
    <3> QED
      BY <3>1, <3>2, <3>3, <3>4 DEF Next
  <2>2. calls[c].step = "objects" /\ <<f, p>> \in Doomed(c) /\ Formed(calls[c])
        /\ calls' = [calls EXCEPT ![c] = Idle]
    BY <2>1, HandlerOf DEF DeleteObjects, Put
  <2>3. calls'[c].step = "idle"
    BY <2>2, IdleIsCall, CallsTyped DEF IInv, Shape
  <2>4. f \in since[c] \/ Knows(calls[c], f)
    BY DEF IInv, Spared
  <2>5. ASSUME Knows(calls[c], f)
        PROVE  calls[c].op # "sweep" /\ matchOf[f] = NoMatch
    <3>1. calls[c].op # "sweep" /\ f \in calls[c].files
      BY <2>2, <2>5 DEF Doomed, KeysFor, Knows
    <3> QED
      BY <2>2, <2>5, <3>1 DEF Formed, Knows
  <2> QED
    BY <2>2, <2>3, <2>4, <2>5
<1>2. [][Sparing]_vars => ObjectsSpared
  BY DEF ObjectsSpared
<1> QED
  BY <1>1, <1>2, SpecIInv, PTL DEF Spec
===============================================================================
