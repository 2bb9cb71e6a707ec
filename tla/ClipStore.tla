------------------------------- MODULE ClipStore -------------------------------
(***************************************************************************)
(* The clips of one game: rows in the database, objects in the bucket, and *)
(* what reaches Discord.  A render worker uploads the objects of its clips *)
(* and reports; the ingestion of the report saves a row per file and       *)
(* announces the clips it had not seen.  Admins delete a clip, a match or  *)
(* the whole demo, rows first and objects after, and sweep the bucket for  *)
(* objects without a row.  Rows and bucket are never written together, and *)
(* every handler acts on lists it read some steps ago.                     *)
(*                                                                         *)
(* A clip's public code numbers its rows: a deleted clip that is rendered  *)
(* again gets a new row with a new code.  A deleted match does not return. *)
(***************************************************************************)
EXTENDS Naturals, FiniteSets

CONSTANTS Files,     \* clip files a render of the game yields (their base names)
          Parts,     \* objects of a file: the video, its poster, its sidecar
          Video,     \* the one among them that clip.file names
          Matches,   \* Match rows of the game, one per player
          Owner,     \* [Files -> Matches]: the match of the player a clip shows
          Calls,     \* slots for handlers in flight
          MaxCodes,  \* bound: rows ever created
          Attempts,  \* MAX_ATTEMPTS: posts tried per clip
          NoMatch

ASSUME ClipStoreAssumption ==
  /\ Video \in Parts
  /\ Owner \in [Files -> Matches]
  /\ NoMatch \notin Matches
  /\ MaxCodes \in Nat /\ Attempts \in Nat \ {0}
  /\ IsFiniteSet(Calls)

VARIABLES bucket,     \* objects: <<file, part>>
          clips,      \* [Files -> code of the row, 0 without a row]
          matchOf,    \* [Files -> match of the row]
          matches,    \* Match rows that exist
          favorites,  \* codes the viewer has favorited
          created,    \* rows created so far, the last code
          rendered,   \* a result is stored with the job: reports repeat it
          calls,      \* [Calls -> handler]
          pending,    \* files uploaded and not saved since (bookkeeping)
          leaked,     \* objects a failure or a race left behind (bookkeeping)
          since,      \* [Calls -> files saved since the handler looked] (bookkeeping)
          announced,  \* [codes -> announcements with the clip] (bookkeeping)
          readers     \* [codes -> ingestions under way when the row was created] (bookkeeping)

vars == <<bucket, clips, matchOf, matches, favorites, created, rendered, calls,
          pending, leaked, since, announced, readers>>

Codes == 1..MaxCodes
Saved == {f \in Files : clips[f] # 0}

(* Variant: a row refers to its video alone.                               *)
VideoKey(S) == S \X {Video}

(* The video with its companions.                                          *)
KeysFor(S) == S \X Parts

Idle == [op |-> "none", step |-> "idle", files |-> {}, known |-> {}, scope |-> {},
         code |-> 0, fresh |-> {}, keys |-> {}, attempt |-> 0]

Init == /\ bucket = {} /\ clips = [f \in Files |-> 0]
        /\ matchOf = [f \in Files |-> NoMatch]
        /\ matches = Matches
        /\ favorites = {} /\ created = 0 /\ rendered = FALSE
        /\ calls = [c \in Calls |-> Idle]
        /\ pending = {} /\ leaked = {}
        /\ since = [c \in Calls |-> {}]
        /\ announced = [k \in Codes |-> 0]
        /\ readers = [k \in Codes |-> 0]

Rows == <<clips, matchOf, matches, favorites, created>>
Discord == <<announced, readers>>

Put(c, call) == calls' = [calls EXCEPT ![c] = call]
-------------------------------------------------------------------------------
(* The worker: uploads part by part, whatever is there already.  It reports *)
(* when every part of every file is up, and may report again.              *)

Upload(f, p) ==
  /\ bucket' = bucket \cup {<<f, p>>}
  /\ pending' = pending \cup {f}
  /\ leaked' = leaked \ {<<f, p>>}
  /\ UNCHANGED <<Rows, rendered, calls, since, Discord>>

FinishRender ==
  /\ ~rendered
  /\ KeysFor(Files) \subseteq bucket
  /\ rendered' = TRUE
  /\ UNCHANGED <<bucket, Rows, calls, pending, leaked, since, Discord>>
-------------------------------------------------------------------------------
(* Ingestion: the matches of the job, the files that have rows, then file  *)
(* by file an upsert, then the announcement.                               *)

IngestMatches(c) ==
  /\ calls[c].step = "idle"
  /\ rendered
  /\ Put(c, [Idle EXCEPT !.op = "ingest", !.step = "known", !.scope = matches])
  /\ UNCHANGED <<bucket, Rows, rendered, pending, leaked, since, Discord>>

(* Variant: nothing is taken for a re-render.                              *)
NothingKnown == {}

KnownFiles == Saved

IngestKnown(c) ==
  /\ calls[c].step = "known"
  /\ Put(c, [calls[c] EXCEPT !.step = "save", !.files = Files, !.known = KnownFiles])
  /\ UNCHANGED <<bucket, Rows, rendered, pending, leaked, since, Discord>>

Ingesting == {d \in Calls : calls[d].step \in {"known", "save"}}

(* The owner's match if it is among those found, else the first of them,   *)
(* in whatever order the query gave them; no match when it found none.     *)
(* The upsert writes it, over the link of a row that is there already.     *)
MatchOfSaved(c, f) == IF Owner[f] \in calls[c].scope THEN {Owner[f]}
                      ELSE IF calls[c].scope # {} THEN calls[c].scope ELSE {NoMatch}

(* A match deleted since it was read fails the write (a foreign key): see  *)
(* CallFails.                                                              *)
Save(c, f) ==
  LET code == IF f \in Saved THEN clips[f] ELSE created + 1
      fresh == IF f \in calls[c].known THEN calls[c].fresh ELSE calls[c].fresh \cup {code}
      left == calls[c].files \ {f}
  IN /\ calls[c].step = "save"
     /\ f \in calls[c].files
     /\ code \in Codes
     /\ clips' = [clips EXCEPT ![f] = code]
     /\ created' = IF f \in Saved THEN created ELSE code
     /\ \E m \in MatchOfSaved(c, f) \cap (matches \cup {NoMatch}) :
          matchOf' = [matchOf EXCEPT ![f] = m]
     /\ readers' = IF f \in Saved THEN readers
                   ELSE [readers EXCEPT ![code] = Cardinality(Ingesting)]
     /\ Put(c, IF left # {} THEN [calls[c] EXCEPT !.files = left, !.fresh = fresh]
               ELSE IF fresh = {} THEN Idle
               ELSE [Idle EXCEPT !.op = "announce", !.step = "post",
                                 !.fresh = fresh, !.attempt = 1])
     /\ announced' = IF left # {} THEN announced
                     ELSE [k \in Codes |-> announced[k] + (IF k \in fresh THEN 1 ELSE 0)]
     /\ pending' = pending \ {f}
     /\ since' = [d \in Calls |-> since[d] \cup {f}]
     /\ UNCHANGED <<bucket, matches, favorites, rendered, leaked>>
-------------------------------------------------------------------------------
(* Announcement: one message per clip, in the order the clips were saved.  *)

Posting(c) == {k \in calls[c].fresh : \A j \in calls[c].fresh : k <= j}

DoneWith(c, k) ==
  Put(c, IF calls[c].fresh = {k} THEN Idle
         ELSE [calls[c] EXCEPT !.fresh = calls[c].fresh \ {k}, !.attempt = 1])

(* Sent, or refused for this clip alone.                                   *)
PostAnswered(c) ==
  \E k \in Posting(c) :
    /\ calls[c].step = "post"
    /\ DoneWith(c, k)
    /\ UNCHANGED <<bucket, Rows, rendered, pending, leaked, since, Discord>>

(* A rate limit, a server or network error is tried again, up to a limit.  *)
PostRetried(c) ==
  \E k \in Posting(c) :
    /\ calls[c].step = "post"
    /\ IF calls[c].attempt = Attempts THEN DoneWith(c, k)
       ELSE Put(c, [calls[c] EXCEPT !.attempt = calls[c].attempt + 1])
    /\ UNCHANGED <<bucket, Rows, rendered, pending, leaked, since, Discord>>

(* The webhook is dead: the rest is not posted.                            *)
PostFatal(c) == /\ calls[c].step = "post"
                /\ Put(c, Idle)
                /\ UNCHANGED <<bucket, Rows, rendered, pending, leaked, since, Discord>>
-------------------------------------------------------------------------------
(* Deletes: the rows to go are looked up, removed, then their objects.  The *)
(* cancels of the game's jobs that come before are requests of JobQueue.   *)

Look(c, call) == /\ calls[c].step = "idle"
                 /\ Put(c, call)
                 /\ since' = [since EXCEPT ![c] = {}]
                 /\ UNCHANGED <<bucket, Rows, rendered, pending, leaked, Discord>>

DeleteClip(c, f) ==
  /\ f \in Saved
  /\ Look(c, [Idle EXCEPT !.op = "deleteClip", !.step = "rows",
                          !.files = {f}, !.code = clips[f]])

(* deleteMatch takes one match of the game, deleteDemoByShareCode all.     *)
DeleteMatch(c, m) ==
  /\ m \in matches
  /\ Look(c, [Idle EXCEPT !.op = "deleteMatch", !.step = "files", !.scope = {m}])

DeleteDemo(c) ==
  /\ matches # {}
  /\ Look(c, [Idle EXCEPT !.op = "deleteDemo", !.step = "files", !.scope = matches])

FilesOf(scope) == {f \in Saved : matchOf[f] \in scope}

(* Variant: the file names are looked up when the rows are gone.           *)
NoFiles(scope) == {}

(* "Grab the S3 file names BEFORE the rows disappear."                     *)
DoomedFiles(scope) == FilesOf(scope)

DeleteFiles(c) ==
  /\ calls[c].step = "files"
  /\ Put(c, [calls[c] EXCEPT !.step = "rows", !.files = DoomedFiles(calls[c].scope)])
  /\ since' = [since EXCEPT ![c] = {}]
  /\ UNCHANGED <<bucket, Rows, rendered, pending, leaked, Discord>>

(* Variant: the favorites of a deleted clip stay.                          *)
KeepFavorites(S) == favorites

(* onDelete: Cascade.                                                      *)
FavoritesWithout(S) == favorites \ {clips[f] : f \in S}

DropRows(S) == /\ clips' = [f \in Files |-> IF f \in S THEN 0 ELSE clips[f]]
               /\ favorites' = FavoritesWithout(S)

DeleteClipRow(c) ==
  LET f == CHOOSE g \in Files : calls[c].files = {g}
  IN /\ calls[c].op = "deleteClip" /\ calls[c].step = "rows"
     /\ clips[f] = calls[c].code
     /\ DropRows({f})
     /\ matchOf' = [matchOf EXCEPT ![f] = NoMatch]
     /\ Put(c, [calls[c] EXCEPT !.step = "objects"])
     /\ UNCHANGED <<bucket, matches, created, rendered, pending, leaked, since, Discord>>

(* deleteMany looks at the match again: a row saved since goes too, its    *)
(* objects stay.                                                           *)
DeleteRows(c) ==
  LET gone == FilesOf(calls[c].scope)
  IN /\ calls[c].op \in {"deleteMatch", "deleteDemo"} /\ calls[c].step = "rows"
     /\ DropRows(gone)
     /\ matchOf' = [f \in Files |-> IF f \in gone THEN NoMatch ELSE matchOf[f]]
     /\ leaked' = leaked \cup (bucket \cap KeysFor(gone \cap since[c]))
     /\ Put(c, [calls[c] EXCEPT !.step = "match"])
     /\ UNCHANGED <<bucket, matches, created, rendered, pending, since, Discord>>

(* Clips saved for it since lose the link (onDelete: SetNull).             *)
DeleteMatchRows(c) ==
  /\ calls[c].step = "match"
  /\ calls[c].op = "deleteMatch" => calls[c].scope \subseteq matches
  /\ matches' = matches \ calls[c].scope
  /\ matchOf' = [f \in Files |-> IF matchOf[f] \in calls[c].scope THEN NoMatch
                                 ELSE matchOf[f]]
  /\ Put(c, [calls[c] EXCEPT !.step = "objects"])
  /\ UNCHANGED <<bucket, clips, favorites, created, rendered, pending, leaked, since, Discord>>
-------------------------------------------------------------------------------
(* The orphan sweep lists objects and rows at once, in either order.       *)

SweepStart(c) == Look(c, [Idle EXCEPT !.op = "sweep", !.step = "list"])

SweepList(c) ==
  /\ calls[c].step = "list"
  /\ \/ Put(c, [calls[c] EXCEPT !.step = "listRows", !.keys = bucket])
     \/ Put(c, [calls[c] EXCEPT !.step = "listObjects", !.known = Saved])
  /\ since' = [since EXCEPT ![c] = {}]
  /\ UNCHANGED <<bucket, Rows, rendered, pending, leaked, Discord>>

Referenced(S) == KeysFor(S)

SweepCompare(c) ==
  LET keys == IF calls[c].step = "listRows" THEN calls[c].keys ELSE bucket
      known == IF calls[c].step = "listRows" THEN Saved ELSE calls[c].known
      orphans == keys \ Referenced(known)
  IN /\ calls[c].step \in {"listRows", "listObjects"}
     /\ Put(c, IF orphans = {} THEN Idle
               ELSE [Idle EXCEPT !.op = "sweep", !.step = "objects", !.keys = orphans])
     /\ since' = IF calls[c].step = "listRows" THEN [since EXCEPT ![c] = {}] ELSE since
     /\ UNCHANGED <<bucket, Rows, rendered, pending, leaked, Discord>>

(* S3 deletes what it is asked to, or some of it: errors are logged.       *)
Doomed(c) == IF calls[c].op = "sweep" THEN calls[c].keys ELSE KeysFor(calls[c].files)

DeleteObjects(c) ==
  \E failed \in SUBSET (Doomed(c) \cap bucket) :
    /\ calls[c].step = "objects"
    /\ bucket' = bucket \ (Doomed(c) \ failed)
    /\ leaked' = (leaked \cup failed) \cap bucket'
    /\ Put(c, Idle)
    /\ UNCHANGED <<Rows, rendered, pending, since, Discord>>
-------------------------------------------------------------------------------
(* A handler throws, or the process stops: a delete that has removed its   *)
(* rows leaves their objects.                                              *)
CallFails(c) ==
  /\ calls[c].step # "idle"
  /\ leaked' = IF calls[c].step \in {"match", "objects"}
               THEN leaked \cup (bucket \cap KeysFor(calls[c].files)) ELSE leaked
  /\ Put(c, Idle)
  /\ UNCHANGED <<bucket, Rows, rendered, pending, since, Discord>>

(* setFavorite finds the clip, then writes; a clip deleted in between      *)
(* fails the write, so both are one step.                                  *)
SetFavorite(f) ==
  /\ f \in Saved
  /\ \E favorites1 \in {favorites \cup {clips[f]}, favorites \ {clips[f]}} :
       favorites' = favorites1
  /\ UNCHANGED <<bucket, clips, matchOf, matches, created, rendered, calls,
                 pending, leaked, since, Discord>>

Ingest(c) == IngestMatches(c) \/ IngestKnown(c) \/ \E f \in Files : Save(c, f)
Announce(c) == PostAnswered(c) \/ PostRetried(c) \/ PostFatal(c)
DeleteStep(c) == \/ \E f \in Files : DeleteClip(c, f)
                 \/ \E m \in Matches : DeleteMatch(c, m)
                 \/ DeleteDemo(c) \/ DeleteFiles(c) \/ DeleteClipRow(c) \/ DeleteRows(c)
                 \/ DeleteMatchRows(c) \/ DeleteObjects(c)
Sweep(c) == SweepStart(c) \/ SweepList(c) \/ SweepCompare(c)

Next == \/ \E c \in Calls : Ingest(c) \/ Announce(c) \/ DeleteStep(c) \/ Sweep(c) \/ CallFails(c)
        \/ \E f \in Files : SetFavorite(f) \/ \E p \in Parts : Upload(f, p)
        \/ FinishRender

Spec == Init /\ [][Next]_vars
-------------------------------------------------------------------------------
(* TypeOK: the variables have their types; codes are unique, a clip links  *)
(* an existing match and favorites an existing clip (the foreign keys).    *)
TypeOK ==
  /\ bucket \subseteq KeysFor(Files)
  /\ clips \in [Files -> 0..created] /\ created \in 0..MaxCodes
  /\ \A f, g \in Saved : clips[f] = clips[g] => f = g
  /\ matches \subseteq Matches
  /\ matchOf \in [Files -> matches \cup {NoMatch}]
  /\ favorites \subseteq {clips[f] : f \in Saved}
  /\ rendered \in BOOLEAN
  /\ calls \in [Calls -> [op : {"none", "ingest", "announce", "deleteClip", "deleteMatch",
                                "deleteDemo", "sweep"},
                          step : {"idle", "known", "save", "post", "files", "rows", "match",
                                  "list", "listRows", "listObjects", "objects"},
                          files : SUBSET Files, known : SUBSET Files,
                          scope : SUBSET Matches, code : 0..MaxCodes,
                          fresh : SUBSET Codes, keys : SUBSET KeysFor(Files),
                          attempt : 0..Attempts]]
  /\ pending \subseteq Files /\ leaked \subseteq KeysFor(Files)
  /\ since \in [Calls -> SUBSET Files]
  /\ announced \in [Codes -> Nat] /\ readers \in [Codes -> Nat]

(* ObjectsSpared: an object of a saved clip is removed from the bucket only *)
(* by a delete or a sweep that had looked before the clip was saved, or by *)
(* a delete whose match another delete took first, which unlinked the clip *)
(* and so kept its row: no other mix of deletes, sweeps, renders and       *)
(* ingestions touches a clip ("Deliberately conservative",                 *)
(* admin.service.ts:619).                                                  *)
ObjectsSpared ==
  [][\A f \in Saved, p \in Parts : <<f, p>> \in bucket \ bucket'
       => \E c \in Calls : calls[c].step = "objects" /\ calls'[c].step = "idle"
                             /\ \/ f \in since[c]
                                \/ calls[c].op # "sweep" /\ matchOf[f] = NoMatch]_vars

(* NothingLeaks: an object without a row belongs to an upload that has not *)
(* been saved yet, is about to be removed by the delete that took its row, *)
(* or was left by a failure or by a row saved under a delete.              *)
NothingLeaks ==
  \A f \in Files \ Saved, p \in Parts :
    <<f, p>> \in bucket \ leaked
      => \/ f \in pending
         \/ \E c \in Calls : f \in calls[c].files
                               /\ calls[c].step \in {"match", "objects"}

(* AnnouncedOnce: a clip goes to Discord once for each ingestion that was  *)
(* under way when it was first saved, and for no later one: re-renders and *)
(* repeated reports are silent ("announce only new clips",                 *)
(* clips.service.ts:116).                                                  *)
AnnouncedOnce == \A k \in Codes : announced[k] <= readers[k]
===============================================================================
