------------------------------- MODULE Watcher -------------------------------
(***************************************************************************)
(* The memory watcher daemon (src/src/watcher.py): one process that keeps  *)
(* the chunk store in step with a set of markdown files.                   *)
(*                                                                         *)
(* A pass scans the files, forgets those that are gone, and for every      *)
(* changed file purges the chunks it recorded last time, remembers the new *)
(* ones one by one and records their ids; the record of all files is       *)
(* written to disk once, at the end of the pass.  Users edit files at any  *)
(* moment of it, the embedder may fail, and the process may die anywhere.  *)
(*                                                                         *)
(* A file's text is abstracted to its body, the set of pieces              *)
(* chunk_markdown cuts it into; equal bodies have equal content hashes.    *)
(* Memory.remember() chunks the text it is given once more, so a piece is  *)
(* stored as Split[p] chunks, of which remember() reports only the first.  *)
(* That it hides near duplicates in other files as well is left out: what  *)
(* is stored counts as searchable.                                         *)
(***************************************************************************)
EXTENDS Naturals

CONSTANTS
  Files,      \* paths under the watched roots
  Pieces,     \* what chunk_markdown may cut a file into
  Split,      \* Split[p]: the number of chunks remember() makes of piece p
  TooLarge,   \* bodies over DUCKBOT_WATCH_MAX_FILE_SIZE_MB
  MaxTime,    \* bound: the number of edits
  MaxFaults   \* bound: the number of faults of each kind

FaultKinds == {"crash", "embed", "delete", "backdate"}
Bodies == SUBSET Pieces

ASSUME SplitAssumption == Split \in [Pieces -> Nat \ {0}]
ASSUME TooLargeAssumption == TooLarge \subseteq Bodies
ASSUME BoundsAssumption == MaxTime \in Nat /\ MaxFaults \in [FaultKinds -> Nat]

\* Chunk.id hashes the path and the text: a chunk is one part of a piece of a file.
ChunkIds == Files \X Pieces \X Nat
PartsOf(f, p, n) == {<<f, p, i>> : i \in 1 .. n}
FirstOf(f, p) == <<f, p, 1>>

\* An entry of the state file.  hash is the set holding the body last seen,
\* or empty: NoEntry is what state["files"].get(path, {}) reads as.
NoEntry == [mtime |-> 0, hash |-> {}, ids |-> {}]
NoState == [f \in Files |-> NoEntry]

VARIABLES
  clock,      \* the latest modification time
  disk,       \* disk[f]: modification time (0: no such file) and body
  store,      \* the ids present in the vector store
  saved,      \* data/watcher_state.json
  state,      \* the daemon's copy of it
  pc,         \* where the daemon is
  scan,       \* current_files: the mtime seen for each file, 0 for none
  todo,       \* the files of current_files not examined yet
  cur,        \* the file being ingested
  body,       \* the text read from it
  left,       \* its pieces not remembered yet
  newIds,     \* new_chunk_ids
  faults      \* the faults that have happened

pass == <<scan, todo, cur, body, left, newIds>>
vars == <<clock, disk, store, saved, state, pc, pass, faults>>

NoScan == [f \in Files |-> 0]

Init ==
  /\ clock = 0
  /\ disk = [f \in Files |-> [mtime |-> 0, body |-> {}]]
  /\ store = {}
  /\ saved = NoState
  /\ state = NoState
  /\ pc = "down"
  /\ scan = NoScan /\ todo = {}
  /\ cur \in Files /\ body = {} /\ left = {} /\ newIds = {}
  /\ faults = [k \in FaultKinds |-> 0]

MayFail(k) == faults[k] < MaxFaults[k]
Fail(k) == faults' = [faults EXCEPT ![k] = @ + 1]

-----------------------------------------------------------------------------
(* The users and programs that write the watched files. *)

\* Create, rewrite or touch a file: its mtime becomes the current time.
Edit(f, b) ==
  /\ clock < MaxTime
  /\ clock' = clock + 1
  /\ disk' = [disk EXCEPT ![f] = [mtime |-> clock + 1, body |-> b]]
  /\ UNCHANGED <<store, saved, state, pc, pass, faults>>

Remove(f) ==
  /\ disk[f].mtime > 0
  /\ disk' = [disk EXCEPT ![f] = [mtime |-> 0, body |-> {}]]
  /\ UNCHANGED <<clock, store, saved, state, pc, pass, faults>>

\* Restore a file together with an older mtime (cp -p, rsync -t, an archive).
Backdate(f, b) ==
  /\ disk[f].mtime > 1
  /\ MayFail("backdate") /\ Fail("backdate")
  /\ disk' = [disk EXCEPT ![f] = [mtime |-> @.mtime - 1, body |-> b]]
  /\ UNCHANGED <<clock, store, saved, state, pc, pass>>

-----------------------------------------------------------------------------
(* The daemon. *)

\* load_state: a missing or unparsable state file reads as the empty state.
Start ==
  /\ pc = "down"
  /\ state' = saved
  /\ pc' = "idle"
  /\ UNCHANGED <<clock, disk, store, saved, pass, faults>>

\* The scan of sync_files: iter_markdown_files and getmtime.
BeginPass ==
  /\ pc = "idle"
  /\ scan' = [f \in Files |-> disk[f].mtime]
  /\ todo' = {f \in Files : disk[f].mtime > 0}
  /\ pc' = "gone"
  /\ UNCHANGED <<clock, disk, store, saved, state, cur, body, left, newIds, faults>>

\* The chunks recorded for f are deleted; a delete that raises is swallowed.
Purge(f) ==
  \/ /\ store' = store \ state[f].ids
     /\ UNCHANGED faults
  \/ /\ MayFail("delete") /\ Fail("delete")
     /\ \E lost \in SUBSET (state[f].ids \cap store) :
          /\ lost # {}
          /\ store' = store \ (state[f].ids \ lost)

\* Files the state knows and the scan did not find.
Gone == {f \in Files : state[f] # NoEntry /\ scan[f] = 0}

\* Mutant of ForgetGone: the entry is dropped before its ids are read.
DropGone(f) ==
  /\ pc = "gone"
  /\ f \in Gone
  /\ state' = [state EXCEPT ![f] = NoEntry]
  /\ UNCHANGED <<clock, disk, store, saved, pc, pass, faults>>

ForgetGone(f) ==
  /\ pc = "gone"
  /\ f \in Gone
  /\ Purge(f)
  /\ state' = [state EXCEPT ![f] = NoEntry]
  /\ UNCHANGED <<clock, disk, saved, pc, pass>>

GoneDone ==
  /\ pc = "gone"
  /\ Gone = {}
  /\ pc' = "files"
  /\ UNCHANGED <<clock, disk, store, saved, state, pass, faults>>

\* The next file is the most recently modified one left.
Take(f) ==
  /\ pc = "files"
  /\ f \in todo
  /\ \A g \in todo : scan[g] <= scan[f]
  /\ todo' = todo \ {f}

\* mtime <= prev_mtime: nothing is read.
SkipOld(f) ==
  /\ Take(f)
  /\ scan[f] <= state[f].mtime
  /\ UNCHANGED <<clock, disk, store, saved, state, pc, scan, cur, body, left,
                 newIds, faults>>

\* The file vanished after the scan, or is over the size cap: an error is
\* counted and the state is left as it was.
SkipUnreadable(f) ==
  /\ Take(f)
  /\ scan[f] > state[f].mtime
  /\ disk[f].mtime = 0 \/ disk[f].body \in TooLarge
  /\ UNCHANGED <<clock, disk, store, saved, state, pc, scan, cur, body, left,
                 newIds, faults>>

Readable(f) ==
  /\ scan[f] > state[f].mtime
  /\ disk[f].mtime > 0
  /\ disk[f].body \notin TooLarge

\* Same content hash as last time: only the mtime is refreshed.
SkipUnchanged(f) ==
  /\ Take(f)
  /\ Readable(f)
  /\ state[f].hash = {disk[f].body}
  /\ state' = [state EXCEPT ![f].mtime = scan[f]]
  /\ UNCHANGED <<clock, disk, store, saved, pc, scan, cur, body, left, newIds,
                 faults>>

\* Start ingesting the text read from f.
BeginIngest(f, ids) ==
  /\ cur' = f
  /\ body' = disk[f].body
  /\ left' = disk[f].body
  /\ newIds' = ids
  /\ pc' = "ingest"
  /\ UNCHANGED <<clock, disk, saved, state, scan>>

Changed(f) == Readable(f) /\ state[f].hash # {disk[f].body}

\* Mutant of OpenChanged: the prior chunks stay.
OpenUnpurged(f) ==
  /\ Take(f)
  /\ Changed(f)
  /\ BeginIngest(f, {})
  /\ UNCHANGED <<store, faults>>

\* Mutant of OpenChanged: new_chunk_ids is created once per pass.
OpenKeepingIds(f) == Take(f) /\ Changed(f) /\ Purge(f) /\ BeginIngest(f, newIds)

\* A new or changed file: purge its prior chunks and chunk the text read.
OpenChanged(f) == Take(f) /\ Changed(f) /\ Purge(f) /\ BeginIngest(f, {})

\* One chunk of the file goes through Memory.remember(): the batched path
\* always raises, because classify() hands it a TierAssignment for a Tier.
Ingest(p) ==
  /\ pc = "ingest"
  /\ p \in left
  /\ store' = store \cup PartsOf(cur, p, Split[p])
  /\ newIds' = newIds \cup {FirstOf(cur, p)}
  /\ left' = left \ {p}
  /\ UNCHANGED <<clock, disk, saved, state, pc, scan, todo, cur, body, faults>>

\* remember() raises part-way through the chunks it made: the error is
\* appended to stats and the file carries on.
IngestFails(p) ==
  /\ pc = "ingest"
  /\ p \in left
  /\ MayFail("embed") /\ Fail("embed")
  /\ \E n \in 0 .. Split[p] - 1 : store' = store \cup PartsOf(cur, p, n)
  /\ left' = left \ {p}
  /\ UNCHANGED <<clock, disk, saved, state, pc, scan, todo, cur, body, newIds>>

Finish(entry) ==
  /\ pc = "ingest"
  /\ left = {}
  /\ state' = [state EXCEPT ![cur] = entry]
  /\ pc' = "files"
  /\ UNCHANGED <<clock, disk, store, saved, pass, faults>>

\* Mutants of Record: the mtime, or the hash, is that of the file as it is now.
RecordRestats == Finish([mtime |-> disk[cur].mtime, hash |-> {body}, ids |-> newIds])
RecordRereads == Finish([mtime |-> scan[cur], hash |-> {disk[cur].body}, ids |-> newIds])

\* The file's entry is written whatever became of its chunks.
Record == Finish([mtime |-> scan[cur], hash |-> {body}, ids |-> newIds])

\* The daemon forgets its local variables at the end of a pass.
Reset ==
  /\ scan' = NoScan /\ todo' = {}
  /\ body' = {} /\ left' = {} /\ newIds' = {}

\* The end of a pass: run and daemon keep their state for the next one; once
\* exits, as run does when interrupted, and its next run is a Start.
Save ==
  /\ pc = "files"
  /\ todo = {}
  /\ saved' = state
  /\ \/ pc' = "idle" /\ UNCHANGED state
     \/ pc' = "down" /\ state' = NoState
  /\ Reset
  /\ UNCHANGED <<clock, disk, store, cur, faults>>

Die ==
  /\ MayFail("crash") /\ Fail("crash")
  /\ state' = NoState
  /\ pc' = "down"
  /\ Reset

Crash ==
  /\ pc # "down"
  /\ Die
  /\ UNCHANGED <<clock, disk, store, saved, cur>>

\* Death inside save_state's write_text: the file is left truncated.
TornSave ==
  /\ pc = "files"
  /\ todo = {}
  /\ Die
  /\ saved' = NoState
  /\ UNCHANGED <<clock, disk, store, cur>>

-----------------------------------------------------------------------------

Users == \E f \in Files :
  \/ \E b \in Bodies : Edit(f, b) \/ Backdate(f, b)
  \/ Remove(f)

Examine(f) ==
  SkipOld(f) \/ SkipUnreadable(f) \/ SkipUnchanged(f) \/ OpenChanged(f)

Work ==
  \/ Start \/ BeginPass \/ GoneDone \/ Record \/ Save
  \/ \E f \in Files : ForgetGone(f) \/ Examine(f)
  \/ \E p \in Pieces : Ingest(p) \/ IngestFails(p)

Next == Users \/ Work \/ Crash \/ TornSave

Spec == Init /\ [][Next]_vars

\* The loop of the daemon never returns, and cron or the service manager starts
\* a process that has exited, so passes keep being made; users and faults are
\* under no obligation.
FairSpec == Spec /\ WF_vars(Work)

-----------------------------------------------------------------------------

Entries == [mtime : Nat, hash : SUBSET Bodies, ids : SUBSET ChunkIds]
Versions == [mtime : Nat, body : Bodies]

\* Every variable has its type.
TypeOK ==
  /\ clock \in Nat
  /\ disk \in [Files -> Versions]
  /\ store \subseteq ChunkIds
  /\ saved \in [Files -> Entries]
  /\ state \in [Files -> Entries]
  /\ pc \in {"down", "idle", "gone", "files", "ingest"}
  /\ scan \in [Files -> Nat]
  /\ todo \subseteq Files
  /\ cur \in Files
  /\ body \in Bodies
  /\ left \subseteq Pieces
  /\ newIds \subseteq ChunkIds
  /\ faults \in [FaultKinds -> Nat]

ChunksOf(f) == {id \in store : id[1] = f}
Ingesting(f) == pc = "ingest" /\ cur = f
Unsplit == \A p \in Pieces : Split[p] = 1
FaultFree == \A k \in {"crash", "embed", "delete"} : faults[k] = 0

\* What the watcher knows, or will once it has loaded its state file.
Recorded(f) == IF pc = "down" THEN saved[f] ELSE state[f]

\* No chunk is lost track of: as long as the daemon has not died and no
\* delete was swallowed, every stored chunk is in the list of ids (recorded,
\* or new_chunk_ids) that the next change of its file will purge.  Otherwise
\* recall() keeps returning text that is in no file.
NothingUntracked ==
  Unsplit /\ faults["crash"] = 0 /\ faults["delete"] = 0 =>
    \A f \in Files :
      ChunksOf(f) \subseteq IF Ingesting(f) THEN newIds ELSE Recorded(f).ids

\* A recorded content hash is the truth about the store: the chunks of the
\* file are exactly those of that body.  The next pass relies on it when it
\* skips a file whose hash has not changed.
HashIsTrue ==
  Unsplit /\ FaultFree =>
    \A f \in Files : ~Ingesting(f) =>
      ChunksOf(f) = {FirstOf(f, p) : p \in UNION Recorded(f).hash}

\* While a file is being ingested the store holds exactly the pieces done.
LoadIsTrue ==
  Unsplit /\ FaultFree /\ pc = "ingest" =>
    /\ left \subseteq body
    /\ ChunksOf(cur) = {FirstOf(cur, p) : p \in body \ left}

\* The ids recorded for a file are that file's: a purge never takes chunks
\* from another one, whatever faults there were.
OwnIds ==
  /\ \A f \in Files : \A id \in state[f].ids \cup saved[f].ids : id[1] = f
  /\ pc = "ingest" => \A id \in newIds : id[1] = cur

\* The inductive invariant behind NothingUntracked and HashIsTrue.
IndInv == TypeOK /\ OwnIds /\ NothingUntracked /\ HashIsTrue /\ LoadIsTrue

\* Between passes, a file the daemon believes it has seen (its mtime is the
\* recorded one) can be found: all of its pieces are in the store.
SyncedFileIsSearchable ==
  pc = "idle" =>
    \A f \in Files :
      disk[f].mtime > 0 /\ disk[f].mtime = state[f].mtime =>
        \A p \in disk[f].body : FirstOf(f, p) \in store

\* The chunks a file on disk should have.
Mirror == UNION {UNION {PartsOf(f, p, Split[p]) : p \in disk[f].body} : f \in Files}

\* When the edits stop, the store ends up being the image of the files.
Converges == <>[](store = Mirror)
=============================================================================
