--------------------------- MODULE WatcherProofs ---------------------------
(***************************************************************************)
(* Proofs about Watcher: its type invariant, and that in the absence of    *)
(* faults the recorded hashes are the truth about the store, for any sets  *)
(* of files and pieces and any bounds.                                     *)
(***************************************************************************)
EXTENDS Watcher, TLAPS

USE DEF FaultKinds, Bodies

(* The constants' assumptions, as the steps below need them. *)
LEMMA PartsTyped ==
  ASSUME NEW f \in Files, NEW p \in Pieces, NEW n \in Nat
  PROVE  PartsOf(f, p, n) \subseteq ChunkIds
BY DEF PartsOf, ChunkIds

\* The first chunk of a piece is a chunk.
LEMMA FirstTyped ==
  ASSUME NEW f \in Files, NEW p \in Pieces
  PROVE  FirstOf(f, p) \in ChunkIds
BY DEF FirstOf, ChunkIds

\* A file without entry is a state.
LEMMA NoEntryTyped == NoEntry \in Entries /\ NoState \in [Files -> Entries]
BY DEF NoEntry, NoState, Entries

(* Counting a fault keeps the counters natural numbers. *)
LEMMA FailTyped ==
  ASSUME faults \in [FaultKinds -> Nat], NEW k \in FaultKinds, Fail(k)
  PROVE  faults' \in [FaultKinds -> Nat]
BY DEF Fail

\* A purge leaves chunks, and counts its fault.
LEMMA PurgeTyped ==
  ASSUME TypeOK, NEW f \in Files, Purge(f)
  PROVE  store' \subseteq ChunkIds /\ faults' \in [FaultKinds -> Nat]
<1>1. CASE store' = store \ state[f].ids /\ UNCHANGED faults
  BY <1>1 DEF TypeOK
<1>2. CASE /\ Fail("delete")
           /\ \E lost \in SUBSET (state[f].ids \cap store) :
                store' = store \ (state[f].ids \ lost)
  <2>1. faults' \in [FaultKinds -> Nat]
    BY <1>2, FailTyped DEF TypeOK
  <2>2. store' \subseteq store
    BY <1>2
  <2>. QED BY <2>1, <2>2 DEF TypeOK
<1>. QED BY <1>1, <1>2 DEF Purge

(* TypeOK holds in every reachable state of sync_files. *)
THEOREM TypeCorrect == Spec => []TypeOK
<1>1. Init => TypeOK
  BY NoEntryTyped DEF Init, TypeOK, Versions, NoScan
<1>2. TypeOK /\ [Next]_vars => TypeOK'
  <2>. SUFFICES ASSUME TypeOK, [Next]_vars PROVE TypeOK'
    OBVIOUS
  <2>. USE DEF TypeOK
  <2>1. CASE Users
    <3>1. ASSUME NEW f \in Files, NEW b \in Bodies, Edit(f, b) PROVE TypeOK'
      BY <3>1 DEF Edit, Versions, pass
    <3>2. ASSUME NEW f \in Files, NEW b \in Bodies, Backdate(f, b) PROVE TypeOK'
      <4>1. disk[f].mtime - 1 \in Nat
        BY <3>2 DEF Backdate, Versions
      <4>2. disk' \in [Files -> Versions]
        BY <3>2, <4>1 DEF Backdate, Versions
      <4>3. faults' \in [FaultKinds -> Nat]
        BY <3>2, FailTyped DEF Backdate
      <4>. QED BY <3>2, <4>2, <4>3 DEF Backdate, pass
    <3>3. ASSUME NEW f \in Files, Remove(f) PROVE TypeOK'
      BY <3>3 DEF Remove, Versions, pass
    <3>. QED BY <2>1, <3>1, <3>2, <3>3 DEF Users
  <2>2. CASE Start
    BY <2>2 DEF Start, pass
  <2>3. CASE BeginPass
    BY <2>3 DEF BeginPass, Versions
  <2>4. CASE GoneDone
    BY <2>4 DEF GoneDone, pass
  <2>5. CASE Record
    <3>1. [mtime |-> scan[cur], hash |-> {body}, ids |-> newIds] \in Entries
      BY DEF Entries
    <3>. QED BY <2>5, <3>1 DEF Record, Finish, pass
  <2>6. CASE Save
    BY <2>6, NoEntryTyped DEF Save, Reset, NoScan
  <2>7. ASSUME NEW f \in Files, ForgetGone(f) PROVE TypeOK'
    BY <2>7, PurgeTyped, NoEntryTyped DEF ForgetGone, pass
  <2>8. ASSUME NEW f \in Files, Examine(f) PROVE TypeOK'
    <3>1. CASE SkipOld(f)
      BY <3>1 DEF SkipOld, Take
    <3>2. CASE SkipUnreadable(f)
      BY <3>2 DEF SkipUnreadable, Take
    <3>3. CASE SkipUnchanged(f)
      <4>1. state' \in [Files -> Entries]
        BY <3>3 DEF SkipUnchanged, Entries
      <4>. QED BY <3>3, <4>1 DEF SkipUnchanged, Take
    <3>4. CASE OpenChanged(f)
      BY <3>4, PurgeTyped DEF OpenChanged, BeginIngest, Changed, Take, Versions
    <3>. QED BY <2>8, <3>1, <3>2, <3>3, <3>4 DEF Examine
  <2>9. ASSUME NEW p \in Pieces, Ingest(p) PROVE TypeOK'
    <3>1. Split[p] \in Nat
      BY SplitAssumption
    <3>. QED BY <2>9, <3>1, PartsTyped, FirstTyped DEF Ingest
  <2>10. ASSUME NEW p \in Pieces, IngestFails(p) PROVE TypeOK'
    <3>1. Split[p] \in Nat
      BY SplitAssumption
    <3>2. store' \subseteq ChunkIds
      BY <2>10, <3>1, PartsTyped DEF IngestFails
    <3>3. faults' \in [FaultKinds -> Nat]
      BY <2>10, FailTyped DEF IngestFails
    <3>. QED BY <2>10, <3>2, <3>3 DEF IngestFails
  <2>11. CASE Crash \/ TornSave
    <3>1. faults' \in [FaultKinds -> Nat]
      BY <2>11, FailTyped DEF Crash, TornSave, Die
    <3>. QED BY <2>11, <3>1, NoEntryTyped DEF Crash, TornSave, Die, Reset, NoScan
  <2>12. CASE UNCHANGED vars
    BY <2>12 DEF vars, pass
  <2>. QED
    BY <2>1, <2>2, <2>3, <2>4, <2>5, <2>6, <2>7, <2>8, <2>9, <2>10, <2>11, <2>12
    DEF Next, Work
<1>. QED BY <1>1, <1>2, PTL DEF Spec

-----------------------------------------------------------------------------
(* The store as the record sees it. *)

(* A pass with unsplit pieces stores exactly the id remember() reports. *)
LEMMA UnsplitParts ==
  ASSUME Unsplit, NEW f \in Files, NEW p \in Pieces
  PROVE  PartsOf(f, p, Split[p]) = {FirstOf(f, p)}
BY DEF Unsplit, PartsOf, FirstOf

(* A purge with no swallowed delete removes the recorded ids, all of them. *)
LEMMA CleanPurge ==
  ASSUME TypeOK, NEW f \in Files, Purge(f), faults'["delete"] = 0
  PROVE  store' = store \ state[f].ids /\ faults' = faults
<1>1. CASE Fail("delete")
  BY <1>1 DEF Fail, TypeOK
<1>. QED BY <1>1 DEF Purge

(* Faults are only ever counted up. *)
LEMMA FaultsGrow ==
  ASSUME TypeOK, [Next]_vars, NEW k \in FaultKinds, faults'[k] = 0
  PROVE  faults[k] = 0
<1>1. CASE faults' = faults
  BY <1>1
<1>2. ASSUME NEW j \in FaultKinds, Fail(j) PROVE faults[k] = 0
  BY <1>2 DEF Fail, TypeOK
<1>3. faults' = faults \/ \E j \in FaultKinds : Fail(j)
  BY DEF Next, Users, Work, Examine, Edit, Backdate, Remove, Start, BeginPass,
         GoneDone, Record, Finish, Save, ForgetGone, Purge, SkipOld, SkipUnreadable,
         SkipUnchanged, OpenChanged, BeginIngest, Changed, Ingest, IngestFails, Crash, TornSave, Die,
         vars, pass
<1>. QED BY <1>1, <1>2, <1>3

(* With no fault, a purge of f takes the recorded ids of f and nothing of   *)
(* any other file.                                                         *)
LEMMA PurgedChunks ==
  ASSUME TypeOK, OwnIds, NEW f \in Files, store' = store \ state[f].ids
  PROVE  /\ ChunksOf(f) \subseteq state[f].ids => ChunksOf(f)' = {}
         /\ \A g \in Files : g # f => ChunksOf(g)' = ChunksOf(g)
BY DEF ChunksOf, OwnIds

(* Storing one chunk of f adds it to the chunks of f alone. *)
LEMMA StoredChunk ==
  ASSUME NEW f \in Files, NEW p \in Pieces, store' = store \cup {FirstOf(f, p)}
  PROVE  /\ ChunksOf(f)' = ChunksOf(f) \cup {FirstOf(f, p)}
         /\ \A g \in Files : g # f => ChunksOf(g)' = ChunksOf(g)
BY DEF ChunksOf, FirstOf

(* OwnIds alone is preserved by every step. *)
LEMMA OwnIdsStep ==
  ASSUME TypeOK, OwnIds, [Next]_vars
  PROVE  OwnIds'
<1>. USE DEF OwnIds
<1>1. CASE Users
  BY <1>1 DEF Users, Edit, Backdate, Remove, pass
<1>2. CASE Start
  BY <1>2 DEF Start, TypeOK
<1>3. CASE BeginPass \/ GoneDone
  BY <1>3 DEF BeginPass, GoneDone, pass
<1>4. CASE Record
  BY <1>4 DEF Record, Finish, pass, TypeOK
<1>5. CASE Save
  BY <1>5 DEF Save, NoState, NoEntry, TypeOK
<1>6. ASSUME NEW f \in Files, ForgetGone(f) PROVE OwnIds'
  BY <1>6 DEF ForgetGone, NoEntry, TypeOK, pass
<1>7. ASSUME NEW f \in Files, Examine(f) PROVE OwnIds'
  <2>1. CASE SkipOld(f) \/ SkipUnreadable(f)
    BY <2>1 DEF SkipOld, SkipUnreadable, Take
  <2>2. CASE SkipUnchanged(f)
    <3>1. \A g \in Files : state'[g].ids = state[g].ids
      BY <2>2 DEF SkipUnchanged, TypeOK, Entries
    <3>. QED BY <2>2, <3>1 DEF SkipUnchanged, Take
  <2>3. CASE OpenChanged(f)
    BY <2>3 DEF OpenChanged, BeginIngest, Changed
  <2>. QED BY <1>7, <2>1, <2>2, <2>3 DEF Examine
<1>8. ASSUME NEW p \in Pieces, Ingest(p) PROVE OwnIds'
  BY <1>8 DEF Ingest, FirstOf
<1>9. ASSUME NEW p \in Pieces, IngestFails(p) PROVE OwnIds'
  BY <1>9 DEF IngestFails
<1>10. CASE Crash \/ TornSave
  BY <1>10 DEF Crash, TornSave, Die, NoState, NoEntry
<1>11. CASE UNCHANGED vars
  BY <1>11 DEF vars, pass
<1>. QED
  BY <1>1, <1>2, <1>3, <1>4, <1>5, <1>6, <1>7, <1>8, <1>9, <1>10, <1>11
  DEF Next, Work

(* The chunks of every file under a step that keeps the store.             *)
LEMMA SameStore ==
  ASSUME store' = store PROVE \A f \in Files : ChunksOf(f)' = ChunksOf(f)
BY DEF ChunksOf

(* NothingUntracked is preserved, given that ids are a file's own.         *)
LEMMA UntrackedStep ==
  ASSUME TypeOK, OwnIds, NothingUntracked, [Next]_vars
  PROVE  NothingUntracked'
<1>. SUFFICES ASSUME Unsplit, faults'["crash"] = 0, faults'["delete"] = 0,
                     NEW g \in Files
              PROVE  ChunksOf(g)' \subseteq
                       IF Ingesting(g)' THEN newIds' ELSE Recorded(g)'.ids
  BY DEF NothingUntracked, Unsplit
<1>a. \A f \in Files :
        ChunksOf(f) \subseteq IF Ingesting(f) THEN newIds ELSE Recorded(f).ids
  BY FaultsGrow DEF NothingUntracked
<1>1. CASE Users
  BY <1>1, <1>a, SameStore
  DEF Users, Edit, Backdate, Remove, pass, Ingesting, Recorded
<1>2. CASE Start
  BY <1>2, <1>a, SameStore DEF Start, pass, Ingesting, Recorded
<1>3. CASE BeginPass \/ GoneDone
  BY <1>3, <1>a, SameStore DEF BeginPass, GoneDone, pass, Ingesting, Recorded
<1>4. CASE Record
  BY <1>4, <1>a, SameStore DEF Record, Finish, pass, Ingesting, Recorded, TypeOK
<1>5. CASE Save
  BY <1>5, <1>a, SameStore DEF Save, Ingesting, Recorded
<1>6. ASSUME NEW f \in Files, ForgetGone(f)
      PROVE  ChunksOf(g)' \subseteq
               IF Ingesting(g)' THEN newIds' ELSE Recorded(g)'.ids
  <2>1. store' = store \ state[f].ids
    BY <1>6, CleanPurge DEF ForgetGone
  <2>2. pc = "gone" /\ pc' = "gone" /\ state' = [state EXCEPT ![f] = NoEntry]
    BY <1>6 DEF ForgetGone
  <2>3. CASE g = f
    BY <2>1, <2>2, <2>3, <1>a, PurgedChunks DEF Ingesting, Recorded
  <2>4. CASE g # f
    BY <2>1, <2>2, <2>4, <1>a, PurgedChunks DEF Ingesting, Recorded, TypeOK
  <2>. QED BY <2>3, <2>4
<1>7. ASSUME NEW f \in Files, Examine(f)
      PROVE  ChunksOf(g)' \subseteq
               IF Ingesting(g)' THEN newIds' ELSE Recorded(g)'.ids
  <2>1. CASE SkipOld(f) \/ SkipUnreadable(f)
    BY <2>1, <1>a, SameStore
    DEF SkipOld, SkipUnreadable, Take, Ingesting, Recorded
  <2>2. CASE SkipUnchanged(f)
    <3>1. state'[g].ids = state[g].ids
      BY <2>2 DEF SkipUnchanged, TypeOK, Entries
    <3>. QED BY <2>2, <3>1, <1>a, SameStore
             DEF SkipUnchanged, Take, Ingesting, Recorded
  <2>3. CASE OpenChanged(f)
    <3>1. store' = store \ state[f].ids
      BY <2>3, CleanPurge DEF OpenChanged, BeginIngest, Changed
    <3>2. /\ pc = "files" /\ pc' = "ingest" /\ cur' = f
          /\ state' = state /\ saved' = saved
      BY <2>3 DEF OpenChanged, BeginIngest, Changed, Take
    <3>3. CASE g = f
      BY <3>1, <3>2, <3>3, <1>a, PurgedChunks DEF Ingesting, Recorded
    <3>4. CASE g # f
      BY <3>1, <3>2, <3>4, <1>a, PurgedChunks DEF Ingesting, Recorded
    <3>. QED BY <3>3, <3>4
  <2>. QED BY <1>7, <2>1, <2>2, <2>3 DEF Examine
<1>8. ASSUME NEW p \in Pieces, Ingest(p)
      PROVE  ChunksOf(g)' \subseteq
               IF Ingesting(g)' THEN newIds' ELSE Recorded(g)'.ids
  <2>1. store' = store \cup {FirstOf(cur, p)}
    BY <1>8, UnsplitParts DEF Ingest, TypeOK
  <2>2. /\ pc = "ingest" /\ pc' = "ingest" /\ cur' = cur
        /\ newIds' = newIds \cup {FirstOf(cur, p)}
        /\ state' = state /\ saved' = saved
    BY <1>8 DEF Ingest
  <2>3. CASE g = cur
    BY <2>1, <2>2, <2>3, <1>a, StoredChunk DEF Ingesting, Recorded
  <2>4. CASE g # cur
    BY <2>1, <2>2, <2>4, <1>a, StoredChunk DEF Ingesting, Recorded, TypeOK
  <2>. QED BY <2>3, <2>4
<1>9. ASSUME NEW p \in Pieces, IngestFails(p)
      PROVE  ChunksOf(g)' \subseteq
               IF Ingesting(g)' THEN newIds' ELSE Recorded(g)'.ids
  <2>1. store' = store
    BY <1>9 DEF IngestFails, PartsOf, Unsplit
  <2>. QED BY <1>9, <2>1, <1>a, SameStore DEF IngestFails, Ingesting, Recorded
<1>10. CASE Crash \/ TornSave
  BY <1>10, FaultsGrow DEF Crash, TornSave, Die, Fail, TypeOK
<1>11. CASE UNCHANGED vars
  BY <1>11, <1>a, SameStore DEF vars, pass, Ingesting, Recorded
<1>. QED
  BY <1>1, <1>2, <1>3, <1>4, <1>5, <1>6, <1>7, <1>8, <1>9, <1>10, <1>11
  DEF Next, Work

(* FaultFree is never regained once lost.                                  *)
LEMMA FaultFreeBefore ==
  ASSUME TypeOK, [Next]_vars, FaultFree'
  PROVE  FaultFree
BY FaultsGrow DEF FaultFree

(* The hash half of the induction: HashIsTrue and LoadIsTrue hold each     *)
(* other up, the latter from OpenChanged to Record.                        *)
LEMMA HashStep ==
  ASSUME TypeOK, OwnIds, NothingUntracked, HashIsTrue, LoadIsTrue, [Next]_vars
  PROVE  HashIsTrue' /\ LoadIsTrue'
<1>. DEFINE True(g) == ~Ingesting(g) =>
              ChunksOf(g) = {FirstOf(g, p) : p \in UNION Recorded(g).hash}
            Load == pc = "ingest" =>
              /\ left \subseteq body
              /\ ChunksOf(cur) = {FirstOf(cur, p) : p \in body \ left}
<1>. SUFFICES ASSUME Unsplit, FaultFree'
              PROVE  (\A g \in Files : True(g)') /\ Load'
  BY DEF HashIsTrue, LoadIsTrue, Unsplit
<1>a. FaultFree /\ (\A g \in Files : True(g)) /\ Load
  BY FaultFreeBefore DEF HashIsTrue, LoadIsTrue
<1>b. \A f \in Files :
        ChunksOf(f) \subseteq IF Ingesting(f) THEN newIds ELSE Recorded(f).ids
  BY <1>a DEF NothingUntracked, FaultFree
<1>c. faults'["delete"] = 0 /\ faults'["crash"] = 0 /\ faults'["embed"] = 0
  BY DEF FaultFree
<1>1. CASE Users
  BY <1>1, <1>a, SameStore
  DEF Users, Edit, Backdate, Remove, pass, Ingesting, Recorded, TypeOK
<1>2. CASE Start
  BY <1>2, <1>a, SameStore DEF Start, pass, Ingesting, Recorded
<1>3. CASE BeginPass \/ GoneDone
  BY <1>3, <1>a, SameStore DEF BeginPass, GoneDone, pass, Ingesting, Recorded
<1>4. CASE Record
  <2>1. /\ pc = "ingest" /\ pc' = "files" /\ left = {} /\ store' = store
        /\ state' = [state EXCEPT ![cur] = [mtime |-> scan[cur],
                                            hash |-> {body}, ids |-> newIds]]
    BY <1>4 DEF Record, Finish
  <2>2. \A g \in Files : g # cur => True(g)'
    BY <2>1, <1>a, SameStore DEF Ingesting, Recorded, TypeOK
  <2>3. True(cur)'
    <3>1. state'[cur].hash = {body} /\ UNION {body} = body
      BY <2>1 DEF TypeOK
    <3>2. ChunksOf(cur)' = ChunksOf(cur) /\ cur' = cur
      BY <1>4, <2>1, SameStore DEF TypeOK, Record, Finish, pass
    <3>3. ChunksOf(cur) = {FirstOf(cur, p) : p \in body}
      BY <2>1, <1>a
    <3>4. UNION (state'[cur].hash) = body
      BY <3>1
    <3>5. Recorded(cur)'.hash = state'[cur].hash
      BY <2>1, <3>2 DEF Recorded
    <3>. QED BY <3>2, <3>3, <3>4, <3>5
  <2>4. cur' = cur
    BY <1>4 DEF Record, Finish, pass
  <2>. QED BY <2>1, <2>2, <2>3, <2>4
<1>5. CASE Save
  BY <1>5, <1>a, SameStore DEF Save, Ingesting, Recorded
<1>6. ASSUME NEW f \in Files, ForgetGone(f)
      PROVE  (\A g \in Files : True(g)') /\ Load'
  <2>1. store' = store \ state[f].ids
    BY <1>6, <1>c, CleanPurge DEF ForgetGone
  <2>2. pc = "gone" /\ pc' = "gone" /\ state' = [state EXCEPT ![f] = NoEntry]
    BY <1>6 DEF ForgetGone
  <2>3. True(f)'
    <3>1. ChunksOf(f)' = {}
      BY <2>1, <2>2, <1>b, PurgedChunks DEF Ingesting, Recorded
    <3>2. Recorded(f)'.hash = {}
      BY <2>2 DEF Recorded, NoEntry, TypeOK
    <3>. QED BY <3>1, <3>2
  <2>4. \A g \in Files : g # f => True(g)'
    BY <2>1, <2>2, <1>a, PurgedChunks DEF Ingesting, Recorded, TypeOK
  <2>. QED BY <2>2, <2>3, <2>4
<1>7. ASSUME NEW f \in Files, Examine(f)
      PROVE  (\A g \in Files : True(g)') /\ Load'
  <2>1. CASE SkipOld(f) \/ SkipUnreadable(f)
    BY <2>1, <1>a, SameStore
    DEF SkipOld, SkipUnreadable, Take, Ingesting, Recorded
  <2>2. CASE SkipUnchanged(f)
    <3>1. \A g \in Files : state'[g].hash = state[g].hash
      BY <2>2 DEF SkipUnchanged, TypeOK, Entries
    <3>. QED BY <2>2, <3>1, <1>a, SameStore
             DEF SkipUnchanged, Take, Ingesting, Recorded
  <2>3. CASE OpenChanged(f)
    <3>1. store' = store \ state[f].ids
      BY <2>3, <1>c, CleanPurge DEF OpenChanged, BeginIngest, Changed
    <3>2. /\ pc = "files" /\ pc' = "ingest" /\ cur' = f /\ left' = body'
          /\ state' = state /\ saved' = saved
      BY <2>3 DEF OpenChanged, BeginIngest, Changed, Take
    <3>3. ChunksOf(f)' = {}
      BY <3>1, <3>2, <1>b, PurgedChunks DEF Ingesting, Recorded
    <3>4. Load'
      BY <3>2, <3>3
    <3>5. \A g \in Files : True(g)'
      BY <3>1, <3>2, <1>a, PurgedChunks DEF Ingesting, Recorded
    <3>. QED BY <3>4, <3>5
  <2>. QED BY <1>7, <2>1, <2>2, <2>3 DEF Examine
<1>8. ASSUME NEW p \in Pieces, Ingest(p)
      PROVE  (\A g \in Files : True(g)') /\ Load'
  <2>1. store' = store \cup {FirstOf(cur, p)}
    BY <1>8, UnsplitParts DEF Ingest, TypeOK
  <2>2. /\ pc = "ingest" /\ pc' = "ingest" /\ cur' = cur /\ body' = body
        /\ p \in left /\ left' = left \ {p}
        /\ state' = state /\ saved' = saved
    BY <1>8 DEF Ingest
  <2>3. Load'
    <3>1. ChunksOf(cur)' = ChunksOf(cur) \cup {FirstOf(cur, p)}
      <4>1. cur \in Files
        BY DEF TypeOK
      <4>2. {id \in store' : id[1] = cur} = ChunksOf(cur) \cup {FirstOf(cur, p)}
        BY <2>1, <4>1 DEF ChunksOf, FirstOf
      <4>. QED BY <2>2, <4>2 DEF ChunksOf
    <3>2. body \ left' = (body \ left) \cup {p}
      BY <2>2, <1>a
    <3>. QED BY <2>2, <3>1, <3>2, <1>a
  <2>4. \A g \in Files : True(g)'
    BY <2>1, <2>2, <1>a, StoredChunk DEF Ingesting, Recorded, TypeOK
  <2>. QED BY <2>3, <2>4
<1>9. ASSUME NEW p \in Pieces, IngestFails(p)
      PROVE  (\A g \in Files : True(g)') /\ Load'
  BY <1>9, <1>c DEF IngestFails, Fail, TypeOK
<1>10. CASE Crash \/ TornSave
  BY <1>10, <1>c DEF Crash, TornSave, Die, Fail, TypeOK
<1>11. CASE UNCHANGED vars
  BY <1>11, <1>a, SameStore DEF vars, pass, Ingesting, Recorded, TypeOK
<1>. QED
  BY <1>1, <1>2, <1>3, <1>4, <1>5, <1>6, <1>7, <1>8, <1>9, <1>10, <1>11
  DEF Next, Work

(* The induction: TypeOK, OwnIds, NothingUntracked and HashIsTrue together. *)
LEMMA Induction == Spec => []IndInv
<1>1. Init => TypeOK
  BY NoEntryTyped DEF Init, TypeOK, Versions, NoScan
<1>2. Init => OwnIds /\ NothingUntracked /\ HashIsTrue /\ LoadIsTrue
  BY DEF Init, OwnIds, NothingUntracked, HashIsTrue, LoadIsTrue, ChunksOf,
         Recorded, Ingesting, NoState, NoEntry
<1>3. IndInv /\ TypeOK' /\ [Next]_vars => IndInv'
  BY OwnIdsStep, UntrackedStep, HashStep DEF IndInv
<1>. QED BY <1>1, <1>2, <1>3, TypeCorrect, PTL DEF Spec, IndInv

(* While the daemon has not died and no delete was swallowed, every chunk   *)
(* of an unsplit file is one the next change of the file will purge.        *)
THEOREM ChunksTracked == Spec => []NothingUntracked
<1>1. IndInv => NothingUntracked
  BY DEF IndInv
<1>. QED BY <1>1, Induction, PTL

(* In a history without faults, a recorded content hash tells exactly what  *)
(* the store holds of the file, so skipping an unchanged file is right.     *)
THEOREM HashesTrue == Spec => []HashIsTrue
<1>1. IndInv => HashIsTrue
  BY DEF IndInv
<1>. QED BY <1>1, Induction, PTL

(* Purging a file never takes another file's chunks, whatever the faults.   *)
THEOREM PurgesOwn == Spec => []OwnIds
<1>1. IndInv => OwnIds
  BY DEF IndInv
<1>. QED BY <1>1, Induction, PTL

-----------------------------------------------------------------------------
(* What a modification time says. *)

(* No fault so far, an older time given to a file included. *)
Undisturbed == Unsplit /\ FaultFree /\ faults["backdate"] = 0
(* No time is later than the clock's, so that an edit gets a new one. *)
Timely ==
  \A f \in Files : /\ disk[f].mtime <= clock /\ scan[f] <= clock
                  /\ state[f].mtime <= clock /\ saved[f].mtime <= clock
(* A file that still has the time it was recorded, or scanned, with has the   *)
(* text that was read after that.                                             *)
Current ==
  Undisturbed =>
    /\ \A f \in Files : Recorded(f).mtime > 0 /\ Recorded(f).mtime = disk[f].mtime
                        => Recorded(f).hash = {disk[f].body}
    /\ pc = "ingest" => scan[cur] > 0 /\ (scan[cur] = disk[cur].mtime => body = disk[cur].body)

(* No step undoes a fault, so what is undisturbed was so before the step. *)
LEMMA UndisturbedBefore ==
  ASSUME TypeOK, [Next]_vars, Undisturbed'
  PROVE  /\ Undisturbed /\ faults' = faults
         /\ ~ Crash /\ ~ TornSave
         /\ \A f \in Files : Purge(f) => store' = store \ state[f].ids
<1>1. ASSUME NEW k \in FaultKinds, Fail(k) PROVE FALSE
  BY <1>1 DEF Fail, TypeOK, Undisturbed, FaultFree
<1>2. faults' = faults
  BY <1>1 DEF Next, Users, Work, Examine, vars, pass, Edit, Remove, Backdate, Start, BeginPass, GoneDone,
     Record, Finish, Save, Reset, ForgetGone, SkipOld, SkipUnreadable, SkipUnchanged, OpenChanged, Changed,
     BeginIngest, Purge, Ingest, IngestFails, Crash, TornSave, Die
<1>3. ~ Crash /\ ~ TornSave
  BY <1>1 DEF Crash, TornSave, Die
<1>4. \A f \in Files : Purge(f) => store' = store \ state[f].ids
  BY <1>1 DEF Purge
<1> QED
  BY <1>2, <1>3, <1>4 DEF Undisturbed, FaultFree

\* Every step keeps it.
LEMMA TimelyStep == TypeOK /\ Timely /\ [Next]_vars => Timely'
<1> SUFFICES ASSUME TypeOK, Timely, [Next]_vars PROVE Timely'
  OBVIOUS
<1>0. /\ clock \in Nat /\ disk \in [Files -> Versions] /\ scan \in [Files -> Nat] /\ cur \in Files
      /\ state \in [Files -> Entries] /\ saved \in [Files -> Entries]
  BY DEF TypeOK
<1>1. ASSUME NEW f \in Files, NEW b \in Bodies, Edit(f, b) PROVE Timely'
  BY <1>0, <1>1 DEF Edit, Timely, pass, Versions, Entries
<1>2. ASSUME NEW f \in Files, NEW b \in Bodies, Backdate(f, b) PROVE Timely'
  BY <1>0, <1>2 DEF Backdate, Timely, pass, Versions, Entries
<1>3. ASSUME NEW f \in Files, Remove(f) PROVE Timely'
  BY <1>0, <1>3 DEF Remove, Timely, pass, Versions
<1>4. CASE Start
  BY <1>0, <1>4 DEF Start, Timely, pass
<1>5. CASE BeginPass
  BY <1>0, <1>5 DEF BeginPass, Timely
<1>6. ASSUME NEW e, Finish(e), e.mtime <= clock PROVE Timely'
  BY <1>0, <1>6 DEF Finish, Timely, pass
<1>7. CASE Record
  <2>1. scan[cur] <= clock
    BY <1>0 DEF Timely
  <2> QED
    BY <1>6, <1>7, <2>1 DEF Record
<1>8. ASSUME Reset, UNCHANGED <<clock, disk>>,
             state' \in {state, NoState}, saved' \in {saved, state, NoState}
      PROVE  Timely'
  BY <1>0, <1>8 DEF Reset, Timely, NoScan, NoState, NoEntry
<1>9. CASE Save \/ Crash \/ TornSave
  BY <1>8, <1>9 DEF Save, Crash, TornSave, Die
<1>10. ASSUME NEW f \in Files, UNCHANGED <<clock, disk, scan, saved>>,
              UNCHANGED state \/ state' = [state EXCEPT ![f] = NoEntry]
                              \/ state' = [state EXCEPT ![f].mtime = scan[f]]
       PROVE  Timely'
  BY <1>0, <1>10 DEF Timely, NoEntry, Entries
<1>11. ASSUME NEW f \in Files, ForgetGone(f) \/ Examine(f) PROVE Timely'
  BY <1>10, <1>11 DEF ForgetGone, Examine, SkipOld, SkipUnreadable, SkipUnchanged, OpenChanged, Changed,
     BeginIngest, pass
<1>12. CASE GoneDone \/ UNCHANGED vars \/ (\E p \in Pieces : Ingest(p) \/ IngestFails(p))
  BY <1>0, <1>10, <1>12 DEF GoneDone, vars, pass, Ingest, IngestFails
<1> QED
  BY <1>1, <1>2, <1>3, <1>4, <1>5, <1>7, <1>9, <1>11, <1>12 DEF Next, Users, Work

\* Every step keeps it.
LEMMA CurrentStep == TypeOK /\ Timely /\ Current /\ [Next]_vars => Current'
<1> SUFFICES ASSUME TypeOK, Timely, Current, [Next]_vars, Undisturbed'
             PROVE  /\ \A f \in Files : Recorded(f)'.mtime > 0 /\ Recorded(f)'.mtime = disk'[f].mtime
                                        => Recorded(f)'.hash = {disk'[f].body}
                    /\ pc' = "ingest" => scan'[cur'] > 0 /\ (scan'[cur'] = disk'[cur'].mtime => body' = disk'[cur'].body)
  BY DEF Current
<1> DEFINE New == /\ \A f \in Files : Recorded(f)'.mtime > 0 /\ Recorded(f)'.mtime = disk'[f].mtime
                                        => Recorded(f)'.hash = {disk'[f].body}
                  /\ pc' = "ingest" => scan'[cur'] > 0 /\ (scan'[cur'] = disk'[cur'].mtime => body' = disk'[cur'].body)
<1>0. /\ clock \in Nat /\ disk \in [Files -> Versions] /\ scan \in [Files -> Nat] /\ cur \in Files
      /\ state \in [Files -> Entries] /\ saved \in [Files -> Entries]
  BY DEF TypeOK
<1>a. /\ \A f \in Files : Recorded(f).mtime > 0 /\ Recorded(f).mtime = disk[f].mtime
                          => Recorded(f).hash = {disk[f].body}
      /\ pc = "ingest" => scan[cur] > 0 /\ (scan[cur] = disk[cur].mtime => body = disk[cur].body)
  BY UndisturbedBefore DEF Current
<1>b. \A f \in Files : Recorded(f).mtime \in Nat /\ Recorded(f).mtime <= clock /\ scan[f] <= clock
  BY <1>0 DEF Recorded, Timely, Entries
<1>1. ASSUME NEW f \in Files, Users,
             UNCHANGED <<saved, state, pc, pass>>, disk' = [disk EXCEPT ![f] = disk'[f]],
             disk'[f].mtime = 0 \/ disk'[f].mtime = clock + 1
      PROVE  New
  <2>1. \A g \in Files : Recorded(g)' = Recorded(g)
    BY <1>1 DEF Recorded
  <2>2. \A g \in Files \ {f} : disk'[g] = disk[g]
    BY <1>0, <1>1
  <2>3. /\ ~ (Recorded(f).mtime > 0 /\ Recorded(f).mtime = disk'[f].mtime)
        /\ ~ (scan[f] > 0 /\ scan[f] = disk'[f].mtime)
    BY <1>0, <1>1, <1>b
  <2> QED
    BY <1>0, <1>1, <1>a, <2>1, <2>2, <2>3 DEF pass
<1>2. ASSUME NEW f \in Files, NEW b \in Bodies, Edit(f, b) PROVE New
  <2>1. disk'[f].mtime = clock + 1
    BY <1>0, <1>2 DEF Edit
  <2> QED
    BY <1>0, <1>1, <1>2, <2>1 DEF Edit, Users
<1>3. ASSUME NEW f \in Files, Remove(f) PROVE New
  <2>1. disk'[f].mtime = 0
    BY <1>0, <1>3 DEF Remove
  <2> QED
    BY <1>0, <1>1, <1>3, <2>1 DEF Remove, Users
<1>4. ASSUME NEW f \in Files, NEW b \in Bodies, Backdate(f, b) PROVE FALSE
  BY <1>4, UndisturbedBefore DEF Backdate, Fail, TypeOK
<1>5. CASE Users
  BY <1>2, <1>3, <1>4, <1>5 DEF Users
<1>6. CASE Start \/ BeginPass \/ GoneDone
  BY <1>0, <1>6, <1>a DEF Start, BeginPass, GoneDone, Recorded, pass
<1>7. CASE Record
  <2>1. /\ pc = "ingest" /\ pc' = "files" /\ UNCHANGED <<disk, saved>>
        /\ state' = [state EXCEPT ![cur] = [mtime |-> scan[cur], hash |-> {body}, ids |-> newIds]]
    BY <1>7 DEF Record, Finish
  <2>2. \A g \in Files \ {cur} : Recorded(g)' = Recorded(g)
    BY <1>0, <2>1 DEF Recorded
  <2>3. \A g \in Files : g = cur => Recorded(g)'.mtime = scan[cur] /\ Recorded(g)'.hash = {body}
    BY <1>0, <2>1 DEF Recorded
  <2>4. \A g \in Files : Recorded(g)'.mtime > 0 /\ Recorded(g)'.mtime = disk[g].mtime
                         => Recorded(g)'.hash = {disk[g].body}
    <3> SUFFICES ASSUME NEW g \in Files, Recorded(g)'.mtime > 0, Recorded(g)'.mtime = disk[g].mtime
                 PROVE  Recorded(g)'.hash = {disk[g].body}
      OBVIOUS
    <3>1. CASE g = cur
      BY <1>a, <2>1, <2>3, <3>1
    <3>2. CASE g # cur
      BY <1>a, <2>2, <3>2
    <3> QED
      BY <3>1, <3>2
  <2> QED
    BY <2>1, <2>4
<1>8. CASE Save
  BY <1>0, <1>8, <1>a DEF Save, Recorded
<1>9. ASSUME NEW f \in Files, ForgetGone(f) PROVE New
  <2>1. pc = "gone" /\ pc' = "gone" /\ UNCHANGED <<disk, saved>> /\ state' = [state EXCEPT ![f] = NoEntry]
    BY <1>9 DEF ForgetGone
  <2>2. \A g \in Files \ {f} : Recorded(g)' = Recorded(g)
    BY <1>0, <2>1 DEF Recorded
  <2>3. Recorded(f)'.mtime = 0
    BY <1>0, <2>1 DEF Recorded, NoEntry
  <2> QED
    BY <1>a, <2>1, <2>2, <2>3
<1>10. ASSUME NEW f \in Files, Examine(f) PROVE New
  <2>1. CASE SkipOld(f) \/ SkipUnreadable(f)
    BY <1>a, <2>1 DEF SkipOld, SkipUnreadable, Take, Recorded
  <2>2. CASE SkipUnchanged(f)
    <3>1. /\ pc = "files" /\ pc' = "files" /\ UNCHANGED <<disk, saved>>
          /\ state[f].hash = {disk[f].body} /\ state' = [state EXCEPT ![f].mtime = scan[f]]
      BY <2>2 DEF SkipUnchanged, Take
    <3>2. \A g \in Files \ {f} : Recorded(g)' = Recorded(g)
      BY <1>0, <3>1 DEF Recorded
    <3>3. Recorded(f)'.hash = {disk[f].body}
      BY <1>0, <3>1 DEF Recorded, Entries
    <3> QED
      BY <1>a, <3>1, <3>2, <3>3
  <2>3. CASE OpenChanged(f)
    <3>1. /\ pc = "files" /\ pc' = "ingest" /\ UNCHANGED <<disk, saved, state, scan>>
          /\ cur' = f /\ body' = disk[f].body /\ scan[f] > state[f].mtime
      BY <2>3 DEF OpenChanged, BeginIngest, Changed, Readable, Take
    <3>2. scan[f] > 0
      BY <1>0, <3>1 DEF Entries
    <3> QED
      BY <1>a, <3>1, <3>2 DEF Recorded
  <2> QED
    BY <1>10, <2>1, <2>2, <2>3 DEF Examine
<1>11. CASE UNCHANGED vars \/ (\E p \in Pieces : Ingest(p) \/ IngestFails(p))
  BY <1>11, <1>a DEF vars, pass, Ingest, IngestFails, Recorded
<1> QED
  BY <1>5, <1>6, <1>7, <1>8, <1>9, <1>10, <1>11, UndisturbedBefore DEF Next, Work

\* It holds in every behaviour.
LEMMA CurrentAlways == Spec => []Current
<1>1. Init => Timely /\ Current
  BY DEF Init, Timely, Current, Recorded, NoState, NoEntry, NoScan
<1> QED
  BY <1>1, TimelyStep, CurrentStep, TypeCorrect, PTL DEF Spec

(* For any files, edits and passes without a fault: between passes, a file    *)
(* with the time the watcher has recorded is in the store, all of it, although *)
(* its text was read after its time and either may have changed meanwhile      *)
(* (watcher.py:303).  With a failing embedder it is not so.                    *)
THEOREM SyncedIsSearchable == Spec => [](Undisturbed => SyncedFileIsSearchable)
<1>1. TypeOK /\ HashIsTrue /\ Current => (Undisturbed => SyncedFileIsSearchable)
  <2> SUFFICES ASSUME TypeOK, HashIsTrue, Current, Undisturbed, pc = "idle",
                      NEW f \in Files, disk[f].mtime > 0, disk[f].mtime = state[f].mtime,
                      NEW p \in disk[f].body
               PROVE  FirstOf(f, p) \in store
    BY DEF SyncedFileIsSearchable
  <2>1. Recorded(f) = state[f] /\ ~ Ingesting(f)
    BY DEF Recorded, Ingesting
  <2>2. Recorded(f).hash = {disk[f].body}
    BY <2>1 DEF Current
  <2>3. p \in UNION Recorded(f).hash
    BY <2>2
  <2>4. FirstOf(f, p) \in ChunksOf(f)
    BY <2>1, <2>3 DEF HashIsTrue, Undisturbed
  <2> QED
    BY <2>4 DEF ChunksOf
<1> QED
  BY <1>1, TypeCorrect, HashesTrue, CurrentAlways, PTL
=============================================================================
