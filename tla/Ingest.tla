-------------------------------- MODULE Ingest --------------------------------
(***************************************************************************)
(* How files become rows, other than by the watcher: `ingest` and           *)
(* `reindex-tier` of src/cli.py, which run ingest_paths() of src/ingest.py  *)
(* over add_chunks() and vacuum_tier() of src/backends/chroma.py.  One such *)
(* command runs at a time and may be killed; files change, and agents       *)
(* forget rows, meanwhile.                                                  *)
(*                                                                          *)
(* A file is a set of pieces; the id of a row depends on the path, the text *)
(* and the position of the piece, and so is the pair of file and piece.     *)
(***************************************************************************)
EXTENDS Naturals, FiniteSets

CONSTANTS Docs,        \* files to ingest
          Texts,       \* pieces a file may have
          Layers,      \* tiers
          LayerOf,     \* classify(): <<file, piece>> -> tier
          Dated,       \* daily logs: in Today's tier on their day
          Today,       \* the working tier
          Batch,       \* rows an upsert takes
          MaxChanges,  \* bound: edits of files, rows forgotten, and days
          MaxMishaps   \* bound: failures and kills

VARIABLES docs,        \* file -> its pieces
          day,         \* whether the day of the dated logs lasts
          stored,      \* rows: <<tier, <<file, piece>>>>
          run,         \* the command: [step, todo, read, add, gone, ok]
          reports,     \* history: rows that runs without errors have promised
          changes, mishaps

ingestVars == <<docs, day, stored, run, reports, changes, mishaps>>

Chunks == Docs \X Texts
NoRun  == [step |-> "idle", todo |-> {}, read |-> {}, add |-> {}, gone |-> {}, ok |-> TRUE]

Steps  == {"idle", "read", "embed", "add"}

IngestTypeOK ==
  /\ docs \in [Docs -> SUBSET Texts] /\ day \in BOOLEAN
  /\ stored \subseteq Layers \X Chunks /\ reports \subseteq Layers \X Chunks
  /\ run.step \in Steps /\ run.add \subseteq run.read /\ run.read \subseteq Layers \X Chunks
  /\ changes \in 0 .. MaxChanges /\ mishaps \in 0 .. MaxMishaps

IngestInit ==
  /\ docs \in [Docs -> SUBSET Texts] /\ day = TRUE
  /\ stored = {} /\ run = NoRun /\ reports = {}
  /\ changes = 0 /\ mishaps = 0

-----------------------------------------------------------------------------
(* The world.                                                              *)

Change == changes < MaxChanges /\ changes' = changes + 1 /\ UNCHANGED mishaps
Mishap == mishaps < MaxMishaps /\ mishaps' = mishaps + 1 /\ UNCHANGED changes
Calm   == UNCHANGED <<changes, mishaps>>

Edit(f) ==
  /\ Change
  /\ \E T \in SUBSET Texts : T # docs[f] /\ docs' = [docs EXCEPT ![f] = T]
  /\ UNCHANGED <<day, stored, run, reports>>

NextDay ==
  /\ Change /\ day /\ day' = FALSE
  /\ UNCHANGED <<docs, stored, run, reports>>

Forgotten(r) ==
  /\ Change /\ r \in stored
  /\ stored' = stored \ {r} /\ reports' = reports \ {r}
  /\ run' = [run EXCEPT !.gone = @ \cup {r}]
  /\ UNCHANGED <<docs, day>>

-----------------------------------------------------------------------------
(* ingest_paths()                                                          *)

\* classify(), and reclassify_for_working().
Tier(c) == IF c[1] \in Dated /\ day THEN Today ELSE LayerOf[c]
Rows(f) == {<<Tier(<<f, t>>), <<f, t>>>> : t \in docs[f]}

RunStart(F) ==
  /\ run.step = "idle"
  /\ run' = [NoRun EXCEPT !.step = "read", !.todo = F]
  /\ UNCHANGED <<docs, day, stored, reports>> /\ Calm

\* cmd_reindex_tier(): the tier is dropped and made anew, and the files of
\* the watcher's state are ingested, into whatever tier they belong to.
Reindex(t) ==
  /\ run.step = "idle"
  /\ stored' = {r \in stored : r[1] # t} /\ reports' = {r \in reports : r[1] # t}
  /\ run' = [NoRun EXCEPT !.step = "read", !.todo = Docs]
  /\ UNCHANGED <<docs, day>> /\ Calm

\* A file that cannot be read or split is an error of the run.
RunRead ==
  /\ run.step = "read"
  /\ \/ run.todo = {} /\ run' = [run EXCEPT !.step = "embed", !.todo = Layers] /\ Calm
     \/ \E f \in run.todo :
          \/ run' = [run EXCEPT !.todo = @ \ {f}, !.read = @ \cup Rows(f)] /\ Calm
          \/ run' = [run EXCEPT !.todo = @ \ {f}, !.ok = FALSE] /\ Mishap
  /\ UNCHANGED <<docs, day, stored, reports>>

\* Tier by tier: the pieces are embedded ...
RunEmbed ==
  /\ run.step = "embed"
  /\ \E t \in run.todo :
       \/ /\ run' = [run EXCEPT !.step = "add", !.todo = @ \ {t}, !.add = {r \in run.read : r[1] = t}] /\ Calm
       \/ run' = [run EXCEPT !.todo = @ \ {t}, !.ok = FALSE] /\ Mishap
  /\ UNCHANGED <<docs, day, stored, reports>>

Batches(A) == {B \in SUBSET A : Cardinality(B) = IF Cardinality(A) < Batch THEN Cardinality(A) ELSE Batch}

\* ... and upserted in batches; one that fails ends the tier.
RunAdd ==
  /\ run.step = "add"
  /\ \/ run.add = {} /\ run' = [run EXCEPT !.step = "embed"] /\ UNCHANGED stored /\ Calm
     \/ /\ run.add # {}
        /\ \E B \in Batches(run.add) :
             \/ run' = [run EXCEPT !.add = @ \ B] /\ stored' = stored \cup B /\ Calm
             \/ run' = [run EXCEPT !.step = "embed", !.add = {}, !.ok = FALSE] /\ UNCHANGED stored /\ Mishap
  /\ UNCHANGED <<docs, day, reports>>

\* The statistics: exit code 0 if there are no errors among them.
RunEnd ==
  /\ run.step = "embed" /\ run.todo = {}
  /\ reports' = IF run.ok THEN reports \cup (run.read \ run.gone) ELSE reports
  /\ run' = NoRun
  /\ UNCHANGED <<docs, day, stored>> /\ Calm

RunKilled ==
  /\ run.step # "idle" /\ run' = NoRun /\ Mishap
  /\ UNCHANGED <<docs, day, stored, reports>>

IngestNext ==
  \/ \E f \in Docs : Edit(f)
  \/ NextDay
  \/ \E r \in Layers \X Chunks : Forgotten(r)
  \/ \E F \in (SUBSET Docs) \ {{}} : RunStart(F)
  \/ \E t \in Layers : Reindex(t)
  \/ RunRead \/ RunEmbed \/ RunAdd \/ RunEnd \/ RunKilled

-----------------------------------------------------------------------------
(* Properties.                                                             *)

\* What a run that ends with exit code 0 has read is stored in its tiers,
\* until it is forgotten or its tier is dropped (ingest.py:110).
ReportIsTrue == reports \subseteq stored
=============================================================================
