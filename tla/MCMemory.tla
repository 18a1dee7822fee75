------------------------------ MODULE MCMemory ------------------------------
(***************************************************************************)
(* What fills, reads and tends the vector store, checked in one run: recall *)
(* and the tools that mark and delete (R), the chunker (C), ingest of        *)
(* directories (I) and of session logs (S), consolidation (F), the embedders *)
(* (E), the causal trace (O), dreams and lessons (D), update (U) and upkeep  *)
(* (K).  They share no state here, so a behaviour is one of `part` while the *)
(* variables of the others rest.                                            *)
(***************************************************************************)
EXTENDS MCChunker, Naturals, Sequences, FiniteSets, TLC

CONSTANTS c1, c2, c3, None,
          Tiers, Ids, Calls, Scenes, Gone, Worded, Holding, FetchFloor, Glance, Faulty, Fading,
          Docs, Texts, Layers, LayerOf, Dated, Today, Bundle, MaxChanges, MaxMishaps,
          Logs, MaxTurns, MaxFailures,
          Embeds, Wanted, LoopOf, Patience, Main, Settings, Keys, BatchSize, CacheSize, MaxRetries, MaxFaults,
          Entities, Edges, Webs, Root, Depth, MaxEnds,
          Dreamers, Dreamt, DreamOf, Lessons, Garbled, NoFile, MaxMisfits,
          Updates, Edits, MaxCommits, MaxFailed,
          Names, Strange, Hosts, Vacuums, Loggers, Keep, MaxIds, MaxEvents, MaxRotations,
          Episodes, Sayings, Told, Matched, Storable, Wordless, Alike, MaxChunks, Cap, Jobs, Others, MaxTrouble

VARIABLES part,
          rows, jobs, at, round, found, left, cur, kept, since,
          docs, day, stored, run, reports, changes, mishaps,
          turns, saved, dist, distilled, missed, failures,
          explicit, current, closed, client, dims, cache, call, provider, vectors, todo, tries, uses, faults,
          web, live, past, floor, looking, waiting, known, chain, coverage, unsurveyed, spots, ends,
          surface, memory, marks, tmp, stage, mine, toRead, lesson, learnt, misfits,
          tree, heap, ahead, pushed, doing, had, older, undone, failed,
          named, stock, made, handle, vacuum, log, held, archives, logging, events, pruned, rotation, rotations,
          episodic, recent, semantic, marker, writer, where, scan, facts, keptFacts, next, promoted, mishap,
          orphaned

R == INSTANCE Recall
I == INSTANCE Ingest WITH Batch <- Bundle
S == INSTANCE Sessions
E == INSTANCE Embedder WITH Calls <- Embeds, at <- call
O == INSTANCE Observer WITH changes <- ends
D == INSTANCE Dreams WITH Runs <- Dreamers
U == INSTANCE Update
K == INSTANCE Upkeep WITH rows <- stock
F == INSTANCE Reflect WITH Texts <- Sayings, at <- where, kept <- keptFacts

recallVars   == <<rows, jobs, at, round, found, left, cur, kept, since>>
ingestVars   == <<docs, day, stored, run, reports, changes, mishaps>>
sessionVars  == <<turns, saved, dist, distilled, missed, failures>>
embedVars    == <<explicit, current, closed, client, dims, cache, call, provider, vectors, todo, tries, uses, faults>>
observerVars == <<web, live, past, floor, looking, waiting, known, chain, coverage, unsurveyed, spots, ends>>
dreamVars    == <<surface, memory, marks, tmp, stage, mine, toRead, lesson, learnt, misfits>>
updateVars   == <<tree, heap, ahead, pushed, doing, had, older, undone, failed>>
upkeepVars   == <<named, stock, made, handle, vacuum, log, held, archives, logging, events, pruned, rotation, rotations>>
reflectVars  == <<episodic, recent, semantic, marker, writer, where, scan, facts, keptFacts, next, promoted,
                  mishap, orphaned>>

ASSUME RecallAssumption ==
  /\ Gone \notin [superseded : BOOLEAN, due : BOOLEAN]
  /\ Gone \notin [slot : Tiers \X Ids, row : [superseded : BOOLEAN, due : BOOLEAN]]
  /\ IsFiniteSet(Tiers)
  /\ \A s \in Scenes :
       /\ s.rows \in [Tiers \X Ids -> R!Rows \cup {Gone}]
       /\ s.jobs \in [Calls -> [tool : R!Tools, k : Nat, tier : Tiers \cup {"all"}, id : Ids]]

ASSUME IngestAssumption ==
  /\ LayerOf \in [Docs \X Texts -> Layers] /\ Today \in Layers
  /\ MaxChanges \in Nat /\ MaxMishaps \in Nat
ASSUME SessionsAssumption == Logs # {} /\ MaxTurns \in Nat /\ MaxFailures \in Nat
ASSUME EmbedAssumption ==
  /\ \A c \in Embeds : Wanted[c] \in Seq({Wanted[c][i] : i \in DOMAIN Wanted[c]}) /\ Patience[c] \in Nat
  /\ BatchSize \in Nat \ {0} /\ CacheSize \in Nat \ {0} /\ MaxRetries \in Nat /\ MaxFaults \in Nat
ASSUME ObserverAssumption ==
  /\ IsFiniteSet(Edges) /\ Root \in Entities
  /\ Webs \subseteq [Edges -> [from : Entities, to : Entities]]
  /\ Depth \in Nat \ {0} /\ MaxEnds \in Nat
ASSUME DreamsAssumption ==
  /\ MaxMisfits \in Nat
  /\ \A m \in SUBSET D!Entries : m # Garbled /\ m # NoFile
ASSUME ReflectAssumption ==
  /\ Episodes \in Seq(F!Chunks) /\ MaxChunks \in Nat /\ Cap \in Nat \ {0} /\ MaxTrouble \in Nat
  /\ \A c \in F!Chunks : /\ Told[c] \in Seq(Sayings)
                         /\ Matched[c] \in Seq([text : Sayings, confidence : 1 .. 2])
ASSUME UpdateAssumption == IsFiniteSet(Updates) /\ MaxCommits \in Nat /\ MaxFailed \in Nat
ASSUME UpkeepAssumption ==
  /\ IsFiniteSet(K!AllNames) /\ MaxIds \in Nat /\ Cardinality(K!AllNames) \leq MaxIds
  /\ MaxEvents \in Nat /\ MaxRotations \in Nat
  /\ None \notin Nat /\ "new" \notin Names /\ "done" \notin Names

\* A part that rests has one initial state.
RecallRests   == \E s \in {CHOOSE x \in Scenes : TRUE} : rows = s.rows /\ jobs = s.jobs
IngestRests   == docs = [d \in Docs |-> {}]
EmbedRests    == explicit = "auto"
ObserverRests == web = (CHOOSE w \in Webs : TRUE) /\ past = FALSE /\ floor = 1
DreamsRest    == surface = {}
UpdateRests   == heap = <<>>
UpkeepRests   == \A i \in DOMAIN stock : stock[i] \in {0, None}

Init ==
  /\ part \in {"recall", "ingest", "sessions", "embed", "observer", "dreams", "update", "upkeep",
              "chunker", "reflect"}
  /\ R!RecallInit /\ (part = "recall" \/ RecallRests)
  /\ I!IngestInit /\ (part = "ingest" \/ IngestRests)
  /\ S!SessionsInit
  /\ E!EmbedInit /\ (part = "embed" \/ EmbedRests)
  /\ O!ObserverInit /\ (part = "observer" \/ ObserverRests)
  /\ D!DreamsInit /\ (part = "dreams" \/ DreamsRest)
  /\ U!UpdateInit /\ (part = "update" \/ UpdateRests)
  /\ K!UpkeepInit /\ (part = "upkeep" \/ UpkeepRests)
  /\ C!ChunkerInit /\ F!ReflectInit

Next ==
  /\ UNCHANGED part
  /\ \/ part = "recall" /\ R!RecallNext
        /\ UNCHANGED <<ingestVars, sessionVars, embedVars, observerVars, dreamVars,
                       updateVars, upkeepVars, chunkerVars, reflectVars>>
     \/ part = "ingest" /\ I!IngestNext
        /\ UNCHANGED <<recallVars, sessionVars, embedVars, observerVars, dreamVars,
                       updateVars, upkeepVars, chunkerVars, reflectVars>>
     \/ part = "sessions" /\ S!SessionsNext
        /\ UNCHANGED <<recallVars, ingestVars, embedVars, observerVars, dreamVars,
                       updateVars, upkeepVars, chunkerVars, reflectVars>>
     \/ part = "embed" /\ E!EmbedNext
        /\ UNCHANGED <<recallVars, ingestVars, sessionVars, observerVars, dreamVars,
                       updateVars, upkeepVars, chunkerVars, reflectVars>>
     \/ part = "observer" /\ O!ObserverNext
        /\ UNCHANGED <<recallVars, ingestVars, sessionVars, embedVars, dreamVars,
                       updateVars, upkeepVars, chunkerVars, reflectVars>>
     \/ part = "dreams" /\ D!DreamsNext
        /\ UNCHANGED <<recallVars, ingestVars, sessionVars, embedVars, observerVars,
                       updateVars, upkeepVars, chunkerVars, reflectVars>>
     \/ part = "update" /\ U!UpdateNext
        /\ UNCHANGED <<recallVars, ingestVars, sessionVars, embedVars, observerVars,
                       dreamVars, upkeepVars, chunkerVars, reflectVars>>
     \/ part = "upkeep" /\ K!UpkeepNext
        /\ UNCHANGED <<recallVars, ingestVars, sessionVars, embedVars, observerVars,
                       dreamVars, updateVars, chunkerVars, reflectVars>>
     \/ part = "chunker" /\ C!ChunkerNext
        /\ UNCHANGED <<recallVars, ingestVars, sessionVars, embedVars, observerVars,
                       dreamVars, updateVars, upkeepVars, reflectVars>>
     \/ part = "reflect" /\ F!ReflectNext
        /\ UNCHANGED <<recallVars, ingestVars, sessionVars, embedVars, observerVars,
                       dreamVars, updateVars, upkeepVars, chunkerVars>>

Spec ==
  Init /\ [][Next]_<<part, recallVars, ingestVars, sessionVars, embedVars, observerVars,
                     dreamVars, updateVars, upkeepVars, chunkerVars, reflectVars>>

-----------------------------------------------------------------------------
(* The properties of the parts, by their names there, each of the part that *)
(* runs: those at rest are in their initial states.                         *)

\* Every variable of the part that runs is of its type.
TypeOK ==
  CASE part = "recall"   -> R!RecallTypeOK
    [] part = "ingest"   -> I!IngestTypeOK
    [] part = "sessions" -> S!SessionsTypeOK
    [] part = "embed"    -> E!EmbedTypeOK
    [] part = "observer" -> O!ObserverTypeOK
    [] part = "dreams"   -> D!DreamsTypeOK
    [] part = "update"   -> U!UpdateTypeOK
    [] part = "upkeep"   -> K!UpkeepTypeOK
    [] part = "chunker"  -> C!ChunkerTypeOK
    [] part = "reflect"  -> F!ReflectTypeOK
\* What was superseded when a recall began is not in its answer (memory.py:682).
RecallHolds == part = "recall" => R!NothingStale
\* Counting a recall brings back neither what was superseded nor what was
\* forgotten meanwhile (memory.py:706).
NotRevived == R!MarksStay /\ R!ForgottenStays
\* A file that gets longer keeps the ids of all its chunks but the last
\* (chunk.py:62), and wake_up() finds as many memories as it is asked for behind
\* those that are superseded (base.py:533).
NothingLost == C!AppendTouchesLast /\ [](part = "recall" => R!WakeUpFinds)
\* A chunk's verbatim text is a stretch of its file (chunk.py:240).
VerbatimIsSource == C!VerbatimIsSource
\* What an ingest reports as stored is there (ingest.py:98); a log that is
\* skipped has its facts in memory (session_ingest.py:172), and
\* so has a dream that is marked as ingested (dreaming.py:186); a nightly pass
\* promotes what the writer said rather than what was guessed
\* (consolidate.py:301), and leaves no writer loaded (nightly_hy_pass.py:92); a
\* file's chunks fit, have all its words once and in order, each under its own
\* header (chunk.py:129).
PassesHold ==
  CASE part = "ingest"   -> I!ReportIsTrue
    [] part = "sessions" -> S!SkippedIsDistilled
    [] part = "dreams"   -> D!MarkedIsRemembered
    [] part = "reflect"  -> F!WriterIsHeard /\ F!KeptApart /\ F!WriterIsOut
    [] part = "chunker"  -> C!ChunksFit /\ C!WordsKept /\ C!OwnSection
    [] OTHER             -> TRUE
\* An embed() call gets the vectors of its own texts in their order
\* (embeddings.py:442), over a client of its own loop (embeddings.py:115).
OwnAnswer == part = "embed" => E!OwnVectors /\ E!OwnLoop
\* A causal trace has each entity at its least distance (observer.py:236).
TraceIsNearest == part = "observer" => O!TraceIsNearest
\* What an update put aside comes back (cli.py:781).
ChangesBack == U!ChangesBack
\* Upkeep deletes no row and no event it was not told to (chroma.py:592).
NothingSwept == part = "upkeep" => K!NothingSwept
-----------------------------------------------------------------------------
Row(m) == [superseded |-> m, due |-> FALSE]
Job(t, k, i) == [tool |-> t, k |-> k, tier |-> "all", id |-> i]
Lay(f) == [s \in Tiers \X Ids |-> IF s \in DOMAIN f THEN f[s] ELSE Gone]
Two == Lay([s \in {<<"working", "a">>, <<"semantic", "b">>, <<"semantic", "a">>} |-> Row(FALSE)])
Old == Lay([s \in {"episodic"} \X Ids |-> Row(s[2] # "d")])
Scene(l, x, y, z) == [rows |-> l, jobs |-> c1 :> x @@ c2 :> y @@ c3 :> z]
MCScenes ==
  {Scene(Two, Job("recall", 2, "a"), Job("supersede", 1, "a"), Job("forget", 1, "b")),
   Scene(Two, Job("related", 1, "a"), Job("supersede", 1, "a"), Job("forget_by_query", 1, "b")),
   Scene(Two, Job("review", 1, "a"), Job("search", 1, "a"), Job("decay_apply", 1, "b")),
   Scene(Two, Job("index", 2, "a"), Job("supersede", 1, "a"), Job("inflate", 1, "b")),
   Scene(Old, Job("nudge", 1, "a"), Job("supersede", 1, "d"), Job("recall", 1, "a")),
   Scene(Old, Job("wake_up", 1, "a"), Job("decay_status", 1, "a"), Job("decay_apply", 1, "b"))}
MCFading == {<<"semantic", "a">>, <<"episodic", "d">>}

MCLayerOf == [c \in Docs \X Texts |-> IF c[2] = "t1" THEN "semantic" ELSE "procedural"]

MCWanted   == "e1" :> <<"a", "b", "a">> @@ "e2" :> <<"b", "c", "d">> @@ "e3" :> <<"d", "b", "a">>
MCLoopOf   == "e1" :> Main @@ "e2" :> Main @@ "e3" :> "tool"
MCPatience == "e1" :> 120 @@ "e2" :> 120 @@ "e3" :> 2

To(f, t) == [from |-> f, to |-> t]
MCWebs ==
  {<<To("b", "a"), To("c", "a"), To("d", "b"), To("e", "d"), To("e", "c")>>,
   <<To("b", "a"), To("b", "a"), To("c", "b"), To("d", "a"), To("e", "c")>>,
   <<To("b", "a"), To("a", "b"), To("c", "a"), To("d", "c"), To("d", "e")>>}

MCAdded == {<<"word">>, <<"space", "word">>, <<"stop", "space", "word">>, <<"newline", "newline">>,
            <<"newline", "word">>, <<"newline", "header", "newline">>}

MCEpisodes == <<"e1", "e2", "e3">>
MCTold == [e1 |-> <<"a", "w">>, e2 |-> <<"c", "x", "w">>, e3 |-> <<"b", "d">>]
Match(t, c) == [text |-> t, confidence |-> c]
MCMatched == [e1 |-> <<Match("b", 2), Match("b", 1)>>, e2 |-> <<Match("c", 1), Match("w", 1)>>,
              e3 |-> <<Match("a", 2), Match("d", 1)>>]
MCAlike == {<<"a", "c">>, <<"b", "c">>, <<"c", "d">>}

MCDreamOf == "r1" :> "d1" @@ "r2" :> "d2"
=============================================================================
