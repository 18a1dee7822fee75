-------------------------------- MODULE Reflect --------------------------------
(***************************************************************************)
(* Consolidation: Memory.reflect() of src/src/memory.py takes the episodic  *)
(* chunks of the last days, gets facts out of each, drops those that repeat *)
(* one another and remembers the rest in the semantic tier.  The facts come *)
(* from the caller's callback or, when it has none, from regular            *)
(* expressions (src/src/consolidate.py).  The nightly job                   *)
(* (src/scripts/nightly_hy_pass.py) loads the Hy-Memory writer into LM      *)
(* Studio for its callback (src/src/hy_memory.py) and unloads it when done; *)
(* other scripts do so too, and any of them unloads it for all.             *)
(*                                                                         *)
(* How alike two texts are is Alike; what is in a text is Told and Matched. *)
(***************************************************************************)
EXTENDS Naturals, Sequences, FiniteSets, SequencesExt

CONSTANTS Episodes,   \* the episodic chunks, in the collection's order
          Texts,      \* what facts say
          Told,       \* what the writer would say of a chunk
          Matched,    \* what the expressions match in it: text and confidence
          Storable,   \* texts of a length that is accepted
          Wordless,   \* texts without a Latin letter or digit but for "I", "the" and such
          Alike,      \* pairs of texts whose words overlap enough
          MaxChunks, Cap,
          Jobs,       \* nightly passes
          Others,     \* other scripts that load the writer
          MaxTrouble  \* bound: failures and kills

ByAgent == 3          \* confidences: 0.85; 0.6 and 0.4 are 2 and 1
Chunks == ToSet(Episodes)

VARIABLES episodic,   \* chunks that are there
          recent,     \* chunks ingested within lookback_days
          semantic,   \* facts remembered: text and source
          marker,     \* the reflection_marker: how many were promoted
          writer,     \* the writer is in LM Studio's memory
          at,         \* where a job is
          scan, facts, kept, next, promoted,   \* its locals
          mishap,     \* failures and kills so far
          orphaned    \* history: a script died before its unload, or that failed

jobVars == <<at, scan, facts, kept, next, promoted>>
bankVars == <<episodic, recent, semantic, marker>>
reflectVars == <<bankVars, writer, jobVars, mishap, orphaned>>

Fact == [text : Texts, confidence : 1 .. ByAgent, source : Chunks]
Places == {"new", "scan", "extract", "dedupe", "promote", "mark", "unload", "over", "using"}

ReflectTypeOK ==
  /\ episodic \subseteq Chunks /\ recent \subseteq Chunks
  /\ semantic \subseteq [text : Texts, source : Chunks]
  /\ marker \in 0 .. Cap /\ writer \in BOOLEAN /\ orphaned \in BOOLEAN
  /\ at \in [Jobs \cup Others -> Places]
  /\ scan \in [Jobs -> Seq(Chunks)]
  /\ facts \in [Jobs -> Seq(Fact)] /\ kept \in [Jobs -> Seq(Fact)]
  /\ next \in [Jobs -> Nat] /\ promoted \in [Jobs -> 0 .. Cap]
  /\ mishap \in 0 .. MaxTrouble

ReflectInit ==
  /\ episodic = Chunks /\ recent = Chunks /\ semantic = {} /\ marker = 0
  /\ writer = FALSE /\ orphaned = FALSE
  /\ at = [j \in Jobs \cup Others |-> "new"]
  /\ scan = [j \in Jobs |-> <<>>] /\ facts = [j \in Jobs |-> <<>>]
  /\ kept = [j \in Jobs |-> <<>>] /\ next = [j \in Jobs |-> 1]
  /\ promoted = [j \in Jobs |-> 0]
  /\ mishap = 0

Goto(j, place) == at' = [at EXCEPT ![j] = place]
Trouble == mishap < MaxTrouble /\ mishap' = mishap + 1

-----------------------------------------------------------------------------
(* Facts.                                                                  *)

\* Texts that can be stored, each once.
Once(fs) ==
  LET Put(a, f) == IF f.text \in Storable /\ \A i \in DOMAIN a : a[i].text # f.text
                     THEN Append(a, f) ELSE a
      upTo[i \in 0 .. Len(fs)] == IF i = 0 THEN <<>> ELSE Put(upTo[i - 1], fs[i])
  IN  upTo[Len(fs)]

\* extract_facts_from_chunk(): what the callback said, if any of it counts, or
\* what the expressions find.
extract_facts_from_chunk(c, said) ==
  LET agent == Once([i \in DOMAIN said |-> [text |-> said[i], confidence |-> ByAgent, source |-> c]])
      regex == Once([i \in DOMAIN Matched[c] |->
                      [text |-> Matched[c][i].text, confidence |-> Matched[c][i].confidence,
                       source |-> c]])
  IN  IF agent # <<>> THEN agent ELSE regex

\* Texts without words are like no text, an equal one included.
Near(x, y) ==
  /\ x \notin Wordless /\ y \notin Wordless
  /\ x = y \/ <<x, y>> \in Alike \/ <<y, x>> \in Alike

\* Those of a that are like f.
Like(a, f) == {i \in DOMAIN a : Near(f.text, a[i].text)}

\* Mutated form of Weighed: the later of two equals takes the place.
WeighedLater(a, f) ==
  LET i == Min(Like(a, f))
  IN  IF Like(a, f) = {} THEN Append(a, f)
      ELSE IF f.confidence >= a[i].confidence THEN [a EXCEPT ![i] = [f EXCEPT !.source = a[i].source]]
      ELSE a

\* A fact is compared with those kept, in order; the first that is like it
\* takes its text and confidence if that is higher, and keeps its own source.
Weighed(a, f) ==
  LET i == Min(Like(a, f))
  IN  IF Like(a, f) = {} THEN Append(a, f)
      ELSE IF f.confidence > a[i].confidence THEN [a EXCEPT ![i] = [f EXCEPT !.source = a[i].source]]
      ELSE a

deduplicate_facts(fs) ==
  LET upTo[i \in 0 .. Len(fs)] == IF i = 0 THEN <<>> ELSE Weighed(upTo[i - 1], fs[i])
  IN  upTo[Len(fs)]

-----------------------------------------------------------------------------
(* A nightly job.                                                          *)

\* lms load.  When it fails the job is over; nothing was scanned.
Load(j) ==
  /\ at[j] = "new"
  /\ \/ writer' = TRUE /\ Goto(j, "scan") /\ UNCHANGED mishap
     \/ Trouble /\ Goto(j, "over") /\ UNCHANGED writer
  /\ UNCHANGED <<bankVars, scan, facts, kept, next, promoted, orphaned>>

\* Those of a sequence that are in T.
Among(s, T) ==
  LET upTo[i \in 0 .. Len(s)] ==
        IF i = 0 THEN <<>> ELSE IF s[i] \in T THEN Append(upTo[i - 1], s[i]) ELSE upTo[i - 1]
  IN  upTo[Len(s)]

\* The chunks of the last days, the first MaxChunks of them; superseded ones are
\* not left out.  An exception of the store ends the job, the writer loaded.
Scan(j) ==
  /\ at[j] = "scan"
  /\ \/ LET found == Among(Episodes, episodic \cap recent)
            first == SubSeq(found, 1, IF Len(found) < MaxChunks THEN Len(found) ELSE MaxChunks)
        IN  /\ scan' = [scan EXCEPT ![j] = first]
            /\ Goto(j, IF first = <<>> THEN "unload" ELSE "extract")
        /\ UNCHANGED <<mishap, orphaned>>
     \/ Trouble /\ Goto(j, "over") /\ orphaned' = TRUE /\ UNCHANGED scan
  /\ UNCHANGED <<bankVars, writer, facts, kept, next, promoted>>

\* The callback asks the writer, for up to three minutes: [] when it is not
\* there, does not answer in time or says nothing that parses.
Extract(j) ==
  /\ at[j] = "extract"
  /\ LET c == scan[j][next[j]] IN
       \E said \in {<<>>} \cup IF writer THEN {Told[c]} ELSE {} :
         facts' = [facts EXCEPT ![j] = @ \o extract_facts_from_chunk(c, said)]
  /\ IF next[j] = Len(scan[j])
       THEN Goto(j, "dedupe") /\ next' = [next EXCEPT ![j] = 1]
       ELSE next' = [next EXCEPT ![j] = @ + 1] /\ UNCHANGED at
  /\ UNCHANGED <<bankVars, writer, scan, kept, promoted, mishap, orphaned>>

Dedupe(j) ==
  /\ at[j] = "dedupe"
  /\ kept' = [kept EXCEPT ![j] = deduplicate_facts(facts[j])]
  /\ Goto(j, IF kept'[j] = <<>> THEN "mark" ELSE "promote")
  /\ UNCHANGED <<bankVars, writer, scan, facts, next, promoted, mishap, orphaned>>

\* remember() of the next fact, Cap of them at most; one that raises is passed
\* over.
Promote(j) ==
  /\ at[j] = "promote"
  /\ LET f == kept[j][next[j]] IN
       \/ /\ semantic' = semantic \cup {[text |-> f.text, source |-> f.source]}
          /\ promoted' = [promoted EXCEPT ![j] = @ + 1]
          /\ UNCHANGED mishap
       \/ Trouble /\ UNCHANGED <<semantic, promoted>>
  /\ IF next[j] = Len(kept[j]) \/ next[j] = Cap
       THEN Goto(j, "mark") /\ UNCHANGED next
       ELSE next' = [next EXCEPT ![j] = @ + 1] /\ UNCHANGED at
  /\ UNCHANGED <<episodic, recent, marker, writer, scan, facts, kept, orphaned>>

\* The marker is written if it can be.
Mark(j) ==
  /\ at[j] = "mark"
  /\ \/ marker' = promoted[j] /\ UNCHANGED mishap
     \/ Trouble /\ UNCHANGED marker
  /\ Goto(j, "unload")
  /\ UNCHANGED <<episodic, recent, semantic, writer, scan, facts, kept, next, promoted, orphaned>>

\* lms unload, whoever else uses the writer.  When it fails that is all.
Unloaded ==
  \/ writer' = FALSE /\ UNCHANGED <<mishap, orphaned>>
  \/ Trouble /\ orphaned' = TRUE /\ UNCHANGED writer
Unload(j) ==
  /\ at[j] = "unload"
  /\ Unloaded
  /\ Goto(j, "over")
  /\ UNCHANGED <<bankVars, scan, facts, kept, next, promoted>>

\* Another script: the exit code of its load is not looked at, and it unloads
\* in a finally.
Borrow(o) ==
  /\ at[o] = "new"
  /\ \/ writer' = TRUE /\ UNCHANGED mishap
     \/ Trouble /\ UNCHANGED writer
  /\ Goto(o, "using")
  /\ UNCHANGED <<bankVars, scan, facts, kept, next, promoted, orphaned>>
Return(o) ==
  /\ at[o] = "using"
  /\ Unloaded
  /\ Goto(o, "over")
  /\ UNCHANGED <<bankVars, scan, facts, kept, next, promoted>>

Killed(j) ==
  /\ at[j] \notin {"new", "over"}
  /\ Trouble
  /\ orphaned' = TRUE
  /\ Goto(j, "over")
  /\ UNCHANGED <<bankVars, writer, scan, facts, kept, next, promoted>>

-----------------------------------------------------------------------------
\* What happens to the memory meanwhile: a chunk gets old or is forgotten.
Passes(c) == recent' = recent \ {c} /\ c \in recent /\ UNCHANGED episodic
Forgotten(c) == episodic' = episodic \ {c} /\ c \in episodic /\ UNCHANGED recent
Meanwhile ==
  /\ \E c \in Chunks : Passes(c) \/ Forgotten(c)
  /\ UNCHANGED <<semantic, marker, writer, jobVars, mishap, orphaned>>

Turn(j) == Load(j) \/ Scan(j) \/ Extract(j) \/ Dedupe(j) \/ Promote(j) \/ Mark(j) \/ Unload(j)

ReflectNext ==
  \/ \E j \in Jobs : Turn(j) \/ Killed(j)
  \/ \E o \in Others : Borrow(o) \/ Return(o) \/ Killed(o)
  \/ Meanwhile

-----------------------------------------------------------------------------
(* Properties.                                                             *)

Deduped(j) == at[j] \in {"promote", "mark", "unload"} /\ scan[j] # <<>>

Carries(k, f) == k.text = f.text \/ Near(f.text, k.text)

\* What the writer said outlives the deduplication, in its own words or in
\* those of something like it that the writer said as well: a guess of the
\* expressions never takes its place (consolidate.py:301).
WriterIsHeard ==
  \A j \in Jobs : Deduped(j) =>
    \A i \in DOMAIN facts[j] : facts[j][i].confidence = ByAgent =>
      \E k \in DOMAIN kept[j] : kept[j][k].confidence = ByAgent
                               /\ Carries(kept[j][k], facts[j][i])

\* When all facts are as sure, no two of those kept are alike, and each one
\* dropped is like one that is kept (consolidate.py:288).  Two equal facts
\* without words are both kept (consolidate.py:294).
KeptApart ==
  \A j \in Jobs :
    Deduped(j) /\ (\A a, b \in ToSet(facts[j]) : a.confidence = b.confidence) =>
      /\ \A i, k \in DOMAIN kept[j] : Near(kept[j][i].text, kept[j][k].text) => i = k
      /\ \A f \in ToSet(facts[j]) : \E k \in ToSet(kept[j]) : Carries(k, f)

\* When all scripts are over and each did its unload, the writer is out of
\* memory again, in whichever order they loaded and unloaded it
\* (nightly_hy_pass.py:92).
WriterIsOut ==
  (\A j \in Jobs \cup Others : at[j] \in {"new", "over"}) /\ ~ orphaned => ~ writer
=============================================================================
