---------------------------- MODULE PassesProofs ----------------------------
(***************************************************************************)
(* Proofs about the parts of MCMemory that fill and read the store, for any *)
(* value of their constants: the chunker, ingest, session logs, dreams and  *)
(* consolidation, then recall and updates.  A step is one of a single part: *)
(* each part has an invariant of its own, which the steps of the others     *)
(* cannot disturb.                                                          *)
(***************************************************************************)
EXTENDS MCMemory, ChunkerProofs

vars == <<part, recallVars, ingestVars, sessionVars, embedVars, observerVars,
          dreamVars, updateVars, upkeepVars, chunkerVars, reflectVars>>

-----------------------------------------------------------------------------
(* The chunker.                                                             *)

\* It holds in every behaviour.
LEMMA ChunkerAlways == Spec => []ChunkerInv
<1>1. Init => ChunkerInv
  BY ChunkerStart DEF Init
<1>2. ChunkerInv /\ [Next]_vars => ChunkerInv'
  BY ChunkerStep, ChunkerStutter DEF Next, vars
<1> QED
  BY <1>1, <1>2, PTL DEF Spec, vars

-----------------------------------------------------------------------------
(* Ingest of directories.                                                   *)

Runs == [step : I!Steps, todo : SUBSET (Docs \cup Layers), read : SUBSET (Layers \X I!Chunks),
         add : SUBSET (Layers \X I!Chunks), gone : SUBSET (Layers \X I!Chunks), ok : BOOLEAN]

\* What a run without errors has read is in a tier yet to be filled, about to be
\* added, stored, or forgotten since.
Accounted ==
  run.ok /\ run.step \in {"embed", "add"} =>
    \A r \in run.read : r[1] \in run.todo \/ r \in stored \/ r \in run.gone
                        \/ (run.step = "add" /\ r \in run.add)

IngestInv ==
  /\ I!IngestTypeOK /\ run \in Runs
  /\ run.step = "read" => run.todo \subseteq Docs
  /\ Accounted /\ reports \subseteq stored

\* The invariant holds in the first states.
LEMMA IngestStart == I!IngestInit => IngestInv
<1> SUFFICES ASSUME I!IngestInit PROVE IngestInv
  OBVIOUS
<1>1. run \in Runs /\ run.step = "idle" /\ run.add = {} /\ run.read = {}
  BY DEF I!IngestInit, I!NoRun, Runs, I!Steps
<1>2. changes \in 0 .. MaxChanges /\ mishaps \in 0 .. MaxMishaps
  BY IngestAssumption DEF I!IngestInit
<1> QED
  BY <1>1, <1>2 DEF I!IngestInit, IngestInv, I!IngestTypeOK, Accounted, I!Steps

\* The counters of changes and mishaps stay within their bounds.
LEMMA CountersKept ==
  ASSUME I!IngestTypeOK, I!Calm \/ I!Change \/ I!Mishap
  PROVE  changes' \in 0 .. MaxChanges /\ mishaps' \in 0 .. MaxMishaps
BY IngestAssumption DEF I!IngestTypeOK, I!Calm, I!Change, I!Mishap

\* Rows of a file are rows.
LEMMA RowsAre == ASSUME I!IngestTypeOK, NEW f \in Docs PROVE I!Rows(f) \subseteq Layers \X I!Chunks
<1>1. ASSUME NEW t \in docs[f]
      PROVE  <<I!Tier(<<f, t>>), <<f, t>>>> \in Layers \X I!Chunks
  <2>1. <<f, t>> \in I!Chunks
    BY DEF I!IngestTypeOK, I!Chunks
  <2>2. I!Tier(<<f, t>>) \in Layers
    BY <2>1, IngestAssumption DEF I!Chunks, I!Tier
  <2> QED
    BY <2>1, <2>2
<1> QED
  BY <1>1, Zenon DEF I!Rows

\* Every step keeps it.
LEMMA IngestStep == IngestInv /\ I!IngestNext => IngestInv'
<1> SUFFICES ASSUME IngestInv, I!IngestNext PROVE IngestInv'
  OBVIOUS
<1>1. /\ run \in Runs /\ docs \in [Docs -> SUBSET Texts] /\ day \in BOOLEAN
      /\ stored \subseteq Layers \X I!Chunks /\ reports \subseteq stored
      /\ run.add \subseteq run.read
  BY DEF IngestInv, I!IngestTypeOK
<1>2. changes' \in 0 .. MaxChanges /\ mishaps' \in 0 .. MaxMishaps
  <2>1. I!Calm \/ I!Change \/ I!Mishap
    BY Zenon DEF I!IngestNext, I!Edit, I!NextDay, I!Forgotten, I!RunStart, I!Reindex, I!RunRead, I!RunEmbed,
           I!RunAdd, I!RunEnd, I!RunKilled
  <2> QED
    BY <2>1, CountersKept DEF IngestInv
<1>3. ASSUME run' \in Runs, run'.add \subseteq run'.read, docs' \in [Docs -> SUBSET Texts], day' \in BOOLEAN,
             stored' \subseteq Layers \X I!Chunks, reports' \subseteq stored', Accounted',
             run'.step = "read" => run'.todo \subseteq Docs
      PROVE  IngestInv'
  BY <1>2, <1>3 DEF IngestInv, I!IngestTypeOK, Runs
<1>4. I!NoRun \in Runs /\ I!NoRun.step = "idle" /\ I!NoRun.add = {}
  BY DEF I!NoRun, Runs, I!Steps
<1>5. CASE \E f \in Docs : I!Edit(f)
  BY <1>1, <1>3, <1>5 DEF I!Edit, IngestInv, Accounted
<1>6. CASE I!NextDay
  BY <1>1, <1>3, <1>6 DEF I!NextDay, IngestInv, Accounted
<1>7. ASSUME NEW r \in Layers \X I!Chunks, I!Forgotten(r) PROVE IngestInv'
  <2>1. /\ stored' = stored \ {r} /\ reports' = reports \ {r}
        /\ run' = [run EXCEPT !.gone = @ \cup {r}] /\ UNCHANGED <<docs, day>>
    BY <1>7 DEF I!Forgotten
  <2>2. run' \in Runs /\ run'.step = run.step /\ run'.todo = run.todo /\ run'.read = run.read
        /\ run'.add = run.add /\ run'.gone = run.gone \cup {r} /\ run'.ok = run.ok
    BY <1>1, <2>1 DEF Runs
  <2> QED
    BY <1>1, <1>3, <2>1, <2>2 DEF IngestInv, Accounted
<1>8. ASSUME NEW f \in SUBSET Docs, I!RunStart(f) PROVE IngestInv'
  <2>1. run' = [I!NoRun EXCEPT !.step = "read", !.todo = f] /\ UNCHANGED <<docs, day, stored, reports>>
    BY <1>8 DEF I!RunStart
  <2>2. run' \in Runs /\ run'.step = "read" /\ run'.add = {} /\ run'.todo \subseteq Docs
    BY <1>4, <2>1 DEF Runs, I!Steps
  <2> QED
    BY <1>1, <1>3, <2>1, <2>2 DEF Accounted
<1>9. ASSUME NEW t \in Layers, I!Reindex(t) PROVE IngestInv'
  <2>1. /\ run' = [I!NoRun EXCEPT !.step = "read", !.todo = Docs] /\ UNCHANGED <<docs, day>>
        /\ stored' = {r \in stored : r[1] # t} /\ reports' = {r \in reports : r[1] # t}
    BY <1>9 DEF I!Reindex
  <2>2. run' \in Runs /\ run'.step = "read" /\ run'.add = {} /\ run'.todo = Docs
    BY <1>4, <2>1 DEF Runs, I!Steps
  <2> QED
    BY <1>1, <1>3, <2>1, <2>2 DEF Accounted
<1>10. CASE I!RunRead
  <2>1. run.step = "read" /\ UNCHANGED <<docs, day, stored, reports>>
    BY <1>10, Zenon DEF I!RunRead
  <2>2. CASE run' = [run EXCEPT !.step = "embed", !.todo = Layers]
    <3>1. /\ run' \in Runs /\ run'.step = "embed" /\ run'.todo = Layers /\ run'.read = run.read
          /\ run'.add = run.add
      BY <1>1, <2>2 DEF Runs, I!Steps
    <3>2. \A r \in run.read : r[1] \in Layers
      BY <1>1 DEF Runs
    <3> QED
      BY <1>1, <1>3, <2>1, <3>1, <3>2 DEF Accounted
  <2>3. ASSUME NEW f \in run.todo, run' = [run EXCEPT !.todo = @ \ {f}, !.read = @ \cup I!Rows(f)]
        PROVE  IngestInv'
    <3>1. /\ run' \in Runs /\ run'.step = "read" /\ run'.read = run.read \cup I!Rows(f)
          /\ run'.add = run.add /\ run'.todo \subseteq Docs
      <4>1. I!Rows(f) \subseteq Layers \X I!Chunks
        BY <2>1, <2>3, RowsAre DEF IngestInv
      <4> QED
        BY <1>1, <2>1, <2>3, <4>1 DEF Runs, IngestInv
    <3> QED
      BY <1>1, <1>3, <2>1, <3>1 DEF Accounted
  <2>4. ASSUME NEW f \in run.todo, run' = [run EXCEPT !.todo = @ \ {f}, !.ok = FALSE] PROVE IngestInv'
    <3>1. /\ run' \in Runs /\ run'.ok = FALSE /\ run'.read = run.read /\ run'.add = run.add
          /\ run'.todo \subseteq run.todo /\ run'.step = run.step
      BY <1>1, <2>4 DEF Runs
    <3> QED
      BY <1>1, <1>3, <2>1, <3>1 DEF Accounted, IngestInv
  <2> QED
    BY <1>10, <2>2, <2>3, <2>4, Zenon DEF I!RunRead
<1>11. CASE I!RunEmbed
  <2>1. run.step = "embed" /\ UNCHANGED <<docs, day, stored, reports>>
    BY <1>11 DEF I!RunEmbed
  <2>2. ASSUME NEW t \in run.todo,
               run' = [run EXCEPT !.step = "add", !.todo = @ \ {t}, !.add = {r \in run.read : r[1] = t}]
        PROVE  IngestInv'
    <3>1. /\ run' \in Runs /\ run'.step = "add" /\ run'.todo = run.todo \ {t} /\ run'.read = run.read
          /\ run'.add = {r \in run.read : r[1] = t} /\ run'.gone = run.gone /\ run'.ok = run.ok
      <4> DEFINE ofTier == {r \in run.read : r[1] = t}
      <4>1. ofTier \in SUBSET (Layers \X I!Chunks)
        BY <1>1 DEF Runs
      <4>2. run' = [run EXCEPT !.step = "add", !.todo = @ \ {t}, !.add = ofTier]
        BY <2>2
      <4> SUFFICES /\ run' \in Runs /\ run'.step = "add" /\ run'.todo = run.todo \ {t}
                   /\ run'.read = run.read /\ run'.add = ofTier /\ run'.gone = run.gone
                   /\ run'.ok = run.ok
        OBVIOUS
      <4> HIDE DEF ofTier
      <4> QED
        BY <1>1, <4>1, <4>2 DEF Runs, I!Steps
    <3>2. Accounted'
      BY <2>1, <3>1 DEF IngestInv, Accounted
    <3> QED
      BY <1>1, <1>3, <2>1, <3>1, <3>2
  <2>3. ASSUME NEW t \in run.todo, run' = [run EXCEPT !.todo = @ \ {t}, !.ok = FALSE] PROVE IngestInv'
    <3>1. run' \in Runs /\ run'.ok = FALSE /\ run'.read = run.read /\ run'.add = run.add /\ run'.step = "embed"
      BY <1>1, <2>1, <2>3 DEF Runs
    <3> QED
      BY <1>1, <1>3, <2>1, <3>1 DEF Accounted
  <2> QED
    BY <1>11, <2>2, <2>3, Zenon DEF I!RunEmbed
<1>12. CASE I!RunAdd
  <2>1. run.step = "add" /\ UNCHANGED <<docs, day, reports>>
    BY <1>12 DEF I!RunAdd
  <2>2. CASE run.add = {} /\ run' = [run EXCEPT !.step = "embed"] /\ UNCHANGED stored
    <3>1. /\ run' \in Runs /\ run'.step = "embed" /\ run'.todo = run.todo /\ run'.read = run.read
          /\ run'.add = {} /\ run'.gone = run.gone /\ run'.ok = run.ok
      BY <1>1, <2>2 DEF Runs, I!Steps
    <3>2. Accounted'
      BY <2>1, <2>2, <3>1 DEF IngestInv, Accounted
    <3> QED
      BY <1>1, <1>3, <2>1, <2>2, <3>1, <3>2
  <2>3. ASSUME NEW b \in SUBSET run.add, run' = [run EXCEPT !.add = @ \ b], stored' = stored \cup b
        PROVE  IngestInv'
    <3>1. /\ run' \in Runs /\ run'.step = "add" /\ run'.todo = run.todo /\ run'.read = run.read
          /\ run'.add = run.add \ b /\ run'.gone = run.gone /\ run'.ok = run.ok
      BY <1>1, <2>1, <2>3 DEF Runs
    <3>2. Accounted'
      BY <2>1, <2>3, <3>1 DEF IngestInv, Accounted
    <3>3. stored' \subseteq Layers \X I!Chunks /\ reports' \subseteq stored'
      BY <1>1, <2>1, <2>3 DEF Runs
    <3> QED
      BY <1>1, <1>3, <2>1, <3>1, <3>2, <3>3
  <2>4. CASE run' = [run EXCEPT !.step = "embed", !.add = {}, !.ok = FALSE] /\ UNCHANGED stored
    <3>1. run' \in Runs /\ run'.ok = FALSE /\ run'.read = run.read /\ run'.add = {} /\ run'.step = "embed"
      BY <1>1, <2>4 DEF Runs, I!Steps
    <3> QED
      BY <1>1, <1>3, <2>1, <2>4, <3>1 DEF Accounted
  <2> QED
    BY <1>12, <2>2, <2>3, <2>4 DEF I!RunAdd, I!Batches
<1>13. CASE I!RunEnd
  <2>1. /\ run.step = "embed" /\ run.todo = {} /\ run' = I!NoRun /\ UNCHANGED <<docs, day, stored>>
        /\ reports' = IF run.ok THEN reports \cup (run.read \ run.gone) ELSE reports
    BY <1>13 DEF I!RunEnd
  <2>2. reports' \subseteq stored'
    BY <1>1, <2>1 DEF IngestInv, Accounted
  <2> QED
    BY <1>1, <1>3, <1>4, <2>1, <2>2 DEF Accounted
<1>14. CASE I!RunKilled
  BY <1>1, <1>3, <1>4, <1>14 DEF I!RunKilled, Accounted
<1> QED
  BY <1>5, <1>6, <1>7, <1>8, <1>9, <1>10, <1>11, <1>12, <1>13, <1>14 DEF I!IngestNext

\* A step that leaves these variables alone keeps it.
LEMMA IngestStutter == IngestInv /\ UNCHANGED ingestVars => IngestInv'
BY DEF ingestVars, IngestInv, I!IngestTypeOK, Accounted

\* It holds in every behaviour.
LEMMA IngestAlways == Spec => []IngestInv
<1>1. Init => IngestInv
  BY IngestStart DEF Init
<1>2. IngestInv /\ [Next]_vars => IngestInv'
  BY IngestStep, IngestStutter DEF Next, vars
<1> QED
  BY <1>1, <1>2, PTL DEF Spec, vars

-----------------------------------------------------------------------------
(* Distillation of session logs.                                            *)

DistSteps == {"idle", "next", "read", "distil", "mark"}
Dists == [step : DistSteps, left : SUBSET Logs, log : Logs, seen : Nat, got : Nat, state : [Logs -> Nat]]

\* A log was distilled at least as far as a time that is or will be saved for it.
Covered(times) ==
  \A s \in Logs : times[s] \leq turns[s] /\ (times[s] \leq distilled[s] \/ s \in missed)

\* The time was taken before the text was read, and the text read is not older
\* than what was distilled before.
InHand ==
  LET s == dist.log IN
    /\ dist.step \in {"read", "distil", "mark"} => dist.seen \leq turns[s]
    /\ dist.step = "distil" => dist.seen \leq dist.got /\ dist.got \leq turns[s] /\ distilled[s] \leq dist.got
    /\ dist.step = "mark" => dist.seen \leq distilled[s] \/ s \in missed

SessionsInv ==
  /\ turns \in [Logs -> 0 .. MaxTurns] /\ saved \in [Logs -> 0 .. MaxTurns]
  /\ distilled \in [Logs -> 0 .. MaxTurns] /\ missed \subseteq Logs
  /\ failures \in 0 .. MaxFailures
  /\ dist \in Dists
  /\ \A s \in Logs : distilled[s] \leq turns[s]
  /\ Covered(saved) /\ Covered(dist.state)
  /\ InHand

\* A distillation that has not begun.
LEMMA AnIdleDist == S!NoDist \in Dists /\ S!NoDist.step = "idle" /\ S!NoDist.state = [s \in Logs |-> 0]
<1>1. (CHOOSE s \in Logs : TRUE) \in Logs
  BY SessionsAssumption
<1> QED
  BY <1>1 DEF S!NoDist, S!NoState, Dists, DistSteps

\* The invariant holds in the first states.
LEMMA SessionsStart == S!SessionsInit => SessionsInv
<1> SUFFICES ASSUME S!SessionsInit PROVE SessionsInv
  OBVIOUS
<1>1. /\ turns = [s \in Logs |-> 0] /\ saved = turns /\ distilled = turns /\ missed = {} /\ failures = 0
      /\ dist = S!NoDist
  BY DEF S!SessionsInit, S!NoState
<1>2. dist \in Dists /\ dist.step = "idle" /\ dist.state = [s \in Logs |-> 0]
  BY <1>1, AnIdleDist
<1> QED
  BY <1>1, <1>2, SessionsAssumption DEF SessionsInv, Covered, InHand

\* Every step keeps it.
LEMMA SessionsStep == SessionsInv /\ S!SessionsNext => SessionsInv'
<1> SUFFICES ASSUME SessionsInv, S!SessionsNext PROVE SessionsInv'
  OBVIOUS
<1>1. /\ turns \in [Logs -> 0 .. MaxTurns] /\ saved \in [Logs -> 0 .. MaxTurns]
      /\ distilled \in [Logs -> 0 .. MaxTurns] /\ missed \subseteq Logs
      /\ failures \in 0 .. MaxFailures /\ MaxTurns \in Nat /\ MaxFailures \in Nat
      /\ dist \in Dists
      /\ \A s \in Logs : distilled[s] \leq turns[s]
  BY SessionsAssumption DEF SessionsInv
<1>2. Covered(saved) /\ Covered(dist.state) /\ InHand
  BY DEF SessionsInv
<1>3. failures' \in 0 .. MaxFailures
  <2>1. S!Calm \/ S!Mishap
    BY Zenon DEF S!SessionsNext, S!Turn, S!DistStart, S!DistStat, S!DistRead, S!DistDistil, S!DistMark,
           S!DistSave, S!DistKilled
  <2> QED
    BY <1>1, <2>1 DEF S!Calm, S!Mishap
<1>4. /\ S!NoDist \in Dists /\ S!NoDist.step = "idle"
      /\ S!NoDist.state = [s \in Logs |-> 0] /\ Covered(S!NoDist.state)
  <2>1. Covered([s \in Logs |-> 0])
    BY <1>1 DEF Covered
  <2> QED
    BY <2>1, AnIdleDist
<1>5. ASSUME NEW s \in Logs, S!Turn(s) PROVE SessionsInv'
  <2>1. /\ turns' = [turns EXCEPT ![s] = @ + 1] /\ turns[s] < MaxTurns
        /\ UNCHANGED <<saved, dist, distilled, missed>>
    BY <1>5 DEF S!Turn
  <2>2. /\ turns' \in [Logs -> 0 .. MaxTurns]
        /\ \A r \in Logs : turns[r] \leq turns'[r]
    BY <1>1, <2>1
  <2>3. \A r \in Logs : turns[r] \in Nat /\ turns'[r] \in Nat /\ distilled[r] \in Nat /\ saved[r] \in Nat
    BY <1>1, <2>2
  <2>4. dist.log \in Logs /\ dist.seen \in Nat /\ dist.got \in Nat /\ dist.state \in [Logs -> Nat]
    BY <1>1 DEF Dists
  <2>5. Covered(saved)' /\ Covered(dist.state)'
    BY <1>2, <2>1, <2>2, <2>3, <2>4 DEF Covered
  <2>6. InHand'
    BY <1>2, <2>1, <2>2, <2>3, <2>4 DEF InHand
  <2>7. \A r \in Logs : distilled'[r] \leq turns'[r]
    BY <1>1, <2>1, <2>2, <2>3
  <2> QED
    BY <1>1, <1>3, <2>1, <2>2, <2>5, <2>6, <2>7 DEF SessionsInv
\* The other steps leave the logs alone.
<1>6. ASSUME UNCHANGED turns, saved' \in [Logs -> 0 .. MaxTurns], distilled' \in [Logs -> 0 .. MaxTurns],
             missed' \subseteq Logs, dist' \in Dists,
             \A s \in Logs : distilled'[s] \leq turns[s], Covered(saved)', Covered(dist.state)', InHand'
      PROVE  SessionsInv'
  BY <1>1, <1>3, <1>6 DEF SessionsInv
<1>7. ASSUME UNCHANGED <<turns, saved, distilled, missed>>, dist' = S!NoDist PROVE SessionsInv'
  <2>1. Covered(dist.state)' /\ Covered(saved)'
    BY <1>2, <1>4, <1>7 DEF Covered
  <2>2. InHand'
    BY <1>4, <1>7 DEF InHand
  <2> QED
    BY <1>1, <1>4, <1>6, <1>7, <2>1, <2>2
<1>8. CASE S!DistStart
  <2>1. /\ UNCHANGED <<turns, saved, distilled, missed>>
        /\ dist' = [S!NoDist EXCEPT !.step = "next", !.left = Logs, !.state = saved]
    BY <1>8 DEF S!DistStart
  <2>0. saved \in [Logs -> Nat]
    BY <1>1
  <2>2. dist' \in Dists /\ dist'.step = "next" /\ dist'.state = saved
    BY <2>0, <1>4, <2>1 DEF Dists, DistSteps
  <2>3. Covered(dist.state)' /\ Covered(saved)' /\ InHand'
    BY <1>2, <2>1, <2>2 DEF Covered, InHand
  <2> QED
    BY <1>1, <1>6, <2>1, <2>2, <2>3
<1>9. ASSUME NEW s \in dist.left, UNCHANGED <<turns, saved, distilled, missed>>,
             dist' = [dist EXCEPT !.left = @ \ {s}, !.log = s, !.seen = turns[s],
                                  !.step = IF dist.state[s] = turns[s] THEN "next" ELSE "read"]
      PROVE  SessionsInv'
  <2>1. s \in Logs /\ turns[s] \in Nat
    BY <1>1 DEF Dists
  <2>2. /\ dist' \in Dists /\ dist'.step \in {"next", "read"} /\ dist'.state = dist.state
        /\ dist'.log = s /\ dist'.seen = turns[s]
    BY <1>1, <1>9, <2>1 DEF Dists, DistSteps
  <2>3. Covered(dist.state)' /\ Covered(saved)'
    BY <1>2, <1>9, <2>2 DEF Covered
  <2>4. InHand'
    BY <1>9, <2>1, <2>2 DEF InHand
  <2> QED
    BY <1>1, <1>6, <1>9, <2>2, <2>3, <2>4
<1>10. CASE S!DistRead
  <2>1. dist.step = "read" /\ UNCHANGED <<turns, saved, distilled>> /\ dist.log \in Logs
    BY <1>1, <1>10 DEF S!DistRead, Dists
  <2>2. dist.seen \in Nat /\ turns[dist.log] \in Nat /\ distilled[dist.log] \in Nat
        /\ dist.seen \leq turns[dist.log] /\ distilled[dist.log] \leq turns[dist.log]
    BY <1>1, <1>2, <2>1 DEF Dists, InHand
  <2>3. CASE dist' = [dist EXCEPT !.step = "distil", !.got = turns[dist.log]] /\ UNCHANGED missed
    <3>1. /\ dist' \in Dists /\ dist'.step = "distil" /\ dist'.got = turns[dist.log]
          /\ dist'.state = dist.state /\ dist'.log = dist.log /\ dist'.seen = dist.seen
      BY <1>1, <2>2, <2>3 DEF Dists, DistSteps
    <3>2. Covered(dist.state)' /\ Covered(saved)'
      BY <1>2, <2>1, <2>3, <3>1 DEF Covered
    <3>3. InHand'
      BY <2>1, <2>2, <3>1 DEF InHand
    <3> QED
      BY <1>1, <1>6, <2>1, <2>3, <3>1, <3>2, <3>3
  <2>4. CASE dist' = [dist EXCEPT !.step = "mark", !.got = 0] /\ missed' = missed \cup {dist.log}
    <3>1. /\ dist' \in Dists /\ dist'.step = "mark"
          /\ dist'.state = dist.state /\ dist'.log = dist.log /\ dist'.seen = dist.seen
      BY <1>1, <2>4 DEF Dists, DistSteps
    <3>2. Covered(dist.state)' /\ Covered(saved)'
      BY <1>2, <2>1, <2>4, <3>1 DEF Covered
    <3>3. InHand'
      BY <2>1, <2>2, <2>4, <3>1 DEF InHand
    <3> QED
      BY <1>1, <1>6, <2>1, <2>4, <3>1, <3>2, <3>3
  <2> QED
    BY <1>10, <2>3, <2>4 DEF S!DistRead
<1>11. CASE S!DistDistil
  <2>1. dist.step = "distil" /\ UNCHANGED <<turns, saved>> /\ dist.log \in Logs
    BY <1>1, <1>11 DEF S!DistDistil, Dists
  <2>2. /\ dist.seen \in Nat /\ dist.got \in Nat /\ turns[dist.log] \in 0 .. MaxTurns
        /\ distilled[dist.log] \in Nat /\ dist.seen \leq turns[dist.log]
        /\ dist.seen \leq dist.got /\ dist.got \leq turns[dist.log] /\ distilled[dist.log] \leq dist.got
    BY <1>1, <1>2, <2>1 DEF Dists, InHand
  <2>3. CASE /\ distilled' = [distilled EXCEPT ![dist.log] = dist.got]
             /\ dist' = [dist EXCEPT !.step = "mark"] /\ UNCHANGED missed
    <3>1. /\ dist' \in Dists /\ dist'.step = "mark"
          /\ dist'.state = dist.state /\ dist'.log = dist.log /\ dist'.seen = dist.seen
      BY <1>1, <2>3 DEF Dists, DistSteps
    <3>2. /\ distilled' \in [Logs -> 0 .. MaxTurns] /\ distilled'[dist.log] = dist.got
          /\ \A s \in Logs : distilled'[s] \leq turns[s]
      BY <1>1, <2>1, <2>2, <2>3
    <3>3. \A s \in Logs : distilled[s] \in Nat /\ distilled'[s] \in Nat /\ distilled[s] \leq distilled'[s]
      BY <1>1, <2>1, <2>2, <2>3, <3>2
    <3>4. dist.state \in [Logs -> Nat]
      BY <1>1 DEF Dists
    <3>5. Covered(dist.state)'
      BY <1>2, <2>1, <2>3, <3>1, <3>3, <3>4 DEF Covered
    <3>6. Covered(saved)'
      BY <1>1, <1>2, <2>1, <2>3, <3>3 DEF Covered
    <3>7. InHand'
      BY <2>1, <2>2, <3>1, <3>2 DEF InHand
    <3> QED
      BY <1>1, <1>6, <2>1, <2>3, <3>1, <3>2, <3>5, <3>6, <3>7
  <2>4. CASE /\ dist' = [dist EXCEPT !.step = "mark"]
             /\ missed' = missed \cup {dist.log} /\ UNCHANGED distilled
    <3>1. /\ dist' \in Dists /\ dist'.step = "mark"
          /\ dist'.state = dist.state /\ dist'.log = dist.log /\ dist'.seen = dist.seen
      BY <1>1, <2>4 DEF Dists, DistSteps
    <3>2. Covered(dist.state)' /\ Covered(saved)'
      BY <1>2, <2>1, <2>4, <3>1 DEF Covered
    <3>3. InHand'
      BY <2>1, <2>2, <2>4, <3>1 DEF InHand
    <3> QED
      BY <1>1, <1>6, <2>1, <2>4, <3>1, <3>2, <3>3
  <2> QED
    BY <1>7, <1>11, <2>1, <2>3, <2>4 DEF S!DistDistil
<1>12. CASE S!DistMark
  <2>1. /\ dist.step = "mark" /\ dist.log \in Logs /\ dist.seen \in Nat /\ dist.state \in [Logs -> Nat]
        /\ dist' = [dist EXCEPT !.step = "next", !.state[dist.log] = dist.seen]
        /\ UNCHANGED <<turns, saved, distilled, missed>>
    BY <1>1, <1>12 DEF S!DistMark, Dists
  <2>2. dist' \in Dists /\ dist'.step = "next" /\ dist'.state = [dist.state EXCEPT ![dist.log] = dist.seen]
    BY <1>1, <2>1 DEF Dists, DistSteps
  <2>3. Covered(dist.state)' /\ Covered(saved)'
    BY <1>2, <2>1, <2>2 DEF Covered, InHand
  <2>4. InHand'
    BY <2>2 DEF InHand
  <2> QED
    BY <1>1, <1>6, <2>1, <2>2, <2>3, <2>4
<1>13. CASE S!DistSave
  <2>1. dist' = S!NoDist /\ UNCHANGED <<turns, distilled, missed>> /\ saved' \in {dist.state, [s \in Logs |-> 0]}
    BY <1>13 DEF S!DistSave, S!NoState
  <2>2. dist.state \in [Logs -> Nat]
    BY <1>1 DEF Dists
  <2>3. saved' \in [Logs -> 0 .. MaxTurns] /\ Covered(saved)'
    BY <1>1, <1>2, <2>1, <2>2 DEF Covered
  <2>4. Covered(dist.state)' /\ InHand'
    BY <1>4, <2>1 DEF Covered, InHand
  <2> QED
    BY <1>1, <1>4, <1>6, <2>1, <2>3, <2>4
<1>14. CASE S!DistStat
  BY <1>9, <1>14, Zenon DEF S!DistStat
<1>15. CASE S!DistKilled
  BY <1>7, <1>15 DEF S!DistKilled
<1> QED
  BY <1>5, <1>8, <1>10, <1>11, <1>12, <1>13, <1>14, <1>15 DEF S!SessionsNext

\* A step that leaves these variables alone keeps it.
LEMMA SessionsStutter == SessionsInv /\ UNCHANGED sessionVars => SessionsInv'
BY DEF sessionVars, SessionsInv, Covered, InHand

\* It holds in every behaviour.
LEMMA SessionsAlways == Spec => []SessionsInv
<1>1. Init => SessionsInv
  BY SessionsStart DEF Init
<1>2. SessionsInv /\ [Next]_vars => SessionsInv'
  BY SessionsStep, SessionsStutter DEF Next, vars
<1> QED
  BY <1>1, <1>2, PTL DEF Spec, vars

\* What the invariant says of the logs that are skipped.
LEMMA SkippedIsCovered == SessionsInv => S!SkippedIsDistilled
BY DEF SessionsInv, Covered, S!SkippedIsDistilled

-----------------------------------------------------------------------------
(* Dreams and lessons.                                                      *)

\* A file without marks, or with marks of what is in memory.
Sound(file) == file \in {Garbled, NoFile} \/ file \subseteq memory

DreamsInv ==
  /\ D!DreamsTypeOK
  /\ Sound(marks) /\ Sound(tmp)
  /\ \A r \in Dreamers : mine[r] \subseteq memory

\* The invariant holds in the first states.
LEMMA DreamsStart == D!DreamsInit => DreamsInv
<1> SUFFICES ASSUME D!DreamsInit PROVE DreamsInv
  OBVIOUS
<1>1. stage \in [Dreamers -> D!Stages]
  BY DEF D!DreamsInit, D!Stages
<1>2. misfits \in 0 .. MaxMisfits
  BY DreamsAssumption DEF D!DreamsInit
<1> QED
  BY <1>1, <1>2 DEF D!DreamsInit, D!DreamsTypeOK, D!Entries, D!Files, DreamsInv, Sound

\* Every step keeps it.
LEMMA DreamsStep == DreamsInv /\ D!DreamsNext => DreamsInv'
<1> SUFFICES ASSUME DreamsInv, D!DreamsNext PROVE DreamsInv'
  OBVIOUS
<1>1. /\ surface \subseteq D!Entries /\ memory \subseteq D!Entries \cup Lessons
      /\ marks \in D!Files /\ tmp \in D!Files
      /\ stage \in [Dreamers -> D!Stages]
      /\ mine \in [Dreamers -> SUBSET D!Entries] /\ toRead \in [Dreamers -> SUBSET D!Entries]
      /\ lesson \in [Lessons -> {"new", "file", "done"}] /\ learnt \subseteq Lessons
  BY DEF DreamsInv, D!DreamsTypeOK
<1>2. Sound(marks) /\ Sound(tmp) /\ \A r \in Dreamers : mine[r] \subseteq memory
  BY DEF DreamsInv
<1>3. misfits' \in 0 .. MaxMisfits
  <2>1. misfits \in 0 .. MaxMisfits /\ MaxMisfits \in Nat
    BY DreamsAssumption DEF DreamsInv, D!DreamsTypeOK
  <2>2. UNCHANGED misfits \/ D!Misfit
    BY Zenon DEF D!DreamsNext, D!Dream, D!Open, D!Ingest, D!Ingested, D!Cycle, D!Distill, D!SaveOpen, D!SaveWrite,
           D!SaveReplace, D!Die, D!LearnStore, D!LearnWrite
  <2> QED
    BY <2>1, <2>2 DEF D!Misfit
<1>4. ASSUME surface' \subseteq D!Entries, memory' \subseteq D!Entries \cup Lessons,
             marks' \in D!Files, tmp' \in D!Files, stage' \in [Dreamers -> D!Stages],
             mine' \in [Dreamers -> SUBSET D!Entries], toRead' \in [Dreamers -> SUBSET D!Entries],
             lesson' \in [Lessons -> {"new", "file", "done"}], learnt' \subseteq Lessons,
             Sound(marks)', Sound(tmp)', \A r \in Dreamers : mine'[r] \subseteq memory'
      PROVE  DreamsInv'
  BY <1>3, <1>4, Zenon DEF DreamsInv, D!DreamsTypeOK
<1>5. ASSUME NEW e \in Dreamt, D!Dream(e) PROVE DreamsInv'
  <2>1. /\ surface' = surface \cup {e}
        /\ UNCHANGED <<memory, marks, tmp, stage, mine, toRead, lesson, learnt>>
    BY <1>5 DEF D!Dream, D!learnKept
  <2>2. surface' \subseteq D!Entries
    BY <1>1, <2>1 DEF D!Entries
  <2> QED
    BY <1>1, <1>2, <1>4, <2>1, <2>2 DEF Sound
\* A call moves on, and leaves the files and the store alone.
<1>6. ASSUME surface' \subseteq D!Entries, stage' \in [Dreamers -> D!Stages],
             toRead' \in [Dreamers -> SUBSET D!Entries],
             UNCHANGED <<memory, marks, tmp, mine, lesson, learnt>>
      PROVE  DreamsInv'
  BY <1>1, <1>2, <1>4, <1>6 DEF Sound
<1>7. ASSUME NEW r \in Dreamers, NEW place \in D!Stages, D!Stage(r, place)
      PROVE  stage' \in [Dreamers -> D!Stages]
  BY <1>1, <1>7 DEF D!Stage
<1>8. /\ "read" \in D!Stages /\ "cycle" \in D!Stages /\ "distill" \in D!Stages /\ "open" \in D!Stages
      /\ "write" \in D!Stages /\ "replace" \in D!Stages /\ "done" \in D!Stages
  BY DEF D!Stages
<1>9. ASSUME NEW r \in Dreamers, D!Open(r) PROVE DreamsInv'
  <2>1. /\ mine' = [mine EXCEPT ![r] = IF marks \in {Garbled, NoFile} THEN {} ELSE marks]
        /\ UNCHANGED <<surface, memory, marks, tmp, lesson, learnt>>
    BY <1>9 DEF D!Open, D!learnKept
  <2>2. stage' \in [Dreamers -> D!Stages]
    BY <1>7, <1>8, <1>9 DEF D!Open
  <2>3. toRead' \in [Dreamers -> SUBSET D!Entries]
    BY <1>1, <1>9 DEF D!Open
  <2>4. /\ mine' \in [Dreamers -> SUBSET D!Entries]
        /\ \A q \in Dreamers : mine'[q] \subseteq memory
    BY <1>1, <1>2, <2>1 DEF D!Files, Sound
  <2> QED
    BY <1>1, <1>2, <1>4, <2>1, <2>2, <2>3, <2>4 DEF Sound
<1>10. ASSUME NEW r \in Dreamers, D!Ingest(r) PROVE DreamsInv'
  <2>1. PICK e \in toRead[r] :
          /\ toRead' = [toRead EXCEPT ![r] = @ \ {e}]
          /\ \/ /\ memory' = IF e \in mine[r] THEN memory ELSE memory \cup {e}
                /\ mine' = [mine EXCEPT ![r] = @ \cup {e}]
             \/ UNCHANGED <<memory, mine>>
    BY <1>10, Zenon DEF D!Ingest
  <2>2. UNCHANGED <<surface, marks, tmp, stage, lesson, learnt>>
    BY <1>10 DEF D!Ingest, D!learnKept
  <2>3. e \in D!Entries
    BY <1>1
  <2>4. /\ toRead' \in [Dreamers -> SUBSET D!Entries] /\ mine' \in [Dreamers -> SUBSET D!Entries]
        /\ memory \subseteq memory' /\ memory' \subseteq D!Entries \cup Lessons
        /\ \A q \in Dreamers : mine'[q] \subseteq memory'
    BY <1>1, <1>2, <2>1, <2>3
  <2> QED
    BY <1>1, <1>2, <1>4, <2>2, <2>4 DEF Sound
<1>11. ASSUME NEW r \in Dreamers, D!Ingested(r) \/ D!Distill(r) \/ D!Die(r) PROVE DreamsInv'
  <2>1. UNCHANGED <<surface, memory, marks, tmp, mine, toRead, lesson, learnt>>
    BY <1>11 DEF D!Ingested, D!Distill, D!Die, D!learnKept
  <2>2. stage' \in [Dreamers -> D!Stages]
    BY <1>7, <1>8, <1>11 DEF D!Ingested, D!Distill, D!Die
  <2> QED
    BY <1>1, <1>6, <2>1, <2>2
<1>12. ASSUME NEW r \in Dreamers, D!Cycle(r) PROVE DreamsInv'
  <2>1. UNCHANGED <<memory, marks, tmp, mine, toRead, lesson, learnt>>
    BY <1>12 DEF D!Cycle, D!learnKept
  <2>2. stage' \in [Dreamers -> D!Stages]
    BY <1>7, <1>8, <1>12 DEF D!Cycle
  <2>3. surface' \subseteq D!Entries
    BY <1>1, <1>12 DEF D!Cycle, D!Entries
  <2> QED
    BY <1>1, <1>6, <2>1, <2>2, <2>3
<1>13. ASSUME NEW r \in Dreamers, D!SaveOpen(r) PROVE DreamsInv'
  <2>1. UNCHANGED <<surface, memory, marks, mine, toRead, lesson, learnt>> /\ tmp' = Garbled
    BY <1>13 DEF D!SaveOpen, D!learnKept
  <2>2. stage' \in [Dreamers -> D!Stages]
    BY <1>7, <1>8, <1>13 DEF D!SaveOpen
  <2>3. tmp' \in D!Files
    BY <2>1 DEF D!Files
  <2> QED
    BY <1>1, <1>2, <1>4, <2>1, <2>2, <2>3 DEF Sound
<1>14. ASSUME NEW r \in Dreamers, D!SaveWrite(r) PROVE DreamsInv'
  <2>1. UNCHANGED <<surface, memory, mine, toRead, lesson, learnt>>
    BY <1>14 DEF D!SaveWrite, D!learnKept
  <2>2. stage' \in [Dreamers -> D!Stages]
    BY <1>7, <1>8, <1>14 DEF D!SaveWrite
  <2>3. PICK w \in D!Written(r) :
          IF tmp # NoFile THEN tmp' = w /\ UNCHANGED marks ELSE marks' = w /\ UNCHANGED tmp
    BY <1>14 DEF D!SaveWrite
  <2>4. w \in D!Files /\ Sound(w)
    BY <1>1, <1>2 DEF D!Written, D!Files, Sound
  <2>5. marks' \in D!Files /\ tmp' \in D!Files /\ Sound(marks)' /\ Sound(tmp)'
    BY <1>1, <1>2, <2>1, <2>3, <2>4 DEF Sound
  <2> QED
    BY <1>1, <1>2, <1>4, <2>1, <2>2, <2>5
<1>15. ASSUME NEW r \in Dreamers, D!SaveReplace(r) PROVE DreamsInv'
  <2>1. /\ UNCHANGED <<surface, memory, mine, toRead, lesson, learnt>>
        /\ IF tmp # NoFile THEN marks' = tmp /\ tmp' = NoFile ELSE UNCHANGED <<marks, tmp>>
    BY <1>15 DEF D!SaveReplace, D!learnKept
  <2>2. stage' \in [Dreamers -> D!Stages]
    BY <1>7, <1>8, <1>15 DEF D!SaveReplace
  <2>3. marks' \in D!Files /\ tmp' \in D!Files /\ Sound(marks)' /\ Sound(tmp)'
    BY <1>1, <1>2, <2>1 DEF Sound, D!Files
  <2> QED
    BY <1>1, <1>2, <1>4, <2>1, <2>2, <2>3
<1>16. ASSUME NEW l \in Lessons, D!LearnStore(l) \/ D!LearnWrite(l) PROVE DreamsInv'
  <2>1. /\ UNCHANGED <<surface, marks, tmp, stage, mine, toRead>>
        /\ memory' \in {memory, memory \cup {l}} /\ learnt' \in {learnt, learnt \cup {l}}
    BY <1>16 DEF D!LearnStore, D!LearnWrite
  <2>2. lesson' \in [Lessons -> {"new", "file", "done"}]
    BY <1>1, <1>16 DEF D!LearnStore, D!LearnWrite
  <2> QED
    BY <1>1, <1>2, <1>4, <2>1, <2>2 DEF Sound
<1> QED
  BY <1>5, <1>9, <1>10, <1>11, <1>12, <1>13, <1>14, <1>15, <1>16 DEF D!DreamsNext

\* A step that leaves these variables alone keeps it.
LEMMA DreamsStutter == DreamsInv /\ UNCHANGED dreamVars => DreamsInv'
BY DEF dreamVars, DreamsInv, D!DreamsTypeOK, Sound

\* It holds in every behaviour.
LEMMA DreamsAlways == Spec => []DreamsInv
<1>1. Init => DreamsInv
  BY DreamsStart DEF Init
<1>2. DreamsInv /\ [Next]_vars => DreamsInv'
  BY DreamsStep, DreamsStutter DEF Next, vars
<1> QED
  BY <1>1, <1>2, PTL DEF Spec, vars

\* What it says of the marks.
LEMMA MarkedIsSound == DreamsInv => D!MarkedIsRemembered
BY DEF DreamsInv, Sound, D!MarkedIsRemembered

-----------------------------------------------------------------------------
(* Consolidation: the facts of a chunk, and what deduplication makes of     *)
(* facts.                                                                   *)

\* Facts kept once are facts.
LEMMA OnceIs ==
  ASSUME NEW V, NEW fs \in Seq(V)
  PROVE  F!Once(fs) \in Seq(V)
<1> DEFINE n == Len(fs)
           Vals == Seq(V)
           none == <<>>
           Step(i, a) == IF fs[i].text \in Storable /\ \A k \in DOMAIN a : a[k].text # fs[i].text
                           THEN Append(a, fs[i]) ELSE a
           Is(g) == g = [i \in 0 .. n |-> IF i = 0 THEN none ELSE Step(i, g[i - 1])]
           step == [i \in 1 .. n |-> [a \in Vals |-> Step(i, a)]]
           acc == CHOOSE g : Is(g)
<1>1. n \in Nat /\ none \in Vals
  OBVIOUS
<1>2. \A i \in 1 .. n : \A a \in Vals : Step(i, a) \in Vals
  OBVIOUS
<1>3. F!Once(fs) = acc[n]
  BY Zenon DEF F!Once
<1> HIDE DEF n, Vals, none, Step
<1>4. PICK g \in [0 .. n -> Vals] : g[0] = none /\ \A i \in 1 .. n : g[i] = step[i][g[i - 1]]
  <2>1. step \in [1 .. n -> [Vals -> Vals]]
    BY <1>2
  <2> HIDE DEF step
  <2>2. Recursed(Vals, none, n, step)
    BY <1>1, <2>1, Recursion
  <2> QED
    BY <2>2 DEF Recursed
<1>5. ASSUME NEW i \in 1 .. n PROVE g[i] = Step(i, g[i - 1])
  <2>1. i - 1 \in 0 .. n
    BY <1>1
  <2>2. g[i - 1] \in Vals
    BY <2>1
  <2>3. step[i][g[i - 1]] = Step(i, g[i - 1])
    BY <2>2
  <2> QED
    BY <1>4, <2>3
<1>6. Is(g)
  BY <1>1, <1>4, <1>5
<1>7. Is(acc)
  <2> HIDE DEF Is
  <2> QED
    BY <1>6, Zenon
<1> HIDE DEF acc
<1>8. acc[0] = none /\ \A i \in 1 .. n : acc[i] = Step(i, acc[i - 1])
  BY <1>1, <1>7
<1>9. \A k \in 0 .. n : acc[k] \in Vals
  <2>1. \A i \in 1 .. n : acc[i - 1] \in Vals => acc[i] \in Vals
    BY <1>2, <1>8
  <2> DEFINE T == {k \in 0 .. n : acc[k] \in Vals}
  <2>2. 0 \in T /\ \A i \in 1 .. n : i - 1 \in T => i \in T
    BY <1>1, <1>8, <2>1
  <2> HIDE DEF T
  <2>3. \A k \in 0 .. n : k \in T
    BY <1>1, <2>2, Upward
  <2> QED
    BY <2>3 DEF T
<1> QED
  BY <1>1, <1>3, <1>9 DEF Vals

\* The least of some numbers is one of them.
LEMMA LeastIs == ASSUME NEW N \in SUBSET Nat, N # {} PROVE F!Min(N) \in N
<1>1. \E i \in N : \A j \in N : i \leq j
  BY LeastNumber
<1> QED
  BY <1>1 DEF F!Min

\* A fact has a confidence.
LEMMA FactIs == ASSUME NEW f \in F!Fact PROVE f.confidence \in 1 .. 3 /\ f.confidence \in Nat
BY DEF F!Fact, F!ByAgent

\* A fact carries what it says, and nearness has no direction.
LEMMA NearIs ==
  /\ \A f, k : k.text = f.text => F!Carries(k, f)
  /\ \A f, k : F!Near(f.text, k.text) => F!Carries(k, f)
  /\ \A x, y : F!Near(x, y) => F!Near(y, x)
BY DEF F!Near, F!Carries

\* What one step of the deduplication does: it adds what is like nothing, or
\* keeps the surer of the two.
LEMMA WeighedIs ==
  ASSUME NEW a \in Seq(F!Fact), NEW f \in F!Fact
  PROVE  \/ /\ F!Weighed(a, f) = Append(a, f)
            /\ \A k \in DOMAIN a : ~ F!Near(f.text, a[k].text)
         \/ \E i \in DOMAIN a :
              /\ F!Near(f.text, a[i].text)
              /\ \/ f.confidence \leq a[i].confidence /\ F!Weighed(a, f) = a
                 \/ /\ f.confidence > a[i].confidence
                    /\ F!Weighed(a, f) = [a EXCEPT ![i] = [f EXCEPT !.source = a[i].source]]
<1> DEFINE m == F!Min(F!Like(a, f))
<1>1. CASE F!Like(a, f) = {}
  BY <1>1 DEF F!Weighed, F!Like
<1>2. CASE F!Like(a, f) # {}
  <2>1. F!Like(a, f) \in SUBSET Nat
    BY DEF F!Like
  <2>2. m \in F!Like(a, f)
    BY <1>2, <2>1, LeastIs
  <2>3. m \in DOMAIN a /\ F!Near(f.text, a[m].text)
    BY <2>2, Zenon DEF F!Like
  <2>4. F!Weighed(a, f) = IF f.confidence > a[m].confidence
                            THEN [a EXCEPT ![m] = [f EXCEPT !.source = a[m].source]] ELSE a
    BY <1>2, Zenon DEF F!Weighed
  <2> HIDE DEF m
  <2>5. f.confidence \in Nat /\ a[m].confidence \in Nat
    <3>1. a[m] \in F!Fact
      BY <2>3
    <3> QED
      BY <3>1, FactIs
  <2>6. f.confidence \leq a[m].confidence \/ f.confidence > a[m].confidence
    BY <2>5
  <2>7. f.confidence \leq a[m].confidence => F!Weighed(a, f) = a
    BY <2>4, <2>5
  <2>8. f.confidence > a[m].confidence => F!Weighed(a, f) = [a EXCEPT ![m] = [f EXCEPT !.source = a[m].source]]
    BY <2>4
  <2> QED
    BY <2>3, <2>6, <2>7, <2>8, Zenon
<1> QED
  BY <1>1, <1>2

\* What of fs is heard in a, and how a's facts stand to each other.
Heard(f, a) == \E k \in DOMAIN a : a[k].confidence = 3 /\ F!Carries(a[k], f)
Met(f, a)   == \E k \in DOMAIN a : F!Carries(a[k], f)
Apart(a)    == \A i, k \in DOMAIN a : F!Near(a[i].text, a[k].text) => i = k
AsSure(a, v) == \A k \in DOMAIN a : a[k].confidence = v

\* What has been heard stays heard as a fact is weighed, and apart.
LEMMA WeighedKeeps ==
  ASSUME NEW a \in Seq(F!Fact), NEW f \in F!Fact
  PROVE  /\ F!Weighed(a, f) \in Seq(F!Fact)
         /\ f.confidence = 3 => Heard(f, F!Weighed(a, f))
         /\ \A g : Heard(g, a) => Heard(g, F!Weighed(a, f))
         /\ AsSure(a, f.confidence) =>
              /\ AsSure(F!Weighed(a, f), f.confidence)
              /\ Apart(a) => Apart(F!Weighed(a, f))
              /\ Met(f, F!Weighed(a, f))
              /\ \A g : Met(g, a) => Met(g, F!Weighed(a, f))
<1> DEFINE w == F!Weighed(a, f)
<1>1. CASE w = Append(a, f) /\ \A k \in DOMAIN a : ~ F!Near(f.text, a[k].text)
  <2>1. /\ w \in Seq(F!Fact) /\ DOMAIN w = 1 .. Len(a) + 1 /\ DOMAIN a = 1 .. Len(a)
        /\ w[Len(a) + 1] = f /\ \A k \in DOMAIN a : w[k] = a[k]
    BY <1>1
  <2> HIDE DEF w
  <2>2. Len(a) + 1 \in DOMAIN w /\ DOMAIN a \subseteq DOMAIN w
        /\ \A k \in DOMAIN w : k \in DOMAIN a \/ k = Len(a) + 1
    BY <2>1
  <2>3. Met(f, w) /\ (f.confidence = 3 => Heard(f, w))
    BY <2>1, <2>2, NearIs DEF Met, Heard
  <2>4. \A g : (Heard(g, a) => Heard(g, w)) /\ (Met(g, a) => Met(g, w))
    BY <2>1, <2>2 DEF Met, Heard
  <2>5. AsSure(a, f.confidence) => AsSure(w, f.confidence)
    BY <2>1, <2>2 DEF AsSure
  <2>6. Apart(a) => Apart(w)
    BY <1>1, <2>1, <2>2, NearIs DEF Apart
  <2> QED
    BY <2>1, <2>3, <2>4, <2>5, <2>6 DEF w
<1>2. ASSUME NEW i \in DOMAIN a, F!Near(f.text, a[i].text), f.confidence \leq a[i].confidence, w = a
      PROVE  /\ w \in Seq(F!Fact) /\ Met(f, w) /\ (f.confidence = 3 => Heard(f, w))
  <2>1. a[i].confidence \in 1 .. 3 /\ f.confidence \in 1 .. 3
    <3>1. a[i] \in F!Fact
      OBVIOUS
    <3> QED
      BY <3>1, FactIs
  <2>2. f.confidence = 3 => a[i].confidence = 3
    BY <1>2, <2>1
  <2> QED
    BY <1>2, <2>2, NearIs DEF Met, Heard
<1>3. ASSUME NEW i \in DOMAIN a, F!Near(f.text, a[i].text), f.confidence > a[i].confidence,
             w = [a EXCEPT ![i] = [f EXCEPT !.source = a[i].source]]
      PROVE  /\ w \in Seq(F!Fact) /\ (f.confidence = 3 => Heard(f, w))
             /\ \A g : Heard(g, a) => Heard(g, w)
             /\ ~ AsSure(a, f.confidence)
  <2> DEFINE new == [f EXCEPT !.source = a[i].source]
  <2>1. a[i] \in F!Fact /\ a[i].confidence \in 1 .. 3 /\ f.confidence \in 1 .. 3
    <3>1. a[i] \in F!Fact
      OBVIOUS
    <3> QED
      BY <3>1, FactIs
  <2>2. new \in F!Fact /\ new.text = f.text /\ new.confidence = f.confidence
    BY <2>1 DEF F!Fact
  <2>3. w = [a EXCEPT ![i] = new]
    BY <1>3
  <2> HIDE DEF new, w
  <2>4. w \in Seq(F!Fact) /\ DOMAIN w = DOMAIN a /\ w[i] = new /\ \A k \in DOMAIN a \ {i} : w[k] = a[k]
    BY <2>2, <2>3
  <2>5. f.confidence = 3 => Heard(f, w)
    BY <2>2, <2>4, NearIs DEF Heard
  <2>6. a[i].confidence # 3 /\ a[i].confidence # f.confidence
    BY <1>3, <2>1
  <2>7. \A g : Heard(g, a) => Heard(g, w)
    BY <2>4, <2>6 DEF Heard
  <2> QED
    BY <2>4, <2>5, <2>6, <2>7 DEF AsSure
<1>4. \/ w = Append(a, f) /\ \A k \in DOMAIN a : ~ F!Near(f.text, a[k].text)
      \/ \E i \in DOMAIN a :
              /\ F!Near(f.text, a[i].text)
              /\ \/ f.confidence \leq a[i].confidence /\ w = a
                 \/ /\ f.confidence > a[i].confidence
                    /\ w = [a EXCEPT ![i] = [f EXCEPT !.source = a[i].source]]
  BY WeighedIs
<1>5. CASE \E i \in DOMAIN a : F!Near(f.text, a[i].text) /\ f.confidence \leq a[i].confidence /\ w = a
  <2>1. w = a /\ w \in Seq(F!Fact) /\ Met(f, w) /\ (f.confidence = 3 => Heard(f, w))
    BY <1>2, <1>5
  <2> HIDE DEF w
  <2> QED
    BY <2>1 DEF w
<1>6. CASE \E i \in DOMAIN a : /\ F!Near(f.text, a[i].text) /\ f.confidence > a[i].confidence
                               /\ w = [a EXCEPT ![i] = [f EXCEPT !.source = a[i].source]]
  <2>1. /\ w \in Seq(F!Fact) /\ (f.confidence = 3 => Heard(f, w))
        /\ \A g : Heard(g, a) => Heard(g, w)
        /\ ~ AsSure(a, f.confidence)
    BY <1>3, <1>6
  <2> QED
    BY <2>1
<1> QED
  BY <1>1, <1>4, <1>5, <1>6

\* deduplicate_facts() weighs one fact after another.
LEMMA DedupedBy ==
  ASSUME NEW fs \in Seq(F!Fact)
  PROVE  \E acc : /\ acc[0] = <<>> /\ F!deduplicate_facts(fs) = acc[Len(fs)]
                  /\ \A i \in 1 .. Len(fs) : acc[i] = F!Weighed(acc[i - 1], fs[i])
<1> DEFINE n == Len(fs)
           Vals == Seq(F!Fact)
           none == <<>>
           Step(i, a) == F!Weighed(a, fs[i])
           Is(g) == g = [i \in 0 .. n |-> IF i = 0 THEN none ELSE Step(i, g[i - 1])]
           step == [i \in 1 .. n |-> [a \in Vals |-> Step(i, a)]]
           acc == CHOOSE g : Is(g)
<1>1. n \in Nat /\ none \in Vals
  OBVIOUS
<1>2. ASSUME NEW i \in 1 .. n, NEW a \in Vals PROVE Step(i, a) \in Vals
  <2>1. fs[i] \in F!Fact
    OBVIOUS
  <2> QED
    BY <2>1, WeighedKeeps
<1>3. F!deduplicate_facts(fs) = acc[n]
  BY Zenon DEF F!deduplicate_facts
<1> SUFFICES acc[0] = none /\ \A i \in 1 .. n : acc[i] = Step(i, acc[i - 1])
  BY <1>3
<1> HIDE DEF n, Vals, none, Step
<1>4. PICK g \in [0 .. n -> Vals] : g[0] = none /\ \A i \in 1 .. n : g[i] = step[i][g[i - 1]]
  <2>1. step \in [1 .. n -> [Vals -> Vals]]
    BY <1>2
  <2> HIDE DEF step
  <2>2. Recursed(Vals, none, n, step)
    BY <1>1, <2>1, Recursion
  <2> QED
    BY <2>2 DEF Recursed
<1>5. ASSUME NEW i \in 1 .. n PROVE g[i] = Step(i, g[i - 1])
  <2>1. i - 1 \in 0 .. n
    BY <1>1
  <2>2. g[i - 1] \in Vals
    BY <2>1
  <2>3. step[i][g[i - 1]] = Step(i, g[i - 1])
    BY <2>2
  <2> QED
    BY <1>4, <2>3
<1>6. Is(g)
  BY <1>1, <1>4, <1>5
<1>7. Is(acc)
  <2> HIDE DEF Is
  <2> QED
    BY <1>6, Zenon
<1> HIDE DEF acc
<1> QED
  BY <1>1, <1>7

\* What deduplicate_facts() keeps of what it is given.
LEMMA DedupedIs ==
  ASSUME NEW fs \in Seq(F!Fact)
  PROVE  /\ F!deduplicate_facts(fs) \in Seq(F!Fact)
         /\ \A i \in DOMAIN fs : fs[i].confidence = 3 => Heard(fs[i], F!deduplicate_facts(fs))
         /\ (\A i, j \in DOMAIN fs : fs[i].confidence = fs[j].confidence) =>
              /\ Apart(F!deduplicate_facts(fs))
              /\ \A i \in DOMAIN fs : Met(fs[i], F!deduplicate_facts(fs))
<1> DEFINE n == Len(fs)
           Even == \A i, j \in DOMAIN fs : fs[i].confidence = fs[j].confidence
           v == fs[1].confidence
           Good(k, a) == /\ a \in Seq(F!Fact)
                         /\ \A i \in 1 .. k : fs[i].confidence = 3 => Heard(fs[i], a)
                         /\ Even => /\ AsSure(a, v) /\ Apart(a)
                                    /\ \A i \in 1 .. k : Met(fs[i], a)
<1>1. n \in Nat /\ DOMAIN fs = 1 .. n /\ \A i \in 1 .. n : fs[i] \in F!Fact
  OBVIOUS
<1>2. PICK acc : /\ acc[0] = <<>> /\ F!deduplicate_facts(fs) = acc[n]
                 /\ \A i \in 1 .. n : acc[i] = F!Weighed(acc[i - 1], fs[i])
  BY DedupedBy
<1> DEFINE T == {k \in 0 .. n : Good(k, acc[k])}
<1>3. 0 \in T
  <2>1. Good(0, <<>>)
    BY DEF AsSure, Apart
  <2> HIDE DEF Good
  <2> QED
    BY <1>1, <1>2, <2>1
<1>4. ASSUME NEW i \in 1 .. n, i - 1 \in T PROVE i \in T
  <2> DEFINE a == acc[i - 1]
             w == F!Weighed(a, fs[i])
  <2>1. Good(i - 1, a)
    BY <1>4
  <2>2. /\ w \in Seq(F!Fact)
        /\ fs[i].confidence = 3 => Heard(fs[i], w)
        /\ \A g : Heard(g, a) => Heard(g, w)
        /\ AsSure(a, fs[i].confidence) =>
             /\ AsSure(w, fs[i].confidence) /\ (Apart(a) => Apart(w)) /\ Met(fs[i], w)
             /\ \A g : Met(g, a) => Met(g, w)
    <3>1. a \in Seq(F!Fact) /\ fs[i] \in F!Fact
      BY <1>1, <2>1
    <3> HIDE DEF a
    <3> QED
      BY <3>1, WeighedKeeps
  <2>3. acc[i] = w
    BY <1>2
  <2> HIDE DEF a, w
  <2>4. \A j \in 1 .. i : j \in 1 .. i - 1 \/ j = i
    BY <1>1
  <2>5. \A j \in 1 .. i : fs[j].confidence = 3 => Heard(fs[j], w)
    BY <2>1, <2>2, <2>4
  <2>6. ASSUME Even PROVE AsSure(w, v) /\ Apart(w) /\ \A j \in 1 .. i : Met(fs[j], w)
    <3>1. fs[i].confidence = v
      <4>1. 1 \in DOMAIN fs /\ i \in DOMAIN fs
        BY <1>1
      <4> QED
        BY <2>6, <4>1
    <3>2. AsSure(a, v) /\ Apart(a) /\ \A j \in 1 .. i - 1 : Met(fs[j], a)
      BY <2>1, <2>6
    <3> HIDE DEF v
    <3> QED
      BY <2>2, <2>4, <3>1, <3>2
  <2>7. Good(i, w)
    BY <2>2, <2>5, <2>6
  <2> HIDE DEF Good
  <2> QED
    BY <2>3, <2>7
<1>5. Good(n, acc[n])
  <2> HIDE DEF T
  <2>1. \A k \in 0 .. n : k \in T
    BY <1>1, <1>3, <1>4, Upward
  <2>2. n \in T
    BY <1>1, <2>1
  <2> QED
    BY <2>2 DEF T
<1> QED
  BY <1>1, <1>2, <1>5

\* Some elements of a sequence are a sequence of them.
LEMMA AmongIs ==
  ASSUME NEW V, NEW s \in Seq(V), NEW chosen
  PROVE  F!Among(s, chosen) \in Seq(V)
<1> DEFINE n == Len(s)
           Vals == Seq(V)
           none == <<>>
           Step(i, a) == IF s[i] \in chosen THEN Append(a, s[i]) ELSE a
           Is(g) == g = [i \in 0 .. n |-> IF i = 0 THEN none ELSE Step(i, g[i - 1])]
           step == [i \in 1 .. n |-> [a \in Vals |-> Step(i, a)]]
           acc == CHOOSE g : Is(g)
<1>1. n \in Nat /\ none \in Vals
  OBVIOUS
<1>2. \A i \in 1 .. n : \A a \in Vals : Step(i, a) \in Vals
  OBVIOUS
<1>3. F!Among(s, chosen) = acc[n]
  BY Zenon DEF F!Among
<1> SUFFICES acc[n] \in Vals
  BY <1>3
<1> HIDE DEF n, Vals, none, Step
<1>4. PICK g \in [0 .. n -> Vals] : g[0] = none /\ \A i \in 1 .. n : g[i] = step[i][g[i - 1]]
  <2>1. step \in [1 .. n -> [Vals -> Vals]]
    BY <1>2
  <2> HIDE DEF step
  <2>2. Recursed(Vals, none, n, step)
    BY <1>1, <2>1, Recursion
  <2> QED
    BY <2>2 DEF Recursed
<1>5. ASSUME NEW i \in 1 .. n PROVE g[i] = Step(i, g[i - 1])
  <2>1. i - 1 \in 0 .. n
    BY <1>1
  <2>2. g[i - 1] \in Vals
    BY <2>1
  <2>3. step[i][g[i - 1]] = Step(i, g[i - 1])
    BY <2>2
  <2> QED
    BY <1>4, <2>3
<1>6. Is(g)
  BY <1>1, <1>4, <1>5
<1>7. Is(acc)
  <2> HIDE DEF Is
  <2> QED
    BY <1>6, Zenon
<1> HIDE DEF acc
<1>8. acc[0] = none /\ \A i \in 1 .. n : acc[i] = Step(i, acc[i - 1])
  BY <1>1, <1>7
<1> DEFINE T == {k \in 0 .. n : acc[k] \in Vals}
<1>9. 0 \in T /\ \A i \in 1 .. n : i - 1 \in T => i \in T
  BY <1>1, <1>2, <1>8
<1> HIDE DEF T
<1>10. n \in T
  <2>1. \A k \in 0 .. n : k \in T
    BY <1>1, <1>9, Upward
  <2> QED
    BY <1>1, <2>1
<1> QED
  BY <1>10 DEF T

\* A sequence has an element at each place.
LEMMA EachIs ==
  ASSUME NEW V, NEW s \in Seq(V)
  PROVE  DOMAIN s = 1 .. Len(s) /\ Len(s) \in Nat /\ \A i \in 1 .. Len(s) : s[i] \in V
OBVIOUS

\* What is extracted from a chunk are facts.
LEMMA ExtractedIs ==
  ASSUME NEW c \in F!Chunks, NEW said \in Seq(Sayings)
  PROVE  F!extract_facts_from_chunk(c, said) \in Seq(F!Fact)
<1> DEFINE spoken == [i \in DOMAIN said |-> [text |-> said[i], confidence |-> F!ByAgent, source |-> c]]
           guessed == [i \in DOMAIN Matched[c] |->
                        [text |-> Matched[c][i].text, confidence |-> Matched[c][i].confidence,
                         source |-> c]]
<1>1. spoken \in Seq(F!Fact)
  <2> DEFINE fact(i) == [text |-> said[i], confidence |-> F!ByAgent, source |-> c]
  <2>1. DOMAIN said = 1 .. Len(said) /\ Len(said) \in Nat /\ \A i \in 1 .. Len(said) : said[i] \in Sayings
    OBVIOUS
  <2>2. \A i \in 1 .. Len(said) : fact(i) \in F!Fact
    BY <2>1 DEF F!Fact, F!ByAgent
  <2>3. spoken = [i \in 1 .. Len(said) |-> fact(i)]
    BY <2>1
  <2> HIDE DEF fact, spoken
  <2> QED
    BY <2>1, <2>2, <2>3
<1>2. guessed \in Seq(F!Fact)
  <2> DEFINE fact(i) == [text |-> Matched[c][i].text, confidence |-> Matched[c][i].confidence, source |-> c]
             n == Len(Matched[c])
  <2>1. Matched[c] \in Seq([text : Sayings, confidence : 1 .. 2])
    BY ReflectAssumption
  <2>2. DOMAIN Matched[c] = 1 .. n /\ n \in Nat
        /\ \A i \in 1 .. n : Matched[c][i] \in [text : Sayings, confidence : 1 .. 2]
    BY <2>1, EachIs
  <2>3. ASSUME NEW i \in 1 .. n PROVE fact(i) \in F!Fact
    <3>1. Matched[c][i].text \in Sayings /\ Matched[c][i].confidence \in 1 .. 3
      <4> DEFINE m == Matched[c][i]
      <4>1. m \in [text : Sayings, confidence : 1 .. 2]
        BY <2>2
      <4> HIDE DEF m
      <4>2. m.text \in Sayings /\ m.confidence \in 1 .. 3
        BY <4>1
      <4> QED
        BY <4>2 DEF m
    <3> QED
      BY <3>1 DEF F!Fact, F!ByAgent
  <2>4. guessed = [i \in 1 .. n |-> fact(i)]
    BY <2>2
  <2> HIDE DEF fact, guessed, n
  <2> QED
    BY <2>2, <2>3, <2>4
<1>3. F!extract_facts_from_chunk(c, said) = IF F!Once(spoken) # <<>> THEN F!Once(spoken) ELSE F!Once(guessed)
  BY Zenon DEF F!extract_facts_from_chunk
<1> HIDE DEF spoken, guessed
<1>4. F!Once(spoken) \in Seq(F!Fact) /\ F!Once(guessed) \in Seq(F!Fact)
  BY <1>1, <1>2, OnceIs
<1> QED
  BY <1>3, <1>4

Scripts == Jobs \cup Others

\* Where a job is in its sequences, and that what it has kept is what the
\* deduplication made of its facts.
OnItsWay(j) ==
  /\ where[j] \in {"new", "scan", "dedupe"} => next[j] = 1 /\ promoted[j] = 0
  /\ where[j] = "extract" => next[j] \in 1 .. Len(scan[j]) /\ promoted[j] = 0
  /\ where[j] = "promote" => /\ next[j] \in 1 .. Len(keptFacts[j]) /\ next[j] \leq Cap
                             /\ promoted[j] < next[j]
  /\ where[j] \in {"promote", "mark", "unload"} /\ scan[j] # <<>> =>
       keptFacts[j] = F!deduplicate_facts(facts[j])

\* Whoever has loaded the writer is still to unload it.
InUse == writer /\ ~ orphaned => \E s \in Scripts : where[s] \notin {"new", "over"}

ReflectInv ==
  /\ F!ReflectTypeOK
  /\ \A j \in Jobs : OnItsWay(j)
  /\ InUse

\* The invariant holds in the first states.
LEMMA ReflectStart == F!ReflectInit => ReflectInv
<1> SUFFICES ASSUME F!ReflectInit PROVE ReflectInv
  OBVIOUS
<1>1. where \in [Scripts -> F!Places] /\ \A s \in Scripts : where[s] = "new"
  BY DEF F!ReflectInit, F!Places, Scripts
<1>2. /\ episodic \subseteq F!Chunks /\ recent \subseteq F!Chunks
      /\ semantic \subseteq [text : Sayings, source : F!Chunks]
      /\ writer \in BOOLEAN /\ orphaned \in BOOLEAN /\ InUse
  BY DEF F!ReflectInit, InUse
<1>3. /\ scan \in [Jobs -> Seq(F!Chunks)] /\ facts \in [Jobs -> Seq(F!Fact)]
      /\ keptFacts \in [Jobs -> Seq(F!Fact)]
  BY DEF F!ReflectInit
<1>4. /\ marker \in 0 .. Cap /\ mishap \in 0 .. MaxTrouble
      /\ next \in [Jobs -> Nat] /\ promoted \in [Jobs -> 0 .. Cap]
      /\ \A j \in Jobs : next[j] = 1 /\ promoted[j] = 0
  BY ReflectAssumption DEF F!ReflectInit
<1>5. \A j \in Jobs : OnItsWay(j)
  BY <1>1, <1>4 DEF OnItsWay, Scripts
<1> QED
  BY <1>1, <1>2, <1>3, <1>4, <1>5 DEF ReflectInv, F!ReflectTypeOK, Scripts

\* A script that goes on leaves the others where they are.
LEMMA GoneTo ==
  ASSUME where \in [Scripts -> F!Places], NEW j \in Scripts, NEW place \in F!Places, F!Goto(j, place)
  PROVE  /\ where' \in [Scripts -> F!Places] /\ where'[j] = place
         /\ \A i \in Scripts \ {j} : where'[i] = where[i]
BY DEF F!Goto

\* The places a script goes to.
LEMMA PlacesAre ==
  /\ "scan" \in F!Places /\ "extract" \in F!Places /\ "dedupe" \in F!Places /\ "promote" \in F!Places
  /\ "mark" \in F!Places /\ "unload" \in F!Places /\ "over" \in F!Places /\ "using" \in F!Places
BY DEF F!Places

\* Every step keeps it.
LEMMA ReflectStep == ReflectInv /\ F!ReflectNext => ReflectInv'
<1> SUFFICES ASSUME ReflectInv, F!ReflectNext PROVE ReflectInv'
  OBVIOUS
<1>1. /\ episodic \subseteq F!Chunks /\ recent \subseteq F!Chunks
      /\ semantic \subseteq [text : Sayings, source : F!Chunks]
      /\ writer \in BOOLEAN /\ orphaned \in BOOLEAN
      /\ where \in [Scripts -> F!Places]
      /\ scan \in [Jobs -> Seq(F!Chunks)]
      /\ facts \in [Jobs -> Seq(F!Fact)] /\ keptFacts \in [Jobs -> Seq(F!Fact)]
  BY DEF ReflectInv, F!ReflectTypeOK, Scripts
<1>2. /\ marker \in 0 .. Cap /\ next \in [Jobs -> Nat] /\ promoted \in [Jobs -> 0 .. Cap]
      /\ mishap \in 0 .. MaxTrouble /\ Cap \in Nat \ {0} /\ MaxTrouble \in Nat
  BY ReflectAssumption DEF ReflectInv, F!ReflectTypeOK
<1>3. Jobs \subseteq Scripts /\ Others \subseteq Scripts
  BY DEF Scripts
<1>4. mishap' \in 0 .. MaxTrouble
  <2>1. UNCHANGED mishap \/ F!Trouble
    BY Zenon DEF F!ReflectNext, F!Turn, F!Load, F!Scan, F!Extract, F!Dedupe, F!Promote, F!Mark, F!Unload, F!Unloaded,
           F!Killed, F!Borrow, F!Return, F!Meanwhile
  <2> QED
    BY <1>2, <2>1 DEF F!Trouble
<1>5. \A i \in Jobs : OnItsWay(i)
  BY DEF ReflectInv
<1>6. ASSUME where' \in [Scripts -> F!Places], scan' \in [Jobs -> Seq(F!Chunks)],
             facts' \in [Jobs -> Seq(F!Fact)], keptFacts' \in [Jobs -> Seq(F!Fact)],
             next' \in [Jobs -> Nat], promoted' \in [Jobs -> 0 .. Cap],
             writer' \in BOOLEAN, orphaned' \in BOOLEAN,
             episodic' \subseteq F!Chunks, recent' \subseteq F!Chunks,
             semantic' \subseteq [text : Sayings, source : F!Chunks], marker' \in 0 .. Cap,
             \A i \in Jobs : OnItsWay(i)', InUse'
      PROVE  ReflectInv'
  BY <1>4, <1>6, Zenon DEF ReflectInv, F!ReflectTypeOK, Scripts
\* A script that does nothing stays where it is.
<1>7. ASSUME NEW i \in Jobs, where'[i] = where[i], scan'[i] = scan[i], facts'[i] = facts[i],
             keptFacts'[i] = keptFacts[i], next'[i] = next[i], promoted'[i] = promoted[i]
      PROVE  OnItsWay(i)'
  BY <1>5, <1>7, Zenon DEF OnItsWay
<1>8. ASSUME NEW j \in Scripts, where'[j] \notin {"new", "over"} PROVE InUse'
  BY <1>8 DEF InUse
<1>9. ASSUME writer' = FALSE \/ orphaned' = TRUE PROVE InUse'
  BY <1>9 DEF InUse
<1>10. ASSUME NEW j \in Scripts, where[j] = "new", UNCHANGED <<writer, orphaned>>,
              \A i \in Scripts \ {j} : where'[i] = where[i]
       PROVE  InUse'
  BY <1>10 DEF InUse, ReflectInv
\* The steps of a script that leave its sequences and counters alone.
<1>11. ASSUME NEW j \in Scripts, where' \in [Scripts -> F!Places], \A i \in Scripts \ {j} : where'[i] = where[i],
              UNCHANGED <<scan, facts, keptFacts, next, promoted>>,
              UNCHANGED <<episodic, recent, semantic>>, marker' \in 0 .. Cap,
              writer' \in BOOLEAN, orphaned' \in BOOLEAN, InUse',
              j \in Jobs => OnItsWay(j)'
       PROVE  ReflectInv'
  <2>1. \A i \in Jobs : OnItsWay(i)'
    BY <1>3, <1>7, <1>11
  <2> QED
    BY <1>1, <1>2, <1>6, <1>11, <2>1
<1>12. ASSUME NEW j \in Jobs, F!Load(j) PROVE ReflectInv'
  <2>1. UNCHANGED <<scan, facts, keptFacts, next, promoted, episodic, recent, semantic, marker, orphaned>>
        /\ where[j] = "new"
    BY <1>12 DEF F!Load, F!bankVars
  <2>2. CASE writer' = TRUE /\ F!Goto(j, "scan")
    <3>1. where' \in [Scripts -> F!Places] /\ where'[j] = "scan" /\ \A i \in Scripts \ {j} : where'[i] = where[i]
      BY <1>1, <1>3, <2>2, GoneTo, PlacesAre
    <3>2. OnItsWay(j)'
      BY <1>5, <2>1, <3>1 DEF OnItsWay
    <3>3. InUse'
      BY <1>3, <1>8, <3>1
    <3> QED
      BY <1>1, <1>2, <1>3, <1>11, <2>1, <2>2, <3>1, <3>2, <3>3
  <2>3. CASE UNCHANGED writer /\ F!Goto(j, "over")
    <3>1. where' \in [Scripts -> F!Places] /\ where'[j] = "over" /\ \A i \in Scripts \ {j} : where'[i] = where[i]
      BY <1>1, <1>3, <2>3, GoneTo, PlacesAre
    <3>2. OnItsWay(j)'
      BY <3>1 DEF OnItsWay
    <3>3. InUse'
      BY <1>3, <1>10, <2>1, <2>3, <3>1
    <3> QED
      BY <1>1, <1>2, <1>3, <1>11, <2>1, <2>3, <3>1, <3>2, <3>3
  <2> QED
    BY <1>12, <2>2, <2>3, Zenon DEF F!Load
<1>13. ASSUME NEW j \in Jobs, F!Scan(j) PROVE ReflectInv'
  <2>1. UNCHANGED <<facts, keptFacts, next, promoted, episodic, recent, semantic, marker, writer>>
        /\ where[j] = "scan"
    BY <1>13 DEF F!Scan, F!bankVars
  <2>2. CASE UNCHANGED scan /\ F!Goto(j, "over") /\ orphaned' = TRUE
    <3>1. where' \in [Scripts -> F!Places] /\ where'[j] = "over" /\ \A i \in Scripts \ {j} : where'[i] = where[i]
      BY <1>1, <1>3, <2>2, GoneTo, PlacesAre
    <3>2. OnItsWay(j)'
      BY <3>1 DEF OnItsWay
    <3>3. InUse'
      BY <1>9, <2>2
    <3> QED
      BY <1>1, <1>2, <1>3, <1>11, <2>1, <2>2, <3>1, <3>2, <3>3
  <2>3. ASSUME NEW first \in Seq(F!Chunks), scan' = [scan EXCEPT ![j] = first],
               F!Goto(j, IF first = <<>> THEN "unload" ELSE "extract"), UNCHANGED orphaned
        PROVE  ReflectInv'
    <3> DEFINE place == IF first = <<>> THEN "unload" ELSE "extract"
    <3>1. place \in F!Places /\ place \in {"unload", "extract"}
      BY PlacesAre
    <3>2. F!Goto(j, place)
      BY <2>3
    <3>3. place = "extract" => first # <<>>
      OBVIOUS
    <3>4. place = "unload" => first = <<>>
      OBVIOUS
    <3> HIDE DEF place
    <3>5. where' \in [Scripts -> F!Places] /\ where'[j] = place /\ \A i \in Scripts \ {j} : where'[i] = where[i]
      BY <1>1, <1>3, <3>1, <3>2, GoneTo
    <3>6. scan' \in [Jobs -> Seq(F!Chunks)] /\ scan'[j] = first /\ \A i \in Jobs \ {j} : scan'[i] = scan[i]
      BY <1>1, <2>3
    <3>7. next[j] = 1 /\ promoted[j] = 0
      BY <1>5, <2>1 DEF OnItsWay
    <3>8. first # <<>> => 1 \in 1 .. Len(first)
      BY <2>3
    <3>9. OnItsWay(j)'
      BY <2>1, <3>1, <3>3, <3>4, <3>5, <3>6, <3>7, <3>8 DEF OnItsWay
    <3>10. \A i \in Jobs : OnItsWay(i)'
      BY <1>3, <1>7, <2>1, <3>5, <3>6, <3>9
    <3>11. InUse'
      BY <1>3, <1>8, <3>1, <3>5
    <3> QED
      BY <1>1, <1>2, <1>6, <2>1, <2>3, <3>5, <3>6, <3>10, <3>11
  <2> DEFINE all == F!Among(Episodes, episodic \cap recent)
             first == SubSeq(all, 1, IF Len(all) < MaxChunks THEN Len(all) ELSE MaxChunks)
  <2>4. first \in Seq(F!Chunks)
    <3>1. all \in Seq(F!Chunks) /\ MaxChunks \in Nat
      BY AmongIs, ReflectAssumption
    <3> HIDE DEF all
    <3> QED
      BY <3>1
  <2>5. \/ UNCHANGED scan /\ F!Goto(j, "over") /\ orphaned' = TRUE
        \/ /\ scan' = [scan EXCEPT ![j] = first] /\ UNCHANGED orphaned
           /\ F!Goto(j, IF first = <<>> THEN "unload" ELSE "extract")
    BY <1>13, Zenon DEF F!Scan
  <2> HIDE DEF first
  <2> QED
    BY <2>2, <2>3, <2>4, <2>5
<1>14. ASSUME NEW j \in Jobs, F!Extract(j) PROVE ReflectInv'
  <2> DEFINE c == scan[j][next[j]]
  <2>1. UNCHANGED <<scan, keptFacts, promoted, episodic, recent, semantic, marker, writer, orphaned>>
        /\ where[j] = "extract"
    BY <1>14 DEF F!Extract, F!bankVars
  <2>2. next[j] \in 1 .. Len(scan[j]) /\ promoted[j] = 0 /\ c \in F!Chunks
    BY <1>1, <1>5, <2>1 DEF OnItsWay
  <2>3. PICK said \in {<<>>} \cup IF writer THEN {Told[c]} ELSE {} :
          facts' = [facts EXCEPT ![j] = @ \o F!extract_facts_from_chunk(c, said)]
    BY <1>14, Zenon DEF F!Extract
  <2>4. said \in Seq(Sayings)
    <3>1. said = <<>> \/ said = Told[c]
      BY <2>3
    <3>2. Told[c] \in Seq(Sayings)
      BY <2>2, ReflectAssumption
    <3>3. <<>> \in Seq(Sayings)
      OBVIOUS
    <3> QED
      BY <3>1, <3>2, <3>3, Zenon
  <2>5. facts' \in [Jobs -> Seq(F!Fact)] /\ \A i \in Jobs \ {j} : facts'[i] = facts[i]
    <3> DEFINE new == F!extract_facts_from_chunk(c, said)
    <3>1. new \in Seq(F!Fact)
      BY <2>2, <2>4, ExtractedIs
    <3>2. facts' = [facts EXCEPT ![j] = @ \o new]
      BY <2>3
    <3> HIDE DEF new
    <3> QED
      BY <1>1, <3>1, <3>2
  <2>6. \/ F!Goto(j, "dedupe") /\ next' = [next EXCEPT ![j] = 1]
        \/ next[j] # Len(scan[j]) /\ next' = [next EXCEPT ![j] = @ + 1] /\ UNCHANGED where
    BY <1>14, Zenon DEF F!Extract
  <2>7. next' \in [Jobs -> Nat] /\ \A i \in Jobs \ {j} : next'[i] = next[i]
    BY <1>2, <2>6
  <2>8. /\ where' \in [Scripts -> F!Places] /\ \A i \in Scripts \ {j} : where'[i] = where[i]
        /\ \/ where'[j] = "dedupe" /\ next'[j] = 1
           \/ where'[j] = "extract" /\ next'[j] \in 1 .. Len(scan[j])
    <3>1. CASE F!Goto(j, "dedupe") /\ next' = [next EXCEPT ![j] = 1]
      <4>1. next'[j] = 1
        BY <1>2, <3>1
      <4> QED
        BY <1>1, <1>3, <3>1, <4>1, GoneTo, PlacesAre
    <3>2. CASE next[j] # Len(scan[j]) /\ next' = [next EXCEPT ![j] = @ + 1] /\ UNCHANGED where
      <4>1. next'[j] = next[j] + 1 /\ Len(scan[j]) \in Nat
        BY <1>1, <1>2, <3>2
      <4>2. next'[j] \in 1 .. Len(scan[j])
        BY <2>2, <3>2, <4>1
      <4> QED
        BY <1>1, <2>1, <3>2, <4>2
    <3> QED
      BY <2>6, <3>1, <3>2
  <2>9. OnItsWay(j)'
    BY <2>1, <2>2, <2>8 DEF OnItsWay
  <2>10. \A i \in Jobs : OnItsWay(i)'
    BY <1>3, <1>7, <2>1, <2>5, <2>7, <2>8, <2>9
  <2>11. InUse'
    BY <1>3, <1>8, <2>8
  <2> QED
    BY <1>1, <1>2, <1>6, <2>1, <2>5, <2>7, <2>8, <2>10, <2>11
<1>15. ASSUME NEW j \in Jobs, F!Dedupe(j) PROVE ReflectInv'
  <2>1. UNCHANGED <<scan, facts, next, promoted, episodic, recent, semantic, marker, writer, orphaned>>
        /\ where[j] = "dedupe"
        /\ keptFacts' = [keptFacts EXCEPT ![j] = F!deduplicate_facts(facts[j])]
    BY <1>15, Zenon DEF F!Dedupe, F!bankVars
  <2>2. F!deduplicate_facts(facts[j]) \in Seq(F!Fact)
    BY <1>1, DedupedIs
  <2>3. /\ keptFacts' \in [Jobs -> Seq(F!Fact)] /\ keptFacts'[j] = F!deduplicate_facts(facts[j])
        /\ \A i \in Jobs \ {j} : keptFacts'[i] = keptFacts[i]
    BY <1>1, <2>1, <2>2
  <2> DEFINE place == IF keptFacts'[j] = <<>> THEN "mark" ELSE "promote"
  <2>4. F!Goto(j, place)
    BY <1>15, Zenon DEF F!Dedupe
  <2>5. place \in F!Places /\ place \in {"mark", "promote"} /\ (place = "promote" => keptFacts'[j] # <<>>)
    BY PlacesAre
  <2> HIDE DEF place
  <2>6. where' \in [Scripts -> F!Places] /\ where'[j] = place /\ \A i \in Scripts \ {j} : where'[i] = where[i]
    BY <1>1, <1>3, <2>4, <2>5, GoneTo
  <2>7. next[j] = 1 /\ promoted[j] = 0
    BY <1>5, <2>1 DEF OnItsWay
  <2>8. keptFacts'[j] # <<>> => 1 \in 1 .. Len(keptFacts'[j])
    BY <2>3, <2>2
  <2>9. OnItsWay(j)'
    BY <1>2, <2>1, <2>3, <2>5, <2>6, <2>7, <2>8 DEF OnItsWay
  <2>10. \A i \in Jobs : OnItsWay(i)'
    BY <1>3, <1>7, <2>1, <2>3, <2>6, <2>9
  <2>11. InUse'
    BY <1>3, <1>8, <2>5, <2>6
  <2> QED
    BY <1>1, <1>2, <1>6, <2>1, <2>3, <2>6, <2>10, <2>11
<1>16. ASSUME NEW j \in Jobs, F!Promote(j) PROVE ReflectInv'
  <2> DEFINE f == keptFacts[j][next[j]]
  <2>1. UNCHANGED <<scan, facts, keptFacts, episodic, recent, marker, writer, orphaned>>
        /\ where[j] = "promote"
    BY <1>16 DEF F!Promote
  <2>2. /\ next[j] \in 1 .. Len(keptFacts[j]) /\ next[j] \leq Cap /\ promoted[j] < next[j]
        /\ scan[j] # <<>> => keptFacts[j] = F!deduplicate_facts(facts[j])
    BY <1>5, <2>1 DEF OnItsWay
  <2>3. f \in F!Fact
    BY <1>1, <2>2
  <2>4. \/ /\ semantic' = semantic \cup {[text |-> f.text, source |-> f.source]}
           /\ promoted' = [promoted EXCEPT ![j] = @ + 1]
        \/ UNCHANGED <<semantic, promoted>>
    BY <1>16, Zenon DEF F!Promote
  <2>5. semantic' \subseteq [text : Sayings, source : F!Chunks]
    <3>1. [text |-> f.text, source |-> f.source] \in [text : Sayings, source : F!Chunks]
      BY <2>3 DEF F!Fact
    <3> HIDE DEF f
    <3> QED
      BY <1>1, <2>4, <3>1
  <2>6. /\ promoted' \in [Jobs -> 0 .. Cap] /\ promoted'[j] \leq next[j]
        /\ \A i \in Jobs \ {j} : promoted'[i] = promoted[i]
    BY <1>2, <2>2, <2>4
  <2>7. \/ F!Goto(j, "mark") /\ UNCHANGED next
        \/ /\ next[j] # Len(keptFacts[j]) /\ next[j] # Cap
           /\ next' = [next EXCEPT ![j] = @ + 1] /\ UNCHANGED where
    BY <1>16, Zenon DEF F!Promote
  <2>8. next' \in [Jobs -> Nat] /\ \A i \in Jobs \ {j} : next'[i] = next[i]
    BY <1>2, <2>7
  <2>9. /\ where' \in [Scripts -> F!Places] /\ \A i \in Scripts \ {j} : where'[i] = where[i]
        /\ \/ where'[j] = "mark"
           \/ /\ where'[j] = "promote"
              /\ next'[j] \in 1 .. Len(keptFacts[j]) /\ next'[j] \leq Cap /\ promoted'[j] < next'[j]
    <3>1. CASE F!Goto(j, "mark")
      BY <1>1, <1>3, <3>1, GoneTo, PlacesAre
    <3>2. CASE /\ next[j] # Len(keptFacts[j]) /\ next[j] # Cap
               /\ next' = [next EXCEPT ![j] = @ + 1] /\ UNCHANGED where
      <4>1. next'[j] = next[j] + 1 /\ Len(keptFacts[j]) \in Nat /\ promoted'[j] \in Nat
        BY <1>1, <1>2, <2>6, <3>2
      <4>2. next'[j] \in 1 .. Len(keptFacts[j]) /\ next'[j] \leq Cap /\ promoted'[j] < next'[j]
        BY <1>2, <2>2, <2>6, <3>2, <4>1
      <4> QED
        BY <1>1, <2>1, <3>2, <4>2
    <3> QED
      BY <2>7, <3>1, <3>2
  <2>10. OnItsWay(j)'
    BY <2>1, <2>2, <2>9 DEF OnItsWay
  <2>11. \A i \in Jobs : OnItsWay(i)'
    BY <1>3, <1>7, <2>1, <2>6, <2>8, <2>9, <2>10
  <2>12. InUse'
    BY <1>3, <1>8, <2>9
  <2> QED
    BY <1>1, <1>2, <1>6, <2>1, <2>5, <2>6, <2>8, <2>9, <2>11, <2>12
<1>17. ASSUME NEW j \in Jobs, F!Mark(j) PROVE ReflectInv'
  <2>1. UNCHANGED <<scan, facts, keptFacts, next, promoted, episodic, recent, semantic, writer, orphaned>>
        /\ where[j] = "mark" /\ F!Goto(j, "unload") /\ marker' \in {marker, promoted[j]}
    BY <1>17 DEF F!Mark
  <2>2. where' \in [Scripts -> F!Places] /\ where'[j] = "unload" /\ \A i \in Scripts \ {j} : where'[i] = where[i]
    BY <1>1, <1>3, <2>1, GoneTo, PlacesAre
  <2>3. OnItsWay(j)'
    BY <1>5, <2>1, <2>2 DEF OnItsWay
  <2>4. InUse'
    BY <1>3, <1>8, <2>2
  <2>5. marker' \in 0 .. Cap
    BY <1>2, <2>1
  <2> QED
    BY <1>1, <1>3, <1>11, <2>1, <2>2, <2>3, <2>4, <2>5
<1>18. ASSUME NEW j \in Scripts, F!Goto(j, "over"), writer' = FALSE \/ orphaned' = TRUE,
              writer' \in BOOLEAN, orphaned' \in BOOLEAN,
              UNCHANGED <<scan, facts, keptFacts, next, promoted, episodic, recent, semantic, marker>>
       PROVE  ReflectInv'
  <2>1. where' \in [Scripts -> F!Places] /\ where'[j] = "over" /\ \A i \in Scripts \ {j} : where'[i] = where[i]
    BY <1>1, <1>18, GoneTo, PlacesAre
  <2>2. OnItsWay(j)'
    BY <2>1 DEF OnItsWay
  <2> QED
    BY <1>2, <1>9, <1>11, <1>18, <2>1, <2>2
<1>19. ASSUME NEW j \in Scripts, F!Unload(j) \/ F!Return(j) \/ F!Killed(j) PROVE ReflectInv'
  <2>1. /\ F!Goto(j, "over")
        /\ UNCHANGED <<scan, facts, keptFacts, next, promoted, episodic, recent, semantic, marker>>
        /\ \/ writer' = FALSE /\ UNCHANGED orphaned
           \/ orphaned' = TRUE /\ UNCHANGED writer
    BY <1>19, Zenon DEF F!Unload, F!Return, F!Killed, F!Unloaded, F!bankVars
  <2> QED
    BY <1>1, <1>18, <2>1
<1>20. ASSUME NEW j \in Others, F!Borrow(j) PROVE ReflectInv'
  <2>1. /\ F!Goto(j, "using") /\ writer' \in {TRUE, writer}
        /\ UNCHANGED <<scan, facts, keptFacts, next, promoted, episodic, recent, semantic, marker, orphaned>>
    BY <1>20 DEF F!Borrow, F!bankVars
  <2>2. where' \in [Scripts -> F!Places] /\ where'[j] = "using" /\ \A i \in Scripts \ {j} : where'[i] = where[i]
    BY <1>1, <1>3, <2>1, GoneTo, PlacesAre
  <2>3. OnItsWay(j)'
    BY <2>2 DEF OnItsWay
  <2>4. InUse'
    BY <1>3, <1>8, <2>2
  <2> QED
    BY <1>1, <1>2, <1>3, <1>11, <2>1, <2>2, <2>3, <2>4
<1>21. CASE F!Meanwhile
  <2>1. /\ UNCHANGED <<where, scan, facts, keptFacts, next, promoted, semantic, marker, writer, orphaned>>
        /\ episodic' \subseteq episodic /\ recent' \subseteq recent
    BY <1>21 DEF F!Meanwhile, F!Passes, F!Forgotten, F!jobVars
  <2>2. \A i \in Jobs : OnItsWay(i)'
    BY <1>7, <2>1
  <2>3. InUse'
    BY <2>1 DEF InUse, ReflectInv
  <2> QED
    BY <1>1, <1>2, <1>6, <2>1, <2>2, <2>3
<1> QED
  BY <1>3, <1>12, <1>13, <1>14, <1>15, <1>16, <1>17, <1>19, <1>20, <1>21, Zenon DEF F!ReflectNext, F!Turn

\* A step that leaves these variables alone keeps it.
LEMMA ReflectStutter == ReflectInv /\ UNCHANGED reflectVars => ReflectInv'
BY DEF reflectVars, ReflectInv, F!ReflectTypeOK, OnItsWay, InUse

\* It holds in every behaviour.
LEMMA ReflectAlways == Spec => []ReflectInv
<1>1. Init => ReflectInv
  BY ReflectStart DEF Init
<1>2. ReflectInv /\ [Next]_vars => ReflectInv'
  BY ReflectStep, ReflectStutter DEF Next, vars
<1> QED
  BY <1>1, <1>2, PTL DEF Spec, vars

\* What the invariant says of facts and writer.
LEMMA WriterIsKept == ReflectInv => F!WriterIsHeard /\ F!KeptApart /\ F!WriterIsOut
<1> SUFFICES ASSUME ReflectInv PROVE F!WriterIsHeard /\ F!KeptApart /\ F!WriterIsOut
  OBVIOUS
<1>1. \A j \in Jobs : /\ facts[j] \in Seq(F!Fact)
                      /\ F!Deduped(j) => keptFacts[j] = F!deduplicate_facts(facts[j])
  BY DEF ReflectInv, F!ReflectTypeOK, OnItsWay, F!Deduped
<1>2. F!WriterIsHeard
  <2> SUFFICES ASSUME NEW j \in Jobs, F!Deduped(j), NEW i \in DOMAIN facts[j], facts[j][i].confidence = 3
               PROVE  Heard(facts[j][i], keptFacts[j])
    BY DEF F!WriterIsHeard, F!ByAgent, Heard
  <2>1. facts[j] \in Seq(F!Fact) /\ keptFacts[j] = F!deduplicate_facts(facts[j])
    BY <1>1
  <2> QED
    BY <2>1, DedupedIs
<1>3. F!KeptApart
  <2> SUFFICES ASSUME NEW j \in Jobs, F!Deduped(j),
                      \A x, y \in F!ToSet(facts[j]) : x.confidence = y.confidence
               PROVE  /\ Apart(keptFacts[j])
                      /\ \A f \in F!ToSet(facts[j]) : \E k \in F!ToSet(keptFacts[j]) : F!Carries(k, f)
    BY Zenon DEF F!KeptApart, Apart
  <2>1. facts[j] \in Seq(F!Fact) /\ keptFacts[j] = F!deduplicate_facts(facts[j])
    BY <1>1
  <2>2. \A x, y \in DOMAIN facts[j] : facts[j][x].confidence = facts[j][y].confidence
    BY Zenon DEF F!ToSet
  <2>3. Apart(keptFacts[j]) /\ \A i \in DOMAIN facts[j] : Met(facts[j][i], keptFacts[j])
    BY <2>1, <2>2, DedupedIs
  <2> QED
    BY <2>3, Zenon DEF Met, F!ToSet
<1>4. F!WriterIsOut
  BY DEF ReflectInv, F!ReflectTypeOK, InUse, F!WriterIsOut, Scripts
<1> QED
  BY <1>2, <1>3, <1>4

-----------------------------------------------------------------------------
\* What passes over files, logs, dreams and memories report, skip, mark and
\* promote is right, wherever they are interrupted: an ingest has stored what it
\* says (ingest.py:98), a log that is skipped was distilled
\* (session_ingest.py:172), an entry with a mark is in memory (dreaming.py:186),
\* a nightly pass keeps what the writer said, apart from what is like it
\* (consolidate.py:301), and leaves no writer loaded (nightly_hy_pass.py:92),
\* and a file's chunks are no longer than asked for, have all its words once and
\* in their order, and are each of one section (chunk.py:129).
THEOREM PassesHoldAlways == Spec => []PassesHold
<1>1. IngestInv /\ SessionsInv /\ DreamsInv /\ ReflectInv /\ ChunkerInv => PassesHold
  <2>1. IngestInv => I!ReportIsTrue
    BY DEF IngestInv, I!ReportIsTrue
  <2> QED
    BY <2>1, SkippedIsCovered, MarkedIsSound, WriterIsKept, ChunksAreKept, Zenon DEF PassesHold
<1> QED
  BY <1>1, IngestAlways, SessionsAlways, DreamsAlways, ReflectAlways, ChunkerAlways, PTL

-----------------------------------------------------------------------------
(* Recall.                                                                  *)

\* Whatever superseded when a call began is superseded still, or gone: what a
\* call holds of it is marked until words() sorts it out, and nothing after.
Fresh(c) ==
  R!Tool(c) # "related" =>
    /\ at[c] = "words" => \A h \in found[c] : h.slot \in since[c] => h.superseded
    /\ at[c] # "words" => \A h \in found[c] : h.slot \notin since[c]
    /\ \A h \in kept[c] : h.slot \notin since[c]

RecallInv ==
  /\ R!RecallTypeOK
  /\ \A c \in Calls : \A s \in since[c] : rows[s] # Gone => rows[s].superseded
  /\ \A c \in Calls : at[c] = "new" => found[c] = {} /\ kept[c] = {}
  /\ \A c \in Calls : at[c] \in {"bumped", "delete"} => cur[c] # Gone
  /\ \A c \in Calls : Fresh(c)

\* The invariant holds in the first states.
LEMMA RecallStart == R!RecallInit => RecallInv
<1> SUFFICES ASSUME R!RecallInit PROVE RecallInv
  OBVIOUS
<1>1. /\ rows \in [R!Slots -> R!Rows \cup {Gone}]
      /\ jobs \in [Calls -> [tool : R!Tools, k : Nat, tier : Tiers \cup {"all"}, id : Ids]]
  BY RecallAssumption DEF R!RecallInit, R!Slots
<1>2. R!RecallTypeOK
  BY <1>1 DEF R!RecallInit, R!RecallTypeOK, R!Places
<1> QED
  BY <1>2 DEF R!RecallInit, RecallInv, Fresh

\* What a step does to the rows: none comes back, and none loses its mark.
LEMMA RowsStep ==
  ASSUME RecallInv, R!RecallNext
  PROVE  /\ rows' \in [R!Slots -> R!Rows \cup {Gone}]
         /\ \A s \in R!Slots :
              /\ rows[s] = Gone => rows'[s] = Gone
              /\ rows[s] # Gone /\ rows[s].superseded /\ rows'[s] # Gone => rows'[s].superseded
<1> DEFINE Goal == /\ rows' \in [R!Slots -> R!Rows \cup {Gone}]
                   /\ \A s \in R!Slots :
                        /\ rows[s] = Gone => rows'[s] = Gone
                        /\ rows[s] # Gone /\ rows[s].superseded /\ rows'[s] # Gone
                             => rows'[s].superseded
<1>1. /\ rows \in [R!Slots -> R!Rows \cup {Gone}]
      /\ cur \in [Calls -> [slot : R!Slots, row : R!Rows] \cup {Gone}]
      /\ Gone \notin R!Rows
  BY RecallAssumption DEF RecallInv, R!RecallTypeOK, R!Rows
<1>2. CASE UNCHANGED rows
  BY <1>1, <1>2
<1>3. ASSUME NEW x \in R!Slots, NEW new \in R!Rows, rows' = [rows EXCEPT ![x] = R!Updated(x, new)]
      PROVE Goal
  BY <1>1, <1>3 DEF R!Updated, R!Rows
<1>4. ASSUME NEW x \in R!Slots, rows' = [rows EXCEPT ![x] = Gone] PROVE Goal
  BY <1>1, <1>4
<1>5. ASSUME NEW c \in Calls, R!BumpWrite(c) PROVE Goal
  <2>1. cur[c] \in [slot : R!Slots, row : R!Rows]
    BY <1>1, <1>5 DEF R!BumpWrite, RecallInv
  <2>2. R!Bumped(c) \in R!Rows
    BY <2>1 DEF R!Bumped, R!Rows
  <2> QED
    BY <2>1, <2>2, <1>3, <1>5 DEF R!BumpWrite
<1>6. ASSUME NEW c \in Calls, R!MarkWrite(c) PROVE Goal
  <2>1. cur[c] \in [slot : R!Slots, row : R!Rows]
    BY <1>1, <1>6 DEF R!MarkWrite
  <2>2. [cur[c].row EXCEPT !.superseded = TRUE] \in R!Rows
    BY <2>1 DEF R!Rows
  <2> QED
    BY <2>1, <2>2, <1>3, <1>6 DEF R!MarkWrite
<1>7. ASSUME NEW c \in Calls, R!ForgetDelete(c) PROVE Goal
  <2>1. cur[c] \in [slot : R!Slots, row : R!Rows]
    BY <1>1, <1>7 DEF R!ForgetDelete, RecallInv
  <2> QED
    BY <2>1, <1>4, <1>7 DEF R!ForgetDelete
<1>8. ASSUME NEW c \in Calls, R!DecayApply(c) PROVE Goal
  BY <1>1, <1>8 DEF R!DecayApply
<1>9. ASSUME NEW x \in R!Slots, R!Fades(x) PROVE Goal
  <2>1. rows[x] \in R!Rows
    BY <1>1, <1>9 DEF R!Fades, R!Present
  <2> QED
    BY <1>1, <1>9, <2>1 DEF R!Fades, R!Rows
<1>10. CASE \E c \in Calls : \/ R!Begin(c) \/ R!Search(c) \/ R!Words(c) \/ R!BumpRead(c) \/ R!Give(c)
                             \/ R!Review(c) \/ R!SearchVerbatim(c) \/ R!WakeUp(c) \/ R!ForgetThem(c)
                             \/ R!Inflate(c) \/ R!Nudge(c) \/ R!Walk(c) \/ R!Walked(c)
                             \/ R!ForgetCheck(c) \/ R!MarkRead(c)
  BY <1>10, <1>2 DEF R!Begin, R!Search, R!Words, R!BumpRead, R!Give, R!Review, R!SearchVerbatim, R!WakeUp,
     R!Gather, R!ForgetThem, R!Inflate, R!Nudge, R!Walk, R!Walked, R!ForgetCheck, R!MarkRead, R!Answer
<1> QED
  BY <1>5, <1>6, <1>7, <1>8, <1>9, <1>10 DEF R!RecallNext

\* Reading a row gives a hit of it.
LEMMA HitIs ==
  ASSUME RecallInv, NEW s \in R!Present
  PROVE  /\ R!Hit(s) \in R!Hits /\ R!Hit(s).slot = s
         /\ R!Hit(s).superseded = rows[s].superseded
         /\ \A c \in Calls : s \in since[c] => rows[s].superseded
<1>1. s \in R!Slots /\ rows[s] \in R!Rows
  BY DEF RecallInv, R!RecallTypeOK, R!Present
<1> QED
  BY <1>1 DEF R!Hit, R!Hits, R!Rows, RecallInv, R!Present

Kept(c) ==
  \A d \in Calls \ {c} : /\ at'[d] = at[d] /\ found'[d] = found[d] /\ kept'[d] = kept[d]
                         /\ since'[d] = since[d] /\ cur'[d] = cur[d]

\* A step of one call that changes no row: what is to be shown of it.
LEMMA CallStep ==
  ASSUME RecallInv, NEW c \in Calls, UNCHANGED <<rows, jobs>>,
         round' \in [Calls -> Nat], at' \in [Calls -> R!Places],
         found' \in [Calls -> SUBSET R!Hits], left' \in [Calls -> SUBSET R!Hits],
         kept' \in [Calls -> SUBSET R!Hits], since' \in [Calls -> SUBSET R!Slots],
         cur' \in [Calls -> [slot : R!Slots, row : R!Rows] \cup {Gone}],
         Kept(c), at'[c] # "new",
         \A s \in since'[c] : rows[s] # Gone => rows[s].superseded,
         at'[c] \in {"bumped", "delete"} => cur'[c] # Gone,
         Fresh(c)'
  PROVE  RecallInv'
<1>1. R!RecallTypeOK'
  BY DEF RecallInv, R!RecallTypeOK
<1>2. ASSUME NEW d \in Calls \ {c} PROVE Fresh(d)'
  BY DEF Fresh, R!Tool, RecallInv, Kept
<1> QED
  BY <1>1, <1>2 DEF RecallInv, Kept

\* A step that changes rows and nothing of what the calls hold.
LEMMA RowStep ==
  ASSUME RecallInv, R!RecallNext,
         UNCHANGED <<jobs, round, found, left, kept, since>>,
         UNCHANGED <<at, cur>> \/
           \E c \in Calls : /\ at[c] # "words" \/ found[c] = {}
                            /\ \E p \in {"bump", "done", "forget"} : R!Goto(c, p)
                            /\ cur' = [cur EXCEPT ![c] = Gone] \/ UNCHANGED cur
  PROVE  RecallInv'
<1>1. /\ cur \in [Calls -> [slot : R!Slots, row : R!Rows] \cup {Gone}]
      /\ since \in [Calls -> SUBSET R!Slots]
      /\ at \in [Calls -> R!Places]
  BY DEF RecallInv, R!RecallTypeOK
<1>2. \A c \in Calls : \A s \in since'[c] : rows'[s] # Gone => rows'[s].superseded
  BY RowsStep, <1>1 DEF RecallInv
<1>3. rows' \in [R!Slots -> R!Rows \cup {Gone}]
  BY RowsStep
<1>4. /\ cur' \in [Calls -> [slot : R!Slots, row : R!Rows] \cup {Gone}]
      /\ at' \in [Calls -> R!Places]
      /\ \A c \in Calls : \/ at'[c] = at[c] /\ (cur'[c] = cur[c])
                          \/ /\ at'[c] \in {"bump", "done", "forget"}
                             /\ at[c] # "words" \/ found[c] = {}
  BY <1>1 DEF R!Goto, R!Places
<1>5. R!RecallTypeOK'
  BY <1>3, <1>4 DEF RecallInv, R!RecallTypeOK
<1>6. \A c \in Calls : Fresh(c)'
  BY <1>4 DEF RecallInv, Fresh, R!Tool
<1> QED
  BY <1>2, <1>4, <1>5, <1>6 DEF RecallInv

\* Every step keeps it.
LEMMA RecallStep == RecallInv /\ R!RecallNext => RecallInv'
<1> SUFFICES ASSUME RecallInv, R!RecallNext PROVE RecallInv'
  OBVIOUS
<1>1. /\ jobs \in [Calls -> [tool : R!Tools, k : Nat, tier : Tiers \cup {"all"}, id : Ids]]
      /\ round \in [Calls -> Nat]
      /\ found \in [Calls -> SUBSET R!Hits] /\ left \in [Calls -> SUBSET R!Hits]
      /\ kept \in [Calls -> SUBSET R!Hits]
      /\ cur \in [Calls -> [slot : R!Slots, row : R!Rows] \cup {Gone}]
      /\ since \in [Calls -> SUBSET R!Slots]
      /\ rows \in [R!Slots -> R!Rows \cup {Gone}]
      /\ at \in [Calls -> R!Places]
  BY DEF RecallInv, R!RecallTypeOK
<1>a. ASSUME NEW c \in Calls
      PROVE  /\ found[c] \subseteq R!Hits /\ left[c] \subseteq R!Hits /\ kept[c] \subseteq R!Hits
             /\ cur[c] \in [slot : R!Slots, row : R!Rows] \cup {Gone} /\ since[c] \subseteq R!Slots
             /\ \A s \in since[c] : rows[s] # Gone => rows[s].superseded
             /\ Fresh(c)
  BY <1>1 DEF RecallInv
<1>b. ASSUME NEW c \in Calls, NEW p \in R!Places, R!Goto(c, p)
      PROVE  at' \in [Calls -> R!Places] /\ at'[c] = p /\ \A d \in Calls \ {c} : at'[d] = at[d]
  BY <1>1, <1>b DEF R!Goto, R!Places
<1>2. ASSUME NEW c \in Calls, R!Begin(c) PROVE RecallInv'
  <2>1. PICK p \in {"search", "forget", "mark", "walk"} : R!Goto(c, p)
    <3>1. R!Tool(c) \in R!Tools \ {"decay_apply"}
      BY <1>1, <1>2 DEF R!Begin, R!Tool, R!Tools
    <3> QED
      BY <3>1, <1>2 DEF R!Begin, R!Recalling, R!Tools
  <2>2. R!Marked \in SUBSET R!Slots /\ \A s \in R!Marked : rows[s].superseded
    BY DEF R!Marked, R!Present
  <2>3. found[c] = {} /\ kept[c] = {}
    BY <1>2 DEF R!Begin, RecallInv
  <2>4. UNCHANGED <<rows, jobs, round, found, left, cur, kept>> /\ since' = [since EXCEPT ![c] = R!Marked]
    BY <1>2 DEF R!Begin
  <2>5. /\ since' \in [Calls -> SUBSET R!Slots] /\ since'[c] = R!Marked
        /\ \A d \in Calls \ {c} : since'[d] = since[d]
    BY <1>1, <2>2, <2>4
  <2>6. at' \in [Calls -> R!Places] /\ at'[c] = p /\ \A d \in Calls \ {c} : at'[d] = at[d]
    BY <1>b, <2>1 DEF R!Places
  <2>7. Fresh(c)' /\ Kept(c)
    BY <2>3, <2>4, <2>5, <2>6 DEF Fresh, Kept
  <2> QED
    BY <1>1, <2>2, <2>4, <2>5, <2>6, <2>7, CallStep
<1>3. ASSUME NEW c \in Calls, R!Search(c) PROVE RecallInv'
  <2>0. at[c] = "search" /\ UNCHANGED <<rows, jobs, round, left, cur, kept, since>>
    BY <1>3 DEF R!Search
  <2>1. ASSUME NEW p \in {"cut", "choose", "failed"}, R!Goto(c, p), UNCHANGED found PROVE RecallInv'
    BY <1>1, <1>a, <1>b, <2>0, <2>1, CallStep DEF Kept, Fresh, R!Tool, R!Places
  <2>2. CASE /\ \E broken \in SUBSET Faulty : \E t \in R!Nearest(R!Searched(c) \ broken, 3 * R!Fetch(c)) :
                  \E m \in R!Some(t, 3 * R!Fetch(c)) : found' = [found EXCEPT ![c] = {R!Hit(s) : s \in m}]
             /\ R!Goto(c, "words")
    <3>1. PICK m \in SUBSET R!Present : found' = [found EXCEPT ![c] = {R!Hit(s) : s \in m}]
      BY <2>2 DEF R!Nearest, R!Some
    <3> DEFINE f == {R!Hit(s) : s \in m}
    <3>2. f \in SUBSET R!Hits /\ \A h \in f : h.slot \in since[c] => h.superseded
      BY HitIs
    <3>3. /\ found' \in [Calls -> SUBSET R!Hits] /\ found'[c] = f
          /\ \A d \in Calls \ {c} : found'[d] = found[d]
      BY <1>1, <3>1, <3>2
    <3>4. at' \in [Calls -> R!Places] /\ at'[c] = "words" /\ \A d \in Calls \ {c} : at'[d] = at[d]
      BY <1>b, <2>2 DEF R!Places
    <3> HIDE DEF f
    <3>5. Fresh(c)' /\ Kept(c)
      BY <1>a, <2>0, <3>2, <3>3, <3>4 DEF Fresh, Kept, R!Tool
    <3> QED
      BY <1>1, <1>a, <2>0, <3>3, <3>4, <3>5, CallStep
  <2> DEFINE end == CASE R!Tool(c) \in {"wake_up", "related"} -> "cut"
                      [] R!Tool(c) = "nudge"                  -> "choose"
                      [] OTHER                                -> "failed"
  <2>3. end \in {"cut", "choose", "failed"}
    OBVIOUS
  <2>4. \/ /\ \E broken \in SUBSET Faulty : \E t \in R!Nearest(R!Searched(c) \ broken, 3 * R!Fetch(c)) :
                    \E m \in R!Some(t, 3 * R!Fetch(c)) : found' = [found EXCEPT ![c] = {R!Hit(s) : s \in m}]
              /\ R!Goto(c, "words")
        \/ R!Goto(c, end) /\ UNCHANGED found
    BY <1>3, Zenon DEF R!Search
  <2> QED
    BY <2>1, <2>2, <2>3, <2>4
<1>4. ASSUME NEW c \in Calls, R!Words(c) PROVE RecallInv'
  <2>1. PICK t \in R!Lexical(c) : \E fused \in R!Fusions(c, t) : \E r \in R!Some(fused, R!Fetch(c)) :
          /\ left' = [left EXCEPT ![c] = R!Unmarked(c, r)]
          /\ found' = [found EXCEPT ![c] = R!Unmarked(c, r)]
    BY <1>4 DEF R!Words
  <2>2. PICK fused \in R!Fusions(c, t) : \E r \in R!Some(fused, R!Fetch(c)) :
          /\ left' = [left EXCEPT ![c] = R!Unmarked(c, r)]
          /\ found' = [found EXCEPT ![c] = R!Unmarked(c, r)]
    BY <2>1
  <2>3. PICK r \in R!Some(fused, R!Fetch(c)) : /\ left' = [left EXCEPT ![c] = R!Unmarked(c, r)]
                                               /\ found' = [found EXCEPT ![c] = R!Unmarked(c, r)]
    BY <2>2
  <2>4. r \subseteq found[c] \cup {R!Hit(s) : s \in t} /\ t \subseteq R!Present
    BY <2>1, <2>2, <2>3 DEF R!Fusions, R!Lexical, R!Some
  <2> DEFINE f == R!Unmarked(c, r)
  <2>5. r \subseteq R!Hits /\ (R!Tool(c) # "related" => \A h \in r : h.slot \in since[c] => h.superseded)
    <3>1. \A s \in t : R!Hit(s) \in R!Hits /\ (R!Hit(s).slot \in since[c] => R!Hit(s).superseded)
      BY <2>4, HitIs
    <3>2. at[c] = "words"
      BY <1>4 DEF R!Words
    <3> QED
      BY <1>a, <2>4, <3>1, <3>2 DEF Fresh
  <2>6. f \in SUBSET R!Hits /\ (R!Tool(c) # "related" => \A h \in f : h.slot \notin since[c])
    BY <2>5 DEF R!Unmarked
  <2>7. R!Goto(c, "bump") /\ UNCHANGED <<rows, jobs, round, cur, kept, since>>
    BY <1>4 DEF R!Words
  <2>8. left' = [left EXCEPT ![c] = f] /\ found' = [found EXCEPT ![c] = f]
    BY <2>3
  <2> HIDE DEF f
  <2>9. /\ left' \in [Calls -> SUBSET R!Hits] /\ found' \in [Calls -> SUBSET R!Hits]
        /\ found'[c] = f /\ \A d \in Calls \ {c} : found'[d] = found[d]
    BY <1>1, <2>6, <2>8
  <2>10. at' \in [Calls -> R!Places] /\ at'[c] = "bump" /\ \A d \in Calls \ {c} : at'[d] = at[d]
    BY <1>b, <2>7 DEF R!Places
  <2>11. Fresh(c)' /\ Kept(c)
    BY <1>a, <2>6, <2>7, <2>9, <2>10 DEF Fresh, Kept, R!Tool
  <2> QED
    BY <1>1, <1>a, <2>7, <2>9, <2>10, <2>11, CallStep
<1>5. ASSUME NEW c \in Calls, R!BumpRead(c) PROVE RecallInv'
  <2>1. at[c] = "bump" /\ UNCHANGED <<rows, jobs, round, found, kept, since>>
    BY <1>5 DEF R!BumpRead
  <2>2. CASE left[c] = {}
    BY <1>1, <1>a, <1>b, <1>5, <2>1, <2>2, CallStep DEF Kept, Fresh, R!Tool, R!Places, R!BumpRead
  <2>3. CASE left[c] # {}
    <3>1. PICK h \in left[c] :
              /\ left' = [left EXCEPT ![c] = @ \ {h}]
              /\ IF rows[h.slot] = Gone
                   THEN UNCHANGED <<cur, at>>
                   ELSE /\ cur' = [cur EXCEPT ![c] = [slot |-> h.slot, row |-> rows[h.slot]]]
                        /\ R!Goto(c, "bumped")
      BY <1>5, <2>3 DEF R!BumpRead
    <3>2. h.slot \in R!Slots /\ left[c] \ {h} \in SUBSET R!Hits
      BY <1>1 DEF R!Hits
    <3>3. CASE rows[h.slot] = Gone
      <4> QED
        BY <1>1, <1>a, <2>1, <3>1, <3>2, <3>3, CallStep DEF Kept, Fresh, R!Tool, R!Places
    <3>4. CASE rows[h.slot] # Gone
      <4>1. [slot |-> h.slot, row |-> rows[h.slot]] \in [slot : R!Slots, row : R!Rows]
        BY <1>1, <3>2, <3>4
      <4>2. [slot |-> h.slot, row |-> rows[h.slot]] # Gone
        BY <4>1, RecallAssumption DEF R!Slots, R!Rows
      <4>3. /\ cur' \in [Calls -> [slot : R!Slots, row : R!Rows] \cup {Gone}] /\ cur'[c] # Gone
            /\ \A d \in Calls \ {c} : cur'[d] = cur[d]
        BY <1>1, <3>1, <3>4, <4>1, <4>2
      <4>4. left' \in [Calls -> SUBSET R!Hits]
        BY <1>1, <3>1, <3>2
      <4>5. at' \in [Calls -> R!Places] /\ at'[c] = "bumped" /\ \A d \in Calls \ {c} : at'[d] = at[d]
        BY <1>b, <3>1, <3>4 DEF R!Places
      <4>6. Fresh(c)' /\ Kept(c)
        BY <1>a, <2>1, <4>3, <4>5 DEF Fresh, Kept, R!Tool
      <4> QED
        BY <1>1, <1>a, <2>1, <4>3, <4>4, <4>5, <4>6, CallStep
    <3> QED
      BY <3>3, <3>4
  <2> QED
    BY <2>2, <2>3
<1>6. ASSUME NEW c \in Calls, R!Give(c) \/ R!Review(c) \/ R!SearchVerbatim(c) \/ R!Inflate(c) \/ R!Nudge(c)
      PROVE  RecallInv'
  <2>1. at[c] = "choose" /\ UNCHANGED <<rows, jobs, round, found, left, cur, since>> /\ R!Goto(c, "done")
    BY <1>6 DEF R!Give, R!Review, R!SearchVerbatim, R!Inflate, R!Nudge, R!Answer
  <2>2. PICK k \in SUBSET (found[c] \cup kept[c]) : kept' = [kept EXCEPT ![c] = k]
    <3>1. CASE R!Give(c)
      BY <3>1 DEF R!Give, R!Answer
    <3>2. CASE R!Review(c)
      BY <3>2 DEF R!Review, R!Answer, R!Some
    <3>3. CASE R!SearchVerbatim(c)
      BY <3>3 DEF R!SearchVerbatim, R!Answer, R!Some
    <3>4. CASE R!Inflate(c)
      BY <3>4 DEF R!Inflate, R!Answer
    <3>5. CASE R!Nudge(c)
      BY <3>5 DEF R!Nudge, R!Answer, R!Some
    <3> QED
      BY <1>6, <3>1, <3>2, <3>3, <3>4, <3>5
  <2> QED
    BY <1>1, <1>a, <1>b, <2>1, <2>2, CallStep DEF Kept, Fresh, R!Tool, R!Places
<1>7. ASSUME NEW c \in Calls, R!WakeUp(c) PROVE RecallInv'
  <2>1. PICK r \in SUBSET found[c] : R!Gather(c, kept[c] \cup r)
    BY <1>7 DEF R!WakeUp, R!Some, R!Unmet
  <2>2. PICK p \in {"done", "search", "cut"} : R!Answer(c, kept[c] \cup r, p)
    BY <2>1 DEF R!Gather
  <2>3. round' \in [Calls -> Nat]
    BY <1>1, <2>1 DEF R!Gather
  <2>4. at[c] = "choose" /\ UNCHANGED left
    BY <1>7 DEF R!WakeUp
  <2>5. /\ kept' = [kept EXCEPT ![c] = kept[c] \cup r] /\ R!Goto(c, p)
        /\ UNCHANGED <<rows, jobs, found, cur, since>>
    BY <2>2 DEF R!Answer
  <2> QED
    BY <1>1, <1>a, <1>b, <2>3, <2>4, <2>5, CallStep DEF Kept, Fresh, R!Tool, R!Places
<1>8. ASSUME NEW c \in Calls, R!ForgetThem(c) PROVE RecallInv'
  <2>1. /\ at[c] = "choose" /\ R!Goto(c, "forget") /\ left' = [left EXCEPT ![c] = found[c]]
        /\ UNCHANGED <<rows, jobs, round, found, cur, since>>
    BY <1>8 DEF R!ForgetThem, R!Answer
  <2>2. kept' = [kept EXCEPT ![c] = found[c]]
    BY <1>8 DEF R!ForgetThem, R!Answer
  <2>3. left' \in [Calls -> SUBSET R!Hits] /\ kept' \in [Calls -> SUBSET R!Hits]
    BY <1>1, <2>1, <2>2
  <2>4. /\ at' \in [Calls -> R!Places] /\ at'[c] = "forget"
        /\ \A d \in Calls \ {c} : at'[d] = at[d] /\ kept'[d] = kept[d]
    BY <1>b, <2>1, <2>2 DEF R!Places
  <2>5. kept'[c] = found[c]
    BY <1>1, <2>2
  <2>6. Fresh(c)' /\ Kept(c)
    BY <1>a, <2>1, <2>4, <2>5 DEF Fresh, Kept, R!Tool
  <2> QED
    BY <1>1, <1>a, <2>1, <2>3, <2>4, <2>6, CallStep
<1>9. ASSUME NEW c \in Calls, R!Walk(c) PROVE RecallInv'
  <2>1. /\ at[c] = "walk" /\ UNCHANGED <<rows, jobs, at, found, left, cur, since>>
        /\ round' \in [Calls -> Nat]
    BY <1>1, <1>9 DEF R!Walk
  <2>2. PICK m \in SUBSET (R!Present \ R!Marked) :
          kept'[c] = kept[c] \cup {R!Hit(s) : s \in m} /\ \A d \in Calls \ {c} : kept'[d] = kept[d]
    <3>1. CASE UNCHANGED kept
      <4> DEFINE m == {}
      <4>1. kept'[c] = kept[c] \cup {R!Hit(s) : s \in m} /\ \A d \in Calls \ {c} : kept'[d] = kept[d]
        BY <3>1
      <4>2. m \in SUBSET (R!Present \ R!Marked)
        OBVIOUS
      <4> HIDE DEF m
      <4> QED
        BY <4>1, <4>2
    <3>2. CASE ~ UNCHANGED kept
      <4>1. PICK r, m, lim : /\ m \subseteq R!Listed(c, r)
              /\ r \in R!Some({s \in R!Present : s[1] = R!Order[round[c] + 1] /\ R!Order[round[c] + 1] \in R!Searched(c)}, lim)
              /\ kept' = [kept EXCEPT ![c] = @ \cup {R!Hit(s) : s \in m}]
        BY <1>9, <3>2 DEF R!Walk, R!Some
      <4>2. m \in SUBSET (R!Present \ R!Marked)
        BY <4>1 DEF R!Some, R!Listed
      <4> QED
        BY <1>1, <4>1, <4>2
    <3> QED
      BY <3>1, <3>2
  <2> DEFINE k == kept[c] \cup {R!Hit(s) : s \in m}
  <2>3. k \in SUBSET R!Hits /\ (R!Tool(c) # "related" => \A h \in k : h.slot \notin since[c])
    <3>1. \A s \in m : R!Hit(s) \in R!Hits /\ R!Hit(s).slot \notin since[c]
      BY HitIs DEF R!Marked
    <3> QED
      BY <1>a, <3>1 DEF Fresh
  <2> QED
    <3>1. kept' \in [Calls -> SUBSET R!Hits]
      BY <1>1, <1>9, <2>2, <2>3 DEF R!Walk
    <3> QED
      BY <1>1, <1>a, <2>1, <2>2, <2>3, <3>1, CallStep DEF Kept, Fresh, R!Tool, R!Places
<1>10. ASSUME NEW c \in Calls, R!Walked(c) PROVE RecallInv'
  <2>1. PICK p \in {"done", "choose", "search"} : R!Goto(c, p)
    BY <1>10 DEF R!Walked
  <2>2. at[c] = "walk" /\ UNCHANGED <<rows, jobs, round, found, left, cur, kept, since>>
    BY <1>10 DEF R!Walked
  <2> QED
    BY <1>1, <1>a, <1>b, <2>1, <2>2, CallStep DEF Kept, Fresh, R!Tool, R!Places
<1>11. ASSUME NEW c \in Calls, R!ForgetCheck(c) PROVE RecallInv'
  <2>1. at[c] = "forget" /\ UNCHANGED <<rows, jobs, round, found, kept, since>>
    BY <1>11 DEF R!ForgetCheck
  <2>2. CASE R!Goto(c, "done") /\ UNCHANGED <<left, cur>>
    BY <1>1, <1>a, <1>b, <2>1, <2>2, CallStep DEF Kept, Fresh, R!Tool, R!Places
  <2>3. ASSUME NEW i, left' = [left EXCEPT ![c] = {h \in @ : h.slot[2] # i}],
               UNCHANGED cur, NEW p \in {"done", "forget"}, R!Goto(c, p)
        PROVE  RecallInv'
    <3>1. {h \in left[c] : h.slot[2] # i} \in SUBSET R!Hits
      BY <1>a
    <3>2. left' \in [Calls -> SUBSET R!Hits]
      BY <1>1, <2>3, <3>1
    <3>3. at' \in [Calls -> R!Places] /\ at'[c] = p /\ \A d \in Calls \ {c} : at'[d] = at[d]
      BY <1>b, <2>3 DEF R!Places
    <3>4. Fresh(c)' /\ Kept(c)
      BY <1>a, <2>1, <2>3, <3>3 DEF Fresh, Kept, R!Tool
    <3> QED
      BY <1>1, <1>a, <2>1, <2>3, <3>2, <3>3, <3>4, CallStep
  <2>4. ASSUME NEW i, left' = [left EXCEPT ![c] = {h \in @ : h.slot[2] # i}],
               NEW s \in R!Present, cur' = [cur EXCEPT ![c] = [slot |-> s, row |-> rows[s]]],
               R!Goto(c, "delete")
        PROVE  RecallInv'
    <3>1. {h \in left[c] : h.slot[2] # i} \in SUBSET R!Hits
      BY <1>a
    <3>2. [slot |-> s, row |-> rows[s]] \in [slot : R!Slots, row : R!Rows]
      BY <1>1 DEF R!Present
    <3>3. [slot |-> s, row |-> rows[s]] # Gone
      BY <3>2, RecallAssumption DEF R!Slots, R!Rows
    <3>4. /\ cur' \in [Calls -> [slot : R!Slots, row : R!Rows] \cup {Gone}] /\ cur'[c] # Gone
          /\ \A d \in Calls \ {c} : cur'[d] = cur[d]
      BY <1>1, <2>4, <3>2, <3>3
    <3>5. left' \in [Calls -> SUBSET R!Hits]
      BY <1>1, <2>4, <3>1
    <3>6. at' \in [Calls -> R!Places] /\ at'[c] = "delete" /\ \A d \in Calls \ {c} : at'[d] = at[d]
      BY <1>b, <2>4 DEF R!Places
    <3>7. Fresh(c)' /\ Kept(c)
      BY <1>a, <2>1, <3>4, <3>6 DEF Fresh, Kept, R!Tool
    <3> QED
      BY <1>1, <1>a, <2>1, <3>4, <3>5, <3>6, <3>7, CallStep
  <2> DEFINE ids == IF R!Tool(c) = "forget" THEN {jobs[c].id} ELSE {h.slot[2] : h \in left[c]}
             tiers == IF R!Tool(c) = "forget" THEN R!Searched(c) ELSE Tiers
  <2>5. \/ R!Goto(c, "done") /\ UNCHANGED <<left, cur>>
        \/ \E i \in ids :
             /\ left' = [left EXCEPT ![c] = {h \in @ : h.slot[2] # i}]
             /\ \/ /\ UNCHANGED cur
                   /\ R!Goto(c, "done") \/ R!Goto(c, "forget")
                \/ \E s \in R!Under(i, tiers) :
                     cur' = [cur EXCEPT ![c] = [slot |-> s, row |-> rows[s]]] /\ R!Goto(c, "delete")
    <3>1. R!Goto(c, IF R!Tool(c) = "forget" THEN "done" ELSE "forget")
            => R!Goto(c, "done") \/ R!Goto(c, "forget")
      BY Zenon
    <3> QED
      BY <1>11, <3>1, Zenon DEF R!ForgetCheck
  <2>6. \A i : R!Under(i, tiers) \subseteq R!Present
    BY DEF R!Under
  <2> HIDE DEF ids, tiers
  <2> QED
    BY <2>2, <2>3, <2>4, <2>5, <2>6
<1>12. ASSUME NEW c \in Calls, R!MarkRead(c) PROVE RecallInv'
  <2>1. at[c] = "mark" /\ UNCHANGED <<rows, jobs, round, found, left, kept, since>>
    BY <1>12 DEF R!MarkRead
  <2>2. CASE R!Goto(c, "done") /\ UNCHANGED cur
    BY <1>1, <1>a, <1>b, <2>1, <2>2, CallStep DEF Kept, Fresh, R!Tool, R!Places
  <2>3. ASSUME NEW s \in R!Present, cur' = [cur EXCEPT ![c] = [slot |-> s, row |-> rows[s]]], UNCHANGED at
        PROVE  RecallInv'
    <3>1. [slot |-> s, row |-> rows[s]] \in [slot : R!Slots, row : R!Rows]
      BY <1>1 DEF R!Present
    <3> QED
      BY <1>1, <1>a, <2>1, <2>3, <3>1, CallStep DEF Kept, Fresh, R!Tool, R!Places
  <2> QED
    BY <1>12, <2>2, <2>3 DEF R!MarkRead, R!Under
<1>13. ASSUME NEW c \in Calls, R!BumpWrite(c) \/ R!ForgetDelete(c) \/ R!MarkWrite(c) \/ R!DecayApply(c) PROVE RecallInv'
  <2>1. UNCHANGED <<jobs, round, found, left, kept, since>> /\ at[c] # "words"
    BY <1>13 DEF R!BumpWrite, R!ForgetDelete, R!MarkWrite, R!DecayApply
  <2>2. /\ \E p \in {"bump", "done", "forget"} : R!Goto(c, p)
        /\ cur' = [cur EXCEPT ![c] = Gone] \/ UNCHANGED cur
    BY <1>13 DEF R!BumpWrite, R!ForgetDelete, R!MarkWrite, R!DecayApply
  <2> QED
    BY <2>1, <2>2, RowStep
<1>14. ASSUME NEW s \in R!Slots, R!Fades(s) PROVE RecallInv'
  BY <1>14, RowStep DEF R!Fades
<1> QED
  BY <1>2, <1>3, <1>4, <1>5, <1>6, <1>7, <1>8, <1>9, <1>10, <1>11, <1>12, <1>13, <1>14 DEF R!RecallNext

\* A step that leaves these variables alone keeps it.
LEMMA RecallStutter == RecallInv /\ UNCHANGED recallVars => RecallInv'
<1> SUFFICES ASSUME RecallInv, UNCHANGED recallVars PROVE RecallInv'
  OBVIOUS
<1>1. UNCHANGED <<rows, jobs, at, round, found, left, cur, kept, since>>
  BY DEF recallVars
<1>2. R!RecallTypeOK'
  BY <1>1 DEF RecallInv, R!RecallTypeOK
<1>3. \A c \in Calls : Fresh(c)'
  BY <1>1 DEF RecallInv, Fresh, R!Tool
<1> QED
  BY <1>1, <1>2, <1>3 DEF RecallInv

\* It holds in every behaviour.
LEMMA RecallAlways == Spec => []RecallInv
<1>1. Init => RecallInv
  BY RecallStart DEF Init
<1>2. RecallInv /\ [Next]_vars => RecallInv'
  BY RecallStep, RecallStutter DEF Next, vars
<1> QED
  BY <1>1, <1>2, PTL DEF Spec, vars

\* Whatever supersedes and forgets while a tool recalls, reranks, bumps, fetches
\* again and chooses: nothing it answers with was superseded when it began
\* (memory.py:682).
THEOREM RecallHoldsAlways == Spec => []RecallHolds
<1>1. RecallInv => RecallHolds
  BY DEF RecallInv, Fresh, RecallHolds, R!NothingStale
<1> QED
  BY <1>1, RecallAlways, PTL

\* No recall that read a row before it was superseded or forgotten brings it back
\* when it writes its count (memory.py:706).
THEOREM NotRevivedAlways == Spec => NotRevived
<1>1. RecallInv /\ [Next]_vars => [R!RecallNext]_recallVars
  BY DEF Next, vars
<1>2. RecallInv /\ [R!RecallNext]_recallVars =>
        /\ [\A s \in R!Slots : s \in R!Marked /\ rows'[s] # Gone => rows'[s].superseded]_recallVars
        /\ [\A s \in R!Slots : rows[s] = Gone => rows'[s] = Gone]_recallVars
  BY RowsStep DEF R!Marked, R!Present
<1>3. recallVars = R!recallVars
  BY DEF recallVars, R!recallVars
<1>4. RecallInv /\ [Next]_vars =>
        /\ [\A s \in R!Slots : s \in R!Marked /\ rows'[s] # Gone => rows'[s].superseded]_R!recallVars
        /\ [\A s \in R!Slots : rows[s] = Gone => rows'[s] = Gone]_R!recallVars
  BY <1>1, <1>2 DEF recallVars, R!recallVars
<1> QED
  BY <1>4, RecallAlways, PTL DEF NotRevived, R!MarksStay, R!ForgottenStays, Spec, vars

-----------------------------------------------------------------------------
(* Updates.                                                                 *)

\* Updates that will pop an entry, or were killed before they could.
Poppers == {u \in Updates : had[u] /\ doing[u] \in {"pull", "after", "pop", "pop failed", "killed"}}

\* The newest entries of the stash are the updates', no more of them than
\* updates that have yet to pop one; the others were there before.
Owed == \E k \in Nat : /\ k <= Len(heap) /\ k <= Cardinality(Poppers)
                       /\ \A i \in k + 1 .. Len(heap) : heap[i] \subseteq older

UpdateInv ==
  /\ U!UpdateTypeOK
  /\ \A u \in Updates : doing[u] = "stash" => had[u]
  /\ undone \/ Owed

\* There are finitely many updates that will pop an entry.
LEMMA PoppersAre == IsFiniteSet(Poppers) /\ Cardinality(Poppers) \in Nat
<1>1. Poppers \subseteq Updates
  BY DEF Poppers
<1> QED
  BY <1>1, UpdateAssumption, FS_Subset, FS_CardinalityType

\* The invariant holds in the first states.
LEMMA UpdateStart == U!UpdateInit => UpdateInv
<1> SUFFICES ASSUME U!UpdateInit PROVE UpdateInv
  OBVIOUS
<1>1. U!UpdateTypeOK
  <2>1. heap \in Seq(SUBSET Edits)
    <3>1. ASSUME NEW e \in Edits PROVE <<{e}>> \in Seq(SUBSET Edits)
      <4>1. {e} \in SUBSET Edits
        OBVIOUS
      <4> HIDE DEF U!UpdateInit
      <4> QED
        BY <4>1
    <3>2. heap = <<>> \/ \E e \in Edits : heap = <<{e}>>
      BY DEF U!UpdateInit
    <3>3. <<>> \in Seq(SUBSET Edits)
      OBVIOUS
    <3> QED
      BY <3>1, <3>2, <3>3
  <2>2. older \subseteq Edits
    BY <2>1 DEF U!UpdateInit, U!InStash
  <2>3. doing \in [Updates -> U!Places]
    BY DEF U!UpdateInit, U!Places
  <2>4. tree = {} /\ ahead = 0 /\ pushed = 0 /\ had = [u \in Updates |-> FALSE] /\ undone = FALSE /\ failed = 0
    BY DEF U!UpdateInit
  <2>5. /\ tree \subseteq Edits /\ ahead \in 0 .. pushed /\ pushed \in 0 .. MaxCommits
        /\ undone \in BOOLEAN /\ failed \in 0 .. MaxFailed
    <3>1. 0 \in 0 .. 0 /\ 0 \in 0 .. MaxCommits /\ 0 \in 0 .. MaxFailed
      BY UpdateAssumption
    <3> QED
      BY <2>4, <3>1
  <2>6. had \in [Updates -> BOOLEAN]
    BY <2>4
  <2> QED
    BY <2>1, <2>2, <2>3, <2>5, <2>6 DEF U!UpdateTypeOK
<1>2. \A i \in DOMAIN heap : heap[i] \subseteq older
  BY DEF U!UpdateInit, U!InStash
<1>3. heap \in Seq(SUBSET Edits)
  BY <1>1 DEF U!UpdateTypeOK
<1>4. 0 <= Cardinality(Poppers) /\ 0 \in Nat /\ 0 <= Len(heap)
  BY PoppersAre, <1>3
<1>5. \A i \in 0 + 1 .. Len(heap) : heap[i] \subseteq older
  BY <1>2, <1>3
<1> QED
  BY <1>1, <1>4, <1>5 DEF UpdateInv, Owed, U!UpdateInit

\* A step that leaves the stash alone owes no less.
LEMMA OwedStays ==
  ASSUME Owed, UNCHANGED <<heap, older>>, Poppers \subseteq Poppers', IsFiniteSet(Poppers')
  PROVE  Owed'
<1>1. Cardinality(Poppers) <= Cardinality(Poppers')
  BY FS_Subset
<1> QED
  BY <1>1, PoppersAre, FS_CardinalityType DEF Owed

\* An update that pops takes the newest entry off, whosever it is.
LEMMA OwedPopped ==
  ASSUME UpdateInv, Owed, NEW u \in Updates, u \in Poppers, U!PopStash, ~ undone',
         UNCHANGED <<had, older>>, U!To(u, "done")
  PROVE  Owed'
<1>0. heap \in Seq(SUBSET Edits) /\ doing \in [Updates -> U!Places]
  BY DEF UpdateInv, U!UpdateTypeOK
<1>1. Poppers' = Poppers \ {u}
  BY <1>0 DEF Poppers, U!To
<1>2. Cardinality(Poppers') = Cardinality(Poppers) - 1 /\ Cardinality(Poppers) \in Nat /\ Cardinality(Poppers') \in Nat
  BY <1>1, PoppersAre, FS_RemoveElement, FS_CardinalityType
<1>3. PICK k \in Nat : /\ k <= Len(heap) /\ k <= Cardinality(Poppers)
                       /\ \A i \in k + 1 .. Len(heap) : heap[i] \subseteq older
  BY DEF Owed
<1>4. CASE heap = <<>>
  <2>1. heap' = heap /\ Len(heap) = 0
    BY <1>4 DEF U!PopStash
  <2> QED
    BY <2>1, <1>2 DEF Owed
<1>5. CASE heap # <<>>
  <2>1. heap' = Tail(heap)
    BY <1>5 DEF U!PopStash
  <2>2. Len(heap') = Len(heap) - 1 /\ \A i \in 1 .. Len(heap) - 1 : heap'[i] = heap[i + 1]
    BY <1>0, <1>5, <2>1
  <2> DEFINE j == IF k = 0 THEN 0 ELSE k - 1
  <2>3. j \in Nat /\ j <= Len(heap') /\ j <= Cardinality(Poppers')
    BY <1>0, <1>2, <1>3, <1>5, <2>2
  <2>4. ASSUME NEW i \in j + 1 .. Len(heap') PROVE heap'[i] \subseteq older'
    <3>1. i \in 1 .. Len(heap) - 1 /\ i + 1 \in k + 1 .. Len(heap)
      BY <1>0, <1>3, <2>2, <2>3
    <3> QED
      BY <3>1, <2>2, <1>3
  <2> QED
    BY <2>3, <2>4 DEF Owed
<1> QED
  BY <1>4, <1>5

\* A step of an update keeps the types.
LEMMA UpdateTypes == ASSUME U!UpdateTypeOK, U!UpdateNext PROVE U!UpdateTypeOK'
<1>1. /\ tree \subseteq Edits /\ heap \in Seq(SUBSET Edits)
      /\ ahead \in 0 .. pushed /\ pushed \in 0 .. MaxCommits
      /\ doing \in [Updates -> U!Places]
      /\ had \in [Updates -> BOOLEAN] /\ older \subseteq Edits /\ undone \in BOOLEAN
      /\ failed \in 0 .. MaxFailed
  BY DEF U!UpdateTypeOK
<1>4. U!Breaks => failed' \in 0 .. MaxFailed
  BY <1>1, UpdateAssumption DEF U!Breaks
<1>2. U!PopStash => /\ tree' \subseteq Edits /\ heap' \in Seq(SUBSET Edits)
                    /\ undone' \in BOOLEAN /\ failed' \in 0 .. MaxFailed
  <2> SUFFICES ASSUME U!PopStash PROVE /\ tree' \subseteq Edits /\ heap' \in Seq(SUBSET Edits)
                                       /\ undone' \in BOOLEAN /\ failed' \in 0 .. MaxFailed
    OBVIOUS
  <2>1. CASE heap = <<>>
    BY <1>1, <2>1 DEF U!PopStash
  <2>2. CASE heap # <<>>
    <3>1. Head(heap) \subseteq Edits /\ Tail(heap) \in Seq(SUBSET Edits)
      BY <1>1, <2>2
    <3> QED
      BY <1>1, <1>4, <2>2, <3>1 DEF U!PopStash
  <2> QED
    BY <2>1, <2>2
<1>3. doing' \in [Updates -> U!Places]
  <2>1. \/ UNCHANGED doing
        \/ \E u \in Updates : \E p \in U!Places : U!To(u, p)
    <3>1. CASE U!Arrive \/ \E e \in Edits : U!Edit(e)
      BY <3>1 DEF U!Arrive, U!Edit
    <3>2. ASSUME NEW u \in Updates, U!Look(u) \/ U!Fetch(u) \/ U!Push(u) \/ U!Pull(u) \/ U!After(u) \/ U!Pop(u)
                                      \/ U!PopFailed(u) \/ U!Kill(u)
          PROVE  \E p \in U!Places : U!To(u, p)
      BY <3>2 DEF U!Look, U!Fetch, U!Push, U!Pull, U!After, U!Pop, U!PopFailed, U!Kill, U!Places
    <3> QED
      BY <3>1, <3>2 DEF U!UpdateNext
  <2> QED
    BY <1>1, <2>1 DEF U!To
<1>5. CASE U!Arrive
  BY <1>1, <1>5, UpdateAssumption DEF U!Arrive, U!UpdateTypeOK
<1>6. ASSUME NEW e \in Edits, U!Edit(e) PROVE U!UpdateTypeOK'
  BY <1>1, <1>6 DEF U!Edit, U!UpdateTypeOK
<1>7. ASSUME NEW u \in Updates, U!Look(u) PROVE U!UpdateTypeOK'
  BY <1>1, <1>3, <1>7 DEF U!Look, U!UpdateTypeOK, U!gitVars
<1>8. ASSUME NEW u \in Updates, U!Fetch(u) PROVE U!UpdateTypeOK'
  BY <1>1, <1>3, <1>8 DEF U!Fetch, U!UpdateTypeOK, U!gitVars
<1>9. ASSUME NEW u \in Updates, U!Push(u) PROVE U!UpdateTypeOK'
  <2>1. <<tree>> \o heap \in Seq(SUBSET Edits)
    BY <1>1
  <2> QED
    BY <1>1, <1>3, <1>4, <1>9, <2>1 DEF U!Push, U!UpdateTypeOK
<1>10. ASSUME NEW u \in Updates, U!Pull(u) PROVE U!UpdateTypeOK'
  <2>1. UNCHANGED <<tree, heap, pushed, had, older, undone>> /\ ahead' \in {0, ahead}
    BY <1>10 DEF U!Pull
  <2>2. failed' = failed \/ U!Breaks
    BY <1>10 DEF U!Pull
  <2>3. failed' \in 0 .. MaxFailed /\ ahead' \in 0 .. pushed
    BY <1>1, <1>4, <2>1, <2>2
  <2> QED
    BY <1>1, <1>3, <2>1, <2>3 DEF U!UpdateTypeOK
<1>11. ASSUME NEW u \in Updates, U!After(u) PROVE U!UpdateTypeOK'
  BY <1>1, <1>3, <1>11 DEF U!After, U!UpdateTypeOK, U!gitVars
<1>12. ASSUME NEW u \in Updates, U!Pop(u) \/ U!PopFailed(u) PROVE U!UpdateTypeOK'
  BY <1>1, <1>2, <1>3, <1>12 DEF U!Pop, U!PopFailed, U!UpdateTypeOK
<1>13. ASSUME NEW u \in Updates, U!Kill(u) PROVE U!UpdateTypeOK'
  BY <1>1, <1>3, <1>4, <1>13 DEF U!Kill, U!UpdateTypeOK, U!gitVars
<1> QED
  BY <1>5, <1>6, <1>7, <1>8, <1>9, <1>10, <1>11, <1>12, <1>13 DEF U!UpdateNext

\* Every step keeps it.
LEMMA UpdateStep == UpdateInv /\ U!UpdateNext => UpdateInv'
<1> SUFFICES ASSUME UpdateInv, U!UpdateNext PROVE UpdateInv'
  OBVIOUS
<1>0. /\ doing \in [Updates -> U!Places]
      /\ had \in [Updates -> BOOLEAN] /\ heap \in Seq(SUBSET Edits) /\ undone \in BOOLEAN
      /\ \A u \in Updates : doing[u] = "stash" => had[u]
  BY DEF UpdateInv, U!UpdateTypeOK
<1>1. U!UpdateTypeOK'
  BY UpdateTypes DEF UpdateInv
<1>2. IsFiniteSet(Poppers')
  <2>1. Poppers' \subseteq Updates
    BY DEF Poppers
  <2> QED
    BY <2>1, UpdateAssumption, FS_Subset
<1>3. \A u \in Updates : doing'[u] = "stash" => had'[u]
  BY <1>0 DEF U!UpdateNext, U!Arrive, U!Edit, U!Look, U!Fetch, U!Push, U!Pull, U!After, U!Pop, U!PopFailed,
              U!Kill, U!To, U!gitVars
<1>4. undone' \/ Owed'
  <2> SUFFICES ASSUME ~ undone' PROVE Owed'
    OBVIOUS
  <2>0. ~ undone
    BY <1>0 DEF U!UpdateNext, U!Arrive, U!Edit, U!Look, U!Fetch, U!Push, U!Pull, U!After, U!Pop, U!PopFailed,
                U!Kill, U!PopStash, U!gitVars
  <2>1. Owed
    BY <2>0 DEF UpdateInv
  <2>2. CASE U!Arrive \/ \E e \in Edits : U!Edit(e)
    BY <2>1, <2>2, <1>2, OwedStays DEF U!Arrive, U!Edit, Poppers
  <2>3. ASSUME NEW u \in Updates, U!Look(u) \/ U!Fetch(u) \/ U!Pull(u) \/ U!After(u) \/ U!Kill(u) PROVE Owed'
    <3>1. UNCHANGED <<heap, older>>
      BY <2>3 DEF U!Look, U!Fetch, U!Pull, U!After, U!Kill, U!gitVars
    <3>2. Poppers \subseteq Poppers'
      BY <1>0, <2>3 DEF U!Look, U!Fetch, U!Pull, U!After, U!Kill, U!To, Poppers
    <3> QED
      BY <1>2, <2>1, <3>1, <3>2, OwedStays
  <2>4. ASSUME NEW u \in Updates, U!Push(u) PROVE Owed'
    <3>1. Poppers' = Poppers \cup {u} /\ u \notin Poppers
      BY <1>0, <2>4 DEF U!Push, U!To, Poppers
    <3>2. CASE UNCHANGED heap
      BY <1>2, <2>1, <2>4, <3>1, <3>2, OwedStays DEF U!Push
    <3>3. CASE heap' = <<tree>> \o heap
      <4>1. Cardinality(Poppers') = Cardinality(Poppers) + 1 /\ Cardinality(Poppers) \in Nat
        BY <3>1, PoppersAre, FS_AddElement
      <4>2. PICK k \in Nat : /\ k <= Len(heap) /\ k <= Cardinality(Poppers)
                             /\ \A i \in k + 1 .. Len(heap) : heap[i] \subseteq older
        BY <2>1 DEF Owed
      <4>3. Len(heap') = Len(heap) + 1 /\ \A i \in 2 .. Len(heap) + 1 : heap'[i] = heap[i - 1]
        BY <1>0, <3>3
      <4>4. ASSUME NEW i \in (k + 1) + 1 .. Len(heap') PROVE heap'[i] \subseteq older'
        <5>1. i \in 2 .. Len(heap) + 1 /\ i - 1 \in k + 1 .. Len(heap)
          BY <1>0, <4>3
        <5>2. older' = older
          BY <2>4 DEF U!Push
        <5> QED
          BY <5>1, <5>2, <4>2, <4>3
      <4>5. k + 1 \in Nat /\ k + 1 <= Len(heap') /\ k + 1 <= Cardinality(Poppers')
        BY <1>0, <4>1, <4>2, <4>3
      <4> QED
        BY <4>4, <4>5 DEF Owed
    <3> QED
      BY <2>4, <3>2, <3>3 DEF U!Push
  <2>5. ASSUME NEW u \in Updates, U!Pop(u) \/ U!PopFailed(u) PROVE Owed'
    <3>1. doing[u] \in {"pop", "pop failed"} /\ UNCHANGED <<had, older>> /\ U!To(u, "done")
      BY <2>5 DEF U!Pop, U!PopFailed
    <3>2. CASE had[u]
      <4>1. u \in Poppers /\ U!PopStash
        BY <2>5, <3>1, <3>2 DEF U!Pop, U!PopFailed, Poppers
      <4> QED
        BY <2>1, <3>1, <4>1, OwedPopped
    <3>3. CASE ~ had[u]
      <4>1. UNCHANGED heap /\ Poppers \subseteq Poppers'
        BY <1>0, <2>5, <3>1, <3>3 DEF U!Pop, U!PopFailed, Poppers, U!To
      <4> QED
        BY <1>2, <2>1, <3>1, <4>1, OwedStays
    <3> QED
      BY <3>2, <3>3
  <2> QED
    BY <2>2, <2>3, <2>4, <2>5 DEF U!UpdateNext
<1> QED
  BY <1>1, <1>3, <1>4 DEF UpdateInv

\* A step that leaves these variables alone keeps it.
LEMMA UpdateStutter == UpdateInv /\ UNCHANGED updateVars => UpdateInv'
<1> SUFFICES ASSUME UpdateInv, UNCHANGED updateVars PROVE UpdateInv'
  OBVIOUS
<1>1. UNCHANGED <<tree, heap, ahead, pushed, doing, had, older, undone, failed>>
  BY DEF updateVars
<1>2. Poppers' = Poppers
  BY <1>1 DEF Poppers
<1>3. Owed => Owed'
  BY <1>1, <1>2 DEF Owed
<1>4. U!UpdateTypeOK'
  BY <1>1 DEF UpdateInv, U!UpdateTypeOK
<1> QED
  BY <1>1, <1>3, <1>4 DEF UpdateInv

\* It holds in every behaviour.
LEMMA UpdateAlways == Spec => []UpdateInv
<1>1. Init => UpdateInv
  BY UpdateStart DEF Init
<1>2. UpdateInv /\ [Next]_vars => UpdateInv'
  BY UpdateStep, UpdateStutter DEF Next, vars
<1> QED
  BY <1>1, <1>2, PTL DEF Spec, vars

\* However many updates run at a time, and pop each other's entries: once all have
\* ended, without a kill or a failure of the stash, the stash holds nothing but
\* what it held before (cli.py:781).
THEOREM ChangesBackAlways == Spec => []ChangesBack
<1>1. ASSUME UpdateInv, \A u \in Updates : doing[u] \in {"new", "done"}, ~ undone
      PROVE  U!InStash \subseteq older
  <2>1. Poppers = {}
    BY <1>1 DEF Poppers
  <2>2. Cardinality(Poppers) = 0
    BY <2>1, FS_EmptySet
  <2>3. heap \in Seq(SUBSET Edits)
    BY <1>1 DEF UpdateInv, U!UpdateTypeOK
  <2>4. \A i \in DOMAIN heap : heap[i] \subseteq older
    BY <1>1, <2>2, <2>3 DEF UpdateInv, Owed
  <2> QED
    BY <2>4 DEF U!InStash
<1>2. UpdateInv => ChangesBack
  BY <1>1 DEF ChangesBack, U!ChangesBack
<1> QED
  BY <1>2, UpdateAlways, PTL
=============================================================================
