------------------------------- MODULE Remember -------------------------------
(***************************************************************************)
(* The write path of the memory (src/src/memory.py): Memory.remember() with *)
(* its conflict detection, Memory.forget() and Memory.supersede().         *)
(*                                                                         *)
(* remember() embeds a text, takes the write lock of its Memory object,     *)
(* looks for the nearest chunk of the tier, marks it superseded when it is  *)
(* a near duplicate, and upserts the new chunk.  The lock belongs to one    *)
(* Memory object: Brain._memory() builds an object per call, and every     *)
(* process has its own, so calls exclude each other only within Instance.   *)
(*                                                                         *)
(* A fact stands for a chunk: its text, its source and the id hashed from  *)
(* both, so equal texts of two sources are two facts at distance 0.  The   *)
(* embedding is abstracted to Dist, the cosine distance in hundredths.     *)
(* Each call handles one chunk, and is made without facts= .               *)
(***************************************************************************)
EXTENDS Naturals

CONSTANTS
  Facts,           \* texts that may be remembered
  Tiers,           \* one collection each
  Dist,            \* Dist[x, y]: the distance between two facts
  Calls,           \* remember() calls, each made at most once
  Instances,       \* Memory objects
  Instance,        \* Instance[c]: the object c is called on
  Allowed,         \* the other operations that may be used, a subset of Extras
  MaxFaults,       \* bound: failing store operations
  Nobody, Manual   \* no marker; a marker that names no chunk

Extras == {"forget", "supersede", "reconcile"}

\* Below the first a near duplicate, below the second of the same topic.
Near == 8
Topic == 35

ASSUME DistAssumption ==
  /\ Dist \in [Facts \X Facts -> Nat]
  /\ \A x \in Facts : Dist[<<x, x>>] = 0
  /\ \A x, y \in Facts : Dist[<<x, y>>] = Dist[<<y, x>>]
ASSUME InstanceAssumption == Instance \in [Calls -> Instances]
ASSUME AllowedAssumption == Allowed \subseteq Extras
ASSUME FaultsAssumption == MaxFaults \in Nat
ASSUME MarkerAssumption == Nobody \notin Facts /\ Manual \notin Facts /\ Nobody # Manual

Keys == Tiers \X Facts
Markers == Facts \cup {Nobody, Manual}

VARIABLES
  present,  \* the chunks in the store, by tier
  by,       \* by[k]: the superseded_by metadata of chunk k
  born,     \* history: when chunk k was last inserted
  clock,    \* history: the number of insertions
  pc,       \* where each call is
  arg,      \* the chunk it stores
  rec,      \* whether it was given a reconcile_model
  hit,      \* the facts it has decided to mark superseded
  faults,   \* store operations that have failed
  used      \* history: the extras used so far

store == <<present, by, born, clock>>
call == <<pc, arg, rec, hit>>
vars == <<store, call, faults, used>>

Init ==
  /\ present = {}
  /\ by = [k \in Keys |-> Nobody]
  /\ born = [k \in Keys |-> 0]
  /\ clock = 0
  /\ pc = [c \in Calls |-> "new"]
  /\ arg \in [Calls -> Keys]
  /\ rec \in [Calls -> IF "reconcile" \in Allowed THEN BOOLEAN ELSE {FALSE}]
  /\ hit = [c \in Calls |-> {}]
  /\ faults = 0
  /\ used = {}

Use(kind) == kind \in Allowed /\ used' = used \cup {kind}

Visible(k) == k \in present /\ by[k] = Nobody

\* The calls on one object run on one event loop: the query and the update of
\* the locked section have no await between them, so nothing else runs there.
LoopFree(i) == \A d \in Calls : Instance[d] = i => pc[d] # "marking"

\* The places of a call inside async with self._write_lock.
Holds(c) == pc[c] \in {"locked", "marking", "adding"}

Goto(c, place) == pc' = [pc EXCEPT ![c] = place]

\* Step c of the event loop: it is at place, and its loop is free to run it.
At(c, place) == pc[c] = place /\ LoopFree(Instance[c])

Embed(c) ==
  /\ At(c, "new")
  /\ Goto(c, "embedded")
  /\ UNCHANGED <<store, arg, rec, hit, faults, used>>

\* The embedder raises: the call raises and nothing was written.
EmbedFails(c) ==
  /\ At(c, "new")
  /\ faults < MaxFaults /\ faults' = faults + 1
  /\ Goto(c, "failed")
  /\ UNCHANGED <<store, arg, rec, hit, used>>

\* Mutant of Acquire: no lock.
AcquireNothing(c) ==
  /\ At(c, "embedded")
  /\ Goto(c, "locked")
  /\ UNCHANGED <<store, arg, rec, hit, faults, used>>

\* async with self._write_lock
Acquire(c) ==
  /\ At(c, "embedded")
  /\ \A d \in Calls : Instance[d] = Instance[c] => ~Holds(d)
  /\ Goto(c, "locked")
  /\ UNCHANGED <<store, arg, rec, hit, faults, used>>

Others(k) == {y \in Facts : <<k[1], y>> \in present}

\* The first result of the query: any of the nearest chunks of the tier.  The
\* chunk itself, if it is there already, is one of them, and so is one of the
\* same text from another source.
Nearest(k) == {y \in Others(k) : \A z \in Others(k) : Dist[<<k[2], y>>] <= Dist[<<k[2], z>>]}

\* Mutant of NearDuplicate: no eid != chunk.id.
NearOrSelf(k, y) == Dist[<<k[2], y>>] < Near /\ by[<<k[1], y>>] = Nobody

NearDuplicate(k, y) ==
  /\ y # k[2]
  /\ Dist[<<k[2], y>>] < Near
  /\ by[<<k[1], y>>] = Nobody

\* The neighbours the reconcile model is asked about.
Candidates(k) ==
  {y \in Others(k) : Dist[<<k[2], y>>] \in Near .. Topic - 1 /\ by[<<k[1], y>>] = Nobody}

\* The query, and what it decides.  The verdicts of the reconcile model are
\* any of its candidates.
Look(c) ==
  LET k == arg[c] IN
  /\ At(c, "locked")
  /\ \E first \in SUBSET Nearest(k), verdicts \in SUBSET Candidates(k) :
       /\ (first = {}) = (Nearest(k) = {})
       /\ \A y, z \in first : y = z
       /\ IF rec[c] /\ verdicts # {} THEN Use("reconcile") ELSE verdicts = {} /\ UNCHANGED used
       /\ hit' = [hit EXCEPT ![c] = {y \in first : NearDuplicate(k, y)} \cup verdicts]
  /\ Goto(c, "marking")
  /\ UNCHANGED <<store, arg, rec, faults>>

\* The update of what was found; it does nothing to a chunk deleted since.
Mark(c) ==
  LET k == arg[c]
      marked == {<<k[1], y>> : y \in hit[c]} \cap present
  IN
  /\ pc[c] = "marking"
  /\ by' = [j \in Keys |-> IF j \in marked THEN k[2] ELSE by[j]]
  /\ Goto(c, "adding")
  /\ UNCHANGED <<present, born, clock, arg, rec, hit, faults, used>>

\* A store operation in the locked section raises: the lock is released and
\* the call falls back to storing the chunk without it.
SectionFails(c) ==
  /\ Holds(c)
  /\ faults < MaxFaults /\ faults' = faults + 1
  /\ Goto(c, "retry")
  /\ UNCHANGED <<store, arg, rec, hit, used>>

\* Chroma's upsert: a new chunk starts without markers; the metadata of one
\* that is there already is merged, and keeps its superseded_by.
Upsert(k) ==
  /\ present' = present \cup {k}
  /\ IF k \in present
       THEN UNCHANGED <<by, born, clock>>
       ELSE /\ by' = [by EXCEPT ![k] = Nobody]
            /\ born' = [born EXCEPT ![k] = clock + 1]
            /\ clock' = clock + 1

\* Mutant of Add: near duplicates are not stored.
AddUnlessDuplicate(c) ==
  /\ pc[c] = "adding"
  /\ IF hit[c] = {} THEN Upsert(arg[c]) ELSE UNCHANGED store
  /\ Goto(c, "done")
  /\ UNCHANGED <<arg, rec, hit, faults, used>>

\* The upsert runs in a worker thread (asyncio.to_thread), so neither this one
\* nor the next needs the loop.
Add(c) ==
  /\ pc[c] = "adding"
  /\ Upsert(arg[c])
  /\ Goto(c, "done")
  /\ UNCHANGED <<arg, rec, hit, faults, used>>

AddUnlocked(c) ==
  /\ pc[c] = "retry"
  /\ Upsert(arg[c])
  /\ Goto(c, "done")
  /\ UNCHANGED <<arg, rec, hit, faults, used>>

AddUnlockedFails(c) ==
  /\ pc[c] = "retry"
  /\ faults < MaxFaults /\ faults' = faults + 1
  /\ Goto(c, "failed")
  /\ UNCHANGED <<store, arg, rec, hit, used>>

\* The first tier that has the chunk and whose store answers (or for forget
\* the tier it is given): any of those that have it.
Forget(i, x) ==
  /\ Use("forget")
  /\ LoopFree(i)
  /\ \E t \in Tiers : <<t, x>> \in present /\ present' = present \ {<<t, x>>}
  /\ UNCHANGED <<by, born, clock, call, faults>>

Supersede(i, x, marker) ==
  /\ Use("supersede")
  /\ LoopFree(i)
  /\ \E t \in Tiers : <<t, x>> \in present /\ by' = [by EXCEPT ![<<t, x>>] = marker]
  /\ UNCHANGED <<present, born, clock, call, faults>>

Step(c) ==
  \/ Embed(c) \/ EmbedFails(c) \/ Acquire(c) \/ Look(c) \/ Mark(c) \/ Add(c)
  \/ SectionFails(c) \/ AddUnlocked(c) \/ AddUnlockedFails(c)

Next ==
  \/ \E c \in Calls : Step(c)
  \/ \E i \in Instances, x \in Facts :
       Forget(i, x) \/ \E m \in Markers \ {Nobody} : Supersede(i, x, m)

Spec == Init /\ [][Next]_vars

-----------------------------------------------------------------------------

\* Every variable has its type.
TypeOK ==
  /\ present \subseteq Keys
  /\ by \in [Keys -> Markers]
  /\ born \in [Keys -> Nat]
  /\ clock \in Nat
  /\ pc \in [Calls -> {"new", "embedded", "locked", "marking", "adding",
                       "retry", "done", "failed"}]
  /\ arg \in [Calls -> Keys]
  /\ rec \in [Calls -> BOOLEAN]
  /\ hit \in [Calls -> SUBSET Facts]
  /\ faults \in Nat
  /\ used \subseteq Extras

(* What the invariants below rest on. *)

OneInstance == \A c \in Calls, i \in Instances : Instance[c] = i

\* The lock of an object excludes the other calls on it.
OneHolder ==
  \A c, d \in Calls : Holds(c) /\ Holds(d) /\ Instance[c] = Instance[d] => c = d

\* The history variables tell the order of insertion.
Born == \A k \in present : born[k] <= clock

\* Some call has stored each chunk.
Stored == \A k \in present : \E c \in Calls : arg[c] = k /\ pc[c] = "done"

\* Only a failed call retries.
RetryFailed == \A c \in Calls : pc[c] = "retry" => faults > 0

\* The same statement from the same source is remembered more than once.
Restated(k) == \E c, d \in Calls : c # d /\ arg[c] = k /\ arg[d] = k

SameText(x, y) == x # y /\ Dist[<<x, y>>] = 0

\* What can mark a chunk that is as young as the one it is marked by.
MayCircle(x, k) == Restated(k) /\ (SameText(k[2], x) \/ Dist[<<k[2], x>>] >= Near)

\* Several objects may forget a chunk and store it again while one of them is
\* about to mark it.
InOrder == "supersede" \notin used /\ ("forget" \in used => OneInstance)

\* A chunk about to be marked is still there, and older than the one that
\* will hide it, even if another call has stored that one already.
HitsAreOlder ==
  InOrder =>
    \A c \in Calls : pc[c] = "marking" =>
      \A y \in hit[c] :
        LET j == <<arg[c][1], y>> IN
        \/ MayCircle(y, arg[c])
        \/ j \in present /\ (arg[c] \in present => born[j] < born[arg[c]])

\* All calls that are given one of the two chunks are on one object.
SameObject(j, k) ==
  \A c, d \in Calls : {arg[c], arg[d]} \subseteq {j, k} => Instance[c] = Instance[d]

\* A third chunk is at least as near to k as y is.
Screened(k, y) ==
  \E z \in Others(k) \ {y, k[2]} : Dist[<<k[2], z>>] <= Dist[<<k[2], y>>]

\* Past the query, a call that stores a new chunk has found each visible near
\* duplicate of it that no other chunk screens, and past the update has hidden it.
TwinsSeen ==
  faults = 0 /\ "forget" \notin used =>
    \A c \in Calls : pc[c] \in {"marking", "adding"} /\ arg[c] \notin present =>
      \A y \in Facts :
        LET j == <<arg[c][1], y>> IN
        Dist[<<arg[c][2], y>>] < Near /\ Visible(j) /\ SameObject(j, arg[c]) =>
          \/ pc[c] = "marking" /\ y \in hit[c]
          \/ Screened(arg[c], y)

\* Conflict detection leaves one current version of what is remembered through
\* one Memory object, whatever other objects do meanwhile: if a tier shows two
\* near duplicates, then when the later one came, a third chunk that is at
\* least as near to it was there, and the query for one result returned that.
\* Two limits are the code's: objects do not see each other's locks, so two of
\* them may both store a near duplicate, and only the nearest chunk is looked
\* at, so of three near duplicates two may stay visible.  A failed write is
\* retried without the lock, and forget() never takes it: either may break this.
NoVisibleTwins ==
  faults = 0 /\ "forget" \notin used =>
    \A j, k \in present :
      (/\ Visible(j) /\ Visible(k) /\ j[1] = k[1] /\ Dist[<<k[2], j[2]>>] < Near
       /\ SameObject(j, k)
       /\ born[j] < born[k]) =>
        \E z \in Others(k) \ {j[2], k[2]} :
          born[<<k[1], z>>] < born[k] /\ Dist[<<k[2], z>>] <= Dist[<<k[2], j[2]>>]

\* A chunk is superseded only by one that entered the store after it, so that
\* following superseded_by does not come back to it, with two exceptions, both
\* of a statement that is remembered again: the query may return an equal text
\* of another source, and a reconcile model may be asked about newer chunks.
\* In both the code does close circles, that hide all chunks in them.
\* Whatever else fails, interleaves or, with one object, is forgotten does not.
\* (supersede() writes the marker it is told to.)
SupersederIsYounger ==
  InOrder =>
    \A k \in present :
      LET j == <<k[1], by[k]>> IN
      j \in present => born[k] < born[j] \/ MayCircle(k[2], j)

\* A hidden chunk has its replacement in the store, or the call that hid it is
\* about to put it there, with or without the lock, or has raised for want of
\* it: no call returns as if it had stored what it hid another chunk for.
\* Forgetting the new one leaves the old one hidden.
HiddenHasSuccessor ==
  used \subseteq {"reconcile"} =>
    \A k \in present :
      by[k] \in Facts =>
        \/ <<k[1], by[k]>> \in present
        \/ \E c \in Calls : /\ pc[c] \in {"adding", "retry", "failed"}
                            /\ arg[c] = <<k[1], by[k]>> /\ k[2] \in hit[c]

\* The inductive invariant behind NoVisibleTwins and SupersederIsYounger.
IndInv ==
  /\ TypeOK /\ OneHolder /\ Born /\ Stored /\ RetryFailed
  /\ HitsAreOlder /\ SupersederIsYounger
  /\ TwinsSeen /\ NoVisibleTwins

\* A marker is for good: until a chunk is deleted, remembering it again (or
\* anything else) never makes it current, so a superseded text that is ingested
\* anew from a document does not come back.
StaysSuperseded ==
  [][\A k \in present \cap present' : by[k] # Nobody => by'[k] # Nobody]_vars
=============================================================================
