-------------------------------- MODULE Recall --------------------------------
(***************************************************************************)
(* Recall, and what is built on it: hybrid_query() of src/query.py over the *)
(* collections of src/backends/chroma.py, Memory.recall(), supersede() and  *)
(* forget() of src/memory.py, and the tools of src/connectors/base.py and   *)
(* src/mcp_server.py that recall first and then choose, or that walk the    *)
(* collections.  Calls run in several threads and processes; each access to *)
(* a collection is a step.                                                  *)
(*                                                                          *)
(* A row is kept under a tier and an id.  Distances, scores and boosts are  *)
(* left out: any of the rows that fit may be nearest, and reranking, decay, *)
(* priors and FSRS put what was fetched in any order.  Of the metadata that *)
(* a recall writes only those are kept by which a row is due: for pruning,  *)
(* for review, or for a nudge.  Rows below the importance a tool asks for   *)
(* are none of the rows here.                                               *)
(***************************************************************************)
EXTENDS Integers, FiniteSets
LOCAL INSTANCE SequencesExt

CONSTANTS Tiers, Ids,
          Calls,       \* running calls of tools
          Scenes,      \* bound: [rows, jobs] to begin with
          Gone,        \* no row
          Worded,      \* ids whose text has a word of the query
          Holding,     \* ids whose text has the needle of search_verbatim
          FetchFloor,  \* the least that wake_up() fetches
          Glance,      \* the most that a nudge reads of a tier
          Faulty,      \* tiers whose collection may raise
          Fading       \* bound: slots that time makes due

VARIABLES rows,        \* <<tier, id>> -> [superseded, due], or Gone
          jobs,        \* call -> what it is asked
          at,          \* call -> where it is
          round,       \* call -> attempts of wake_up(), or tiers walked
          found,       \* call -> hits of the vector search
          left,        \* call -> hits to bump, or to forget
          cur,         \* call -> the slot and the row it read last
          kept,        \* call -> hits of its answer
          since        \* history: call -> rows superseded when it began

recallVars == <<rows, jobs, at, round, found, left, cur, kept, since>>

Slots == Tiers \X Ids
Rows  == [superseded : BOOLEAN, due : BOOLEAN]
Hits  == [slot : Slots, superseded : BOOLEAN, due : BOOLEAN]
Tools == {"recall", "wake_up", "review", "decay_status", "search", "related",
          "forget_by_query", "forget", "supersede", "decay_apply",
          "inflate", "index", "nudge"}
Places == {"new", "search", "words", "bump", "bumped", "choose", "forget",
           "delete", "mark", "walk", "done", "cut", "failed"}

RecallTypeOK ==
  /\ rows \in [Slots -> Rows \cup {Gone}]
  /\ jobs \in [Calls -> [tool : Tools, k : Nat, tier : Tiers \cup {"all"}, id : Ids]]
  /\ at \in [Calls -> Places]
  /\ round \in [Calls -> Nat]
  /\ found \in [Calls -> SUBSET Hits] /\ left \in [Calls -> SUBSET Hits]
  /\ kept \in [Calls -> SUBSET Hits]
  /\ cur \in [Calls -> [slot : Slots, row : Rows] \cup {Gone}]
  /\ since \in [Calls -> SUBSET Slots]

RecallInit ==
  /\ \E s \in Scenes : rows = s.rows /\ jobs = s.jobs
  /\ at = [c \in Calls |-> "new"]
  /\ round = [c \in Calls |-> 0]
  /\ found = [c \in Calls |-> {}] /\ left = [c \in Calls |-> {}]
  /\ kept = [c \in Calls |-> {}]
  /\ cur = [c \in Calls |-> Gone]
  /\ since = [c \in Calls |-> {}]

-----------------------------------------------------------------------------
Tool(c) == jobs[c].tool
K(c)    == jobs[c].k
Present == {s \in Slots : rows[s] # Gone}
Marked  == {s \in Present : rows[s].superseded}
Hit(s)  == [slot |-> s, superseded |-> rows[s].superseded, due |-> rows[s].due]

Goto(c, p)      == at' = [at EXCEPT ![c] = p]
CeilDiv(a, b)   == (a + b - 1) \div b
Least(a, b)     == IF a <= b THEN a ELSE b
Most(a, b)      == IF a >= b THEN a ELSE b
Some(S, n)      == {T \in SUBSET S : Cardinality(T) = Least(Cardinality(S), n)}
Searched(c)     == IF jobs[c].tier = "all" THEN Tiers ELSE {jobs[c].tier}

\* How many results each tool asks of recall().
Fetch(c) ==
  CASE Tool(c) = "wake_up"      -> Most(K(c) * 3, FetchFloor) * 2 ^ round[c]
    [] Tool(c) = "review"       -> K(c) * 4
    [] Tool(c) = "decay_status" -> K(c) * 2
    [] Tool(c) = "search"       -> K(c) * 5
    [] Tool(c) \in {"inflate", "nudge"} -> K(c) * 3
    [] OTHER                    -> K(c)

Recalling == {"recall", "wake_up", "review", "decay_status", "search", "related",
              "forget_by_query", "inflate"}

Begin(c) ==
  /\ at[c] = "new" /\ Tool(c) # "decay_apply"
  /\ Goto(c, CASE Tool(c) \in Recalling          -> "search"
               [] Tool(c) = "forget"              -> "forget"
               [] Tool(c) = "supersede"           -> "mark"
               [] Tool(c) \in {"index", "nudge"}  -> "walk")
  /\ since' = [since EXCEPT ![c] = Marked]
  /\ UNCHANGED <<rows, jobs, round, found, left, cur, kept>>

-----------------------------------------------------------------------------
(* hybrid_query()                                                          *)

\* query(): each collection gives its share of the nearest, one that raises
\* gives nothing.
PerTier(n, tiers) == IF Cardinality(tiers) > 1 THEN CeilDiv(n, Cardinality(tiers)) ELSE n
Nearest(tiers, n) ==
  LET share == PerTier(n, tiers)
  IN  {S \in SUBSET {s \in Present : s[1] \in tiers} :
         \A t \in tiers : Cardinality({s \in S : s[1] = t}) =
                            Least(share, Cardinality({s \in Present : s[1] = t}))}

\* The text is embedded, which may take too long, and the tiers are searched.
Search(c) ==
  /\ at[c] = "search"
  /\ \/ /\ \E broken \in SUBSET Faulty : \E S \in Nearest(Searched(c) \ broken, 3 * Fetch(c)) :
             \E T \in Some(S, 3 * Fetch(c)) : found' = [found EXCEPT ![c] = {Hit(s) : s \in T}]
        /\ Goto(c, "words")
     \/ /\ Goto(c, CASE Tool(c) \in {"wake_up", "related"} -> "cut"
                    [] Tool(c) = "nudge"                  -> "choose"
                    [] OTHER                              -> "failed")
        /\ UNCHANGED found
  /\ UNCHANGED <<rows, jobs, round, left, cur, kept, since>>

\* bm25_query(): rows with a word of the query.
Lexical(c) == Some({s \in Present : s[1] \in Searched(c) /\ s[2] \in Worded}, 3 * Fetch(c))

\* Both are fused by id: a row found under an id by the vector search hides
\* what the other finds under it, and the nearer of two the farther.
Fusions(c, S) ==
  LET byId(H) == {h.slot[2] : h \in H}
      all == found[c] \cup {h \in {Hit(s) : s \in S} : h.slot[2] \notin byId(found[c])}
  IN  {H \in SUBSET all : \A i \in byId(all) : Cardinality({h \in H : h.slot[2] = i}) = 1}

\* Mutated form of Unmarked: only what the vector search finds is filtered.
UnmarkedNear(c, H) == {h \in H : ~ h.superseded \/ h \notin found[c]}

\* skip_superseded; the spreading activation of remember() has no such filter.
Unmarked(c, H) == IF Tool(c) = "related" THEN H ELSE {h \in H : ~ h.superseded}

\* The best of them, less the superseded ones, are bumped and then answered.
Words(c) ==
  /\ at[c] = "words"
  /\ \E S \in Lexical(c) : \E H \in Fusions(c, S) : \E R \in Some(H, Fetch(c)) :
       /\ left' = [left EXCEPT ![c] = Unmarked(c, R)]
       /\ found' = [found EXCEPT ![c] = Unmarked(c, R)]
  /\ Goto(c, "bump")
  /\ UNCHANGED <<rows, jobs, round, cur, kept, since>>

\* update() of a collection: keys that are not given stay, and a row that is
\* not there is not made.
Updated(s, new) ==
  IF rows[s] = Gone THEN Gone ELSE [new EXCEPT !.superseded = @ \/ rows[s].superseded]

\* Of each hit the metadata are read again ...
BumpRead(c) ==
  /\ at[c] = "bump"
  /\ IF left[c] = {}
       THEN Goto(c, "choose") /\ UNCHANGED <<left, cur>>
       ELSE \E h \in left[c] :
              /\ left' = [left EXCEPT ![c] = @ \ {h}]
              /\ IF rows[h.slot] = Gone
                   THEN UNCHANGED <<cur, at>>
                   ELSE /\ cur' = [cur EXCEPT ![c] = [slot |-> h.slot, row |-> rows[h.slot]]]
                        /\ Goto(c, "bumped")
  /\ UNCHANGED <<rows, jobs, round, found, kept, since>>

Bumped(c) == [cur[c].row EXCEPT !.due = FALSE]

\* Mutated form of BumpWrite: all the metadata are replaced.
BumpReplace(c) ==
  /\ at[c] = "bumped"
  /\ rows' = [rows EXCEPT ![cur[c].slot] = IF @ = Gone THEN Gone ELSE Bumped(c)]
  /\ cur' = [cur EXCEPT ![c] = Gone]
  /\ Goto(c, "bump")
  /\ UNCHANGED <<jobs, round, found, left, kept, since>>

\* ... and written back, recalled just now.
BumpWrite(c) ==
  /\ at[c] = "bumped"
  /\ rows' = [rows EXCEPT ![cur[c].slot] = Updated(cur[c].slot, Bumped(c))]
  /\ cur' = [cur EXCEPT ![c] = Gone]
  /\ Goto(c, "bump")
  /\ UNCHANGED <<jobs, round, found, left, kept, since>>

-----------------------------------------------------------------------------
(* What the tools choose from it.                                          *)

Answer(c, hits, p) ==
  /\ kept' = [kept EXCEPT ![c] = hits]
  /\ Goto(c, p)
  /\ UNCHANGED <<rows, jobs, found, cur, since>>

\* recall(), recall_verbatim() and decay_status() give what they get.
Give(c) ==
  /\ at[c] = "choose" /\ Tool(c) \in {"recall", "decay_status", "related"}
  /\ Answer(c, found[c], "done")
  /\ UNCHANGED <<round, left>>

\* fsrs_review_queue(): the most urgent of those that were due.
Review(c) ==
  /\ at[c] = "choose" /\ Tool(c) = "review"
  /\ \E R \in Some({h \in found[c] : h.due}, K(c)) : Answer(c, R, "done")
  /\ UNCHANGED <<round, left>>

\* search_verbatim(): those that hold the needle.
SearchVerbatim(c) ==
  /\ at[c] = "choose" /\ Tool(c) = "search"
  /\ \E R \in Some({h \in found[c] : h.slot[2] \in Holding}, K(c)) : Answer(c, R, "done")
  /\ UNCHANGED <<round, left>>

\* wake_up() adds to what it has, and fetches more, three times in all,
\* unless its deadline passes.
Unmet(c) == {h \in found[c] : \A g \in kept[c] : g.slot[2] # h.slot[2]}
Gather(c, all) ==
  \/ /\ Cardinality(all) >= K(c) \/ round[c] = 2
     /\ Answer(c, all, "done") /\ UNCHANGED round
  \/ /\ Cardinality(all) < K(c) /\ round[c] # 2
     /\ Answer(c, all, "search") /\ round' = [round EXCEPT ![c] = @ + 1]
  \/ Answer(c, all, "cut") /\ UNCHANGED round
WakeUp(c) ==
  /\ at[c] = "choose" /\ Tool(c) = "wake_up"
  /\ \E R \in Some(Unmet(c), K(c) - Cardinality(kept[c])) : Gather(c, kept[c] \cup R)
  /\ UNCHANGED left

\* forget_by_query() forgets what recall() gave it.
ForgetThem(c) ==
  /\ at[c] = "choose" /\ Tool(c) = "forget_by_query"
  /\ Answer(c, found[c], "forget")
  /\ left' = [left EXCEPT ![c] = found[c]]
  /\ UNCHANGED round

\* inflate fetches three times what it is asked for, and gives so many of
\* every tier.
Inflate(c) ==
  /\ at[c] = "choose" /\ Tool(c) = "inflate"
  /\ \E R \in SUBSET found[c] :
       /\ \A t \in Tiers : LET of(H) == Cardinality({h \in H : h.slot[1] = t})
                         IN  of(R) = Least(of(found[c]), K(c))
       /\ Answer(c, R, "done")
  /\ UNCHANGED <<round, left>>

\* nudge: candidates that match the context, if it could be recalled, come
\* before the others.
Nudge(c) ==
  /\ at[c] = "choose" /\ Tool(c) = "nudge"
  /\ LET matching == {h \in kept[c] : \E g \in found[c] : g.slot[2] = h.slot[2]}
     IN  \E R \in Some(kept[c], K(c)) :
           /\ R \subseteq matching \/ matching \subseteq R
           /\ Answer(c, R, "done")
  /\ UNCHANGED <<round, left>>

-----------------------------------------------------------------------------
(* index and nudge: the collections one after the other.                   *)

Order == SetToSeq(Tiers)

\* Of the rows read, index lists all that are not superseded, nudge those of
\* them that nobody has recalled for days.
Listed(c, R) == {s \in R \ Marked : Tool(c) = "nudge" => rows[s].due}

\* The first rows of a collection; one that raises is passed over.
Walk(c) ==
  /\ at[c] = "walk" /\ round[c] < Cardinality(Tiers)
  /\ LET tier  == Order[round[c] + 1]
         limit == IF Tool(c) = "index" THEN K(c) ELSE Glance
         room  == IF Tool(c) = "index" THEN K(c) - Cardinality(kept[c]) ELSE limit
     IN  \/ \E R \in Some({s \in Present : s[1] = tier /\ tier \in Searched(c)}, limit) :
              \E T \in Some(Listed(c, R), room) :
                kept' = [kept EXCEPT ![c] = @ \cup {Hit(s) : s \in T}]
         \/ tier \in Faulty /\ UNCHANGED kept
  /\ round' = [round EXCEPT ![c] = @ + 1]
  /\ UNCHANGED <<rows, jobs, at, found, left, cur, since>>

\* index answers; nudge goes on, with a context to recall or without.
Walked(c) ==
  /\ at[c] = "walk" /\ round[c] = Cardinality(Tiers)
  /\ \/ Tool(c) = "index" /\ Goto(c, "done")
     \/ Tool(c) = "nudge" /\ Goto(c, "choose")
     \/ Tool(c) = "nudge" /\ kept[c] # {} /\ Goto(c, "search")
  /\ UNCHANGED <<rows, jobs, round, found, left, cur, kept, since>>

-----------------------------------------------------------------------------
(* forget(), supersede() and decay_apply(): one tier that holds the id.    *)

Under(i, tiers) == {s \in Present : s[2] = i /\ s[1] \in tiers}

ForgetCheck(c) ==
  /\ at[c] = "forget"
  /\ LET todo == IF Tool(c) = "forget" THEN {jobs[c].id} ELSE {h.slot[2] : h \in left[c]}
         tiers == IF Tool(c) = "forget" THEN Searched(c) ELSE Tiers
     IN  \/ todo = {} /\ Goto(c, "done") /\ UNCHANGED <<left, cur>>
         \/ \E i \in todo :
              /\ left' = [left EXCEPT ![c] = {h \in @ : h.slot[2] # i}]
              /\ \/ /\ Under(i, tiers) = {} /\ UNCHANGED cur
                    /\ Goto(c, IF Tool(c) = "forget" THEN "done" ELSE "forget")
                 \/ \E s \in Under(i, tiers) :
                      cur' = [cur EXCEPT ![c] = [slot |-> s, row |-> rows[s]]] /\ Goto(c, "delete")
  /\ UNCHANGED <<rows, jobs, round, found, kept, since>>

ForgetDelete(c) ==
  /\ at[c] = "delete"
  /\ rows' = [rows EXCEPT ![cur[c].slot] = Gone]
  /\ cur' = [cur EXCEPT ![c] = Gone]
  /\ Goto(c, IF Tool(c) = "forget" THEN "done" ELSE "forget")
  /\ UNCHANGED <<jobs, round, found, left, kept, since>>

\* supersede(): the metadata are read, and written back with the mark.
MarkRead(c) ==
  /\ at[c] = "mark" /\ cur[c] = Gone
  /\ \/ Under(jobs[c].id, Tiers) = {} /\ Goto(c, "done") /\ UNCHANGED cur
     \/ /\ \E s \in Under(jobs[c].id, Tiers) : cur' = [cur EXCEPT ![c] = [slot |-> s, row |-> rows[s]]]
        /\ UNCHANGED at
  /\ UNCHANGED <<rows, jobs, round, found, left, kept, since>>

MarkWrite(c) ==
  /\ at[c] = "mark" /\ cur[c] # Gone
  /\ rows' = [rows EXCEPT ![cur[c].slot] = Updated(cur[c].slot, [cur[c].row EXCEPT !.superseded = TRUE])]
  /\ cur' = [cur EXCEPT ![c] = Gone]
  /\ Goto(c, "done")
  /\ UNCHANGED <<jobs, round, found, left, kept, since>>

\* decay_apply() makes a Memory of its own, which opens its store only in
\* remember(), recall() and the like; without one each tier raises and is
\* passed over.
StoreOpen(c) == Tool(c) # "decay_apply"
Prunable(c)  == IF StoreOpen(c) THEN {s \in Present \ Marked : s[1] \in Searched(c) /\ rows[s].due} ELSE {}

DecayApply(c) ==
  /\ at[c] = "new" /\ Tool(c) = "decay_apply"
  /\ rows' = [s \in Slots |-> IF s \in Prunable(c) THEN Gone ELSE rows[s]]
  /\ Goto(c, "done")
  /\ UNCHANGED <<jobs, round, found, left, cur, kept, since>>

\* A row is not recalled for a long time.
Fades(s) ==
  /\ s \in Present \cap Fading /\ ~ rows[s].due
  /\ rows' = [rows EXCEPT ![s].due = TRUE]
  /\ UNCHANGED <<jobs, at, round, found, left, cur, kept, since>>

RecallNext ==
  \/ \E c \in Calls :
       \/ Begin(c) \/ Search(c) \/ Words(c) \/ BumpRead(c) \/ BumpWrite(c)
       \/ Give(c) \/ Review(c) \/ SearchVerbatim(c) \/ WakeUp(c) \/ ForgetThem(c)
       \/ Inflate(c) \/ Nudge(c) \/ Walk(c) \/ Walked(c)
       \/ ForgetCheck(c) \/ ForgetDelete(c) \/ MarkRead(c) \/ MarkWrite(c) \/ DecayApply(c)
  \/ \E s \in Slots : Fades(s)

-----------------------------------------------------------------------------
(* Properties.                                                             *)

\* A row that was superseded stays so, and one that was forgotten stays away,
\* whatever recalls that read it before write back (memory.py:706).
MarksStay ==
  [][\A s \in Slots : s \in Marked /\ rows'[s] # Gone => rows'[s].superseded]_recallVars
ForgottenStays ==
  [][\A s \in Slots : rows[s] = Gone => rows'[s] = Gone]_recallVars

\* No answer has a row in it that was superseded before its call began
\* (memory.py:676).
NothingStale ==
  \A c \in Calls : at[c] \in {"done", "cut"} /\ Tool(c) # "related" =>
    \A h \in kept[c] : h.slot \notin since[c]

\* wake_up() brings k memories, if there are that many which no superseded
\* row hides, although recall() spends its places on superseded ones
\* (base.py:533).
WakeUpFinds ==
  \A c \in Calls : at[c] = "done" /\ Tool(c) = "wake_up" /\ Faulty = {} =>
    LET live == {s[2] : s \in Present \ Marked} \ {s[2] : s \in Marked}
    IN  Cardinality(kept[c]) >= Least(K(c), Cardinality(live))

=============================================================================
