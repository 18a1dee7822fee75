------------------------------- MODULE Observer -------------------------------
(***************************************************************************)
(* src/observer.py: why something is known, traced backwards over the       *)
(* causal relationships of the graph, and the entities without a reason.    *)
(* Each looks at one entity after the other, by a query of its own, while   *)
(* other clients add and end relationships.                                 *)
(*                                                                          *)
(* Only relationships with a causal label are modelled.  Influence halves   *)
(* with each step, so that min_influence stands for a depth.  The survey    *)
(* reads all entities and tells all it finds; in the code it reads the      *)
(* first 1000 by name and tells 50.                                         *)
(***************************************************************************)
EXTENDS Naturals, Sequences, FiniteSets, SequencesExt

CONSTANTS Entities,
          Edges,       \* ids of relationships
          Webs,        \* bound: what the relationships may connect
          Root,        \* the entity that is asked about
          Depth,       \* max_depth
          MaxEnds      \* bound: changes by others

VARIABLES web,         \* relationship -> [from, to]
          live,        \* relationships that are valid
          past,        \* include_inactive
          floor,       \* the depth below which influence is too small
          looking,     \* where trace_precursors() is
          waiting,     \* queue: [entity, depth, via]
          known,       \* seen
          chain,       \* depth -> [entity, depth, via]
          coverage,    \* [of: immediate edges, with: those counted]
          unsurveyed,  \* entities find_blind_spots() has yet to look at
          spots,       \* entity -> its edges, if it is a blind spot
          changes

observerVars == <<web, live, past, floor, looking, waiting, known, chain, coverage, unsurveyed, spots, changes>>
surveyKept   == <<unsurveyed, spots>>

ObserverTypeOK ==
  /\ web \in [Edges -> [from : Entities, to : Entities]]
  /\ live \subseteq Edges /\ past \in BOOLEAN /\ floor \in 1 .. Depth
  /\ looking \in {"root", "trace", "sum", "done"}
  /\ \A i \in DOMAIN waiting : waiting[i] \in [entity : Entities, depth : 1 .. Depth, via : Edges]
  /\ known \subseteq Entities
  /\ \A d \in 1 .. Depth : chain[d] \subseteq [entity : Entities, depth : {d}, via : Edges]
  /\ coverage \in [of : Nat, with : Nat]
  /\ unsurveyed \subseteq Entities
  /\ spots \in [Entities -> Nat]
  /\ changes \in 0 .. MaxEnds

ObserverInit ==
  /\ web \in Webs /\ live = Edges
  /\ past \in BOOLEAN /\ floor \in 1 .. Depth
  /\ looking = "root" /\ waiting = <<>> /\ known = {}
  /\ chain = [d \in 1 .. Depth |-> {}]
  /\ coverage = [of |-> 0, with |-> 0]
  /\ unsurveyed = Entities /\ spots = [e \in Entities |-> 0]
  /\ changes = 0

-----------------------------------------------------------------------------
\* query_active() and history(), and of those the edges that lead to e.
Seen       == IF past THEN Edges ELSE live
Into(e)    == {r \in Seen : web[r].to = e}
OutOf(e)   == {r \in Seen : web[r].from = e}

\* The predecessors of e that were not met yet, each by the first edge in the
\* order of the query, as they join the queue.
Fresh(e, d) ==
  {[i \in DOMAIN s |-> [entity |-> web[s[i]].from, depth |-> d, via |-> s[i]]] :
     s \in UNION {SetToSeqs(S) : S \in
       {S \in SUBSET Into(e) :
          /\ {web[r].from : r \in S} = {web[r].from : r \in Into(e)} \ (known \cup {e})
          /\ \A r, q \in S : r # q => web[r].from # web[q].from}}}

Met(q) == known \cup {q[i].entity : i \in DOMAIN q}

\* The edges into the root are the first of the queue.
Seed ==
  /\ looking = "root"
  /\ \E q \in Fresh(Root, 1) :
       /\ waiting' = q
       /\ known' = Met(q) \cup {Root}
       /\ looking' = IF Into(Root) = {} THEN "done" ELSE "trace"
  /\ coverage' = [coverage EXCEPT !.of = Cardinality(Into(Root))]
  /\ UNCHANGED <<web, live, past, floor, chain, surveyKept, changes>>

\* Mutated form of Joined: the new ones are looked at first.
JoinedInFront(rest, q) == q \o rest

\* They join the queue at its end.
Joined(rest, q) == rest \o q

\* One turn of the search.
Follow ==
  /\ looking = "trace" /\ waiting # <<>>
  /\ LET n == Head(waiting) IN
     \/ n.depth > floor /\ waiting' = Tail(waiting) /\ UNCHANGED <<known, chain>>
     \/ /\ n.depth <= floor
        /\ chain' = [chain EXCEPT ![n.depth] = @ \cup {n}]
        /\ \/ n.depth = Depth /\ waiting' = Tail(waiting) /\ UNCHANGED known
           \/ n.depth < Depth /\ \E q \in Fresh(n.entity, n.depth + 1) :
                waiting' = Joined(Tail(waiting), q) /\ known' = Met(q)
  /\ UNCHANGED <<web, live, past, floor, looking, coverage, surveyKept, changes>>

Followed ==
  /\ looking = "trace" /\ waiting = <<>>
  /\ looking' = "sum"
  /\ UNCHANGED <<web, live, past, floor, waiting, known, chain, coverage, surveyKept, changes>>

\* The coverage: an edge counts if its node is in the chain, and the chain
\* has anything at depth 2.
Summarize ==
  /\ looking = "sum"
  /\ coverage' = [coverage EXCEPT !.with =
       IF Depth > 1 /\ chain[2] # {} THEN Cardinality(chain[1]) ELSE 0]
  /\ looking' = "done"
  /\ UNCHANGED <<web, live, past, floor, waiting, known, chain, surveyKept, changes>>

\* find_blind_spots(), one entity.
Survey ==
  /\ \E e \in unsurveyed :
       /\ unsurveyed' = unsurveyed \ {e}
       /\ spots' = [spots EXCEPT ![e] = IF Into(e) = {} THEN Cardinality(OutOf(e)) ELSE 0]
  /\ UNCHANGED <<web, live, past, floor, looking, waiting, known, chain, coverage, changes>>

\* Another client ends a relationship, or adds it again.
Change ==
  /\ changes < MaxEnds /\ changes' = changes + 1
  /\ \E r \in Edges : live' = IF r \in live THEN live \ {r} ELSE live \cup {r}
  /\ UNCHANGED <<web, past, floor, looking, waiting, known, chain, coverage, surveyKept>>

ObserverNext == Seed \/ Follow \/ Followed \/ Summarize \/ Survey \/ Change

-----------------------------------------------------------------------------
(* Properties.                                                             *)

\* Distance from the root: the entities d causal steps before it, no fewer.
Away[d \in 0 .. Depth] ==
  IF d = 0 THEN {Root}
  ELSE {web[r].from : r \in {r \in Seen : web[r].to \in Away[d - 1]}} \ UNION {Away[c] : c \in 0 .. d - 1}

\* A trace gives every entity at its least distance from the root, once, and
\* those of them that nothing leads to are the blind spots of the survey,
\* unless the graph changes meanwhile (observer.py:236).
TraceIsNearest ==
  looking = "done" /\ (past \/ changes = 0) =>
    /\ \A d \in 1 .. Depth : {n.entity : n \in chain[d]} = IF d <= floor THEN Away[d] ELSE {}
    /\ unsurveyed = {} /\ changes = 0 => \A d \in 1 .. Depth : \A n \in chain[d] :
         Into(n.entity) = {} => spots[n.entity] > 0

=============================================================================
