-------------------------------- MODULE Graph --------------------------------
(***************************************************************************)
(* The knowledge graph, src/graph.py: entities with aliases and facts, i.e. *)
(* active relationships, in one SQLite file that several processes use.     *)
(* A process runs a list of operations, those of one tool of                *)
(* src/connectors/base.py or of cognify() of src/entities.py; it reads      *)
(* outside a transaction and each write is one.  The two merges commit at   *)
(* their end only, and hold the write lock from their first change on: that *)
(* others may write between two of their changes is more than SQLite allows.*)
(*                                                                          *)
(* Ids are positions in the sequences.  There is one label.  No program     *)
(* deletes an entity or ends a relationship by its id, so neither is here.  *)
(***************************************************************************)
EXTENDS Naturals, Sequences, FiniteSets

CONSTANTS Clients,   \* processes, which run one tool after another
          Names,     \* of entities, and aliases
          Plans,     \* bound: sequences of jobs (see Program) that are
                     \* started in this order
          Nobody     \* no entity of that name

VARIABLES entities,   \* [name, aliases (the JSON), table (entity_aliases)]
          facts,      \* relationships: [from, to, made, active]
          stamps,     \* how many created_at were taken
          todo,       \* the jobs not yet started
          job,        \* client -> its job, or Nobody
          step,       \* client -> position in its program
          mid,        \* client -> the operation is half done
          held,       \* client -> what its last read returned
          ends,       \* client -> the entities found for the ends of a fact
          told,       \* history: <<name, name>> of the facts told
          raced       \* history: two processes were between reading and writing
                      \* aliases at a time

graphVars == <<entities, facts, stamps, todo, job, step, mid, held, ends, told, raced>>

\* A job is [tool, from, to, aliases]; its program, a sequence of operations.
Op(what, name, aliases, end) == [what |-> what, name |-> name, aliases |-> aliases, end |-> end]
Program(j) ==
  CASE j.tool = "tell" ->      \* graph_add_relationship()
         <<Op("upsert", j.from, {}, 1), Op("upsert", j.to, {}, 2), Op("edge", j.from, {}, 1)>>
    [] j.tool = "feed" ->      \* cognify() on an extracted text
         <<Op("missing", j.from, j.aliases, 1), Op("upsert", j.from, j.aliases, 1),
           Op("missing", j.to, {}, 2), Op("upsert", j.to, {}, 2),
           Op("find", j.from, {}, 1), Op("find", j.to, {}, 2),
           Op("fill", j.from, {}, 1), Op("fill", j.to, {}, 2), Op("edge", j.from, {}, 1)>>
    [] j.tool = "cognify" ->   \* graph_cognify(dry_run=False)
         <<Op("duplicates", j.from, {}, 1), Op("merge", j.from, {}, 1),
           Op("namesakes", j.from, {}, 1), Op("unlist", j.from, {}, 1)>>
    [] j.tool = "reconcile" -> <<Op("loops", j.from, {}, 1)>>

Ids == DOMAIN entities
Named(n) == {e \in Ids : entities[e].name = n}

\* _find_entity_by_name(): a row of that name, or of that alias.
Found(n) ==
  IF Named(n) # {} THEN Named(n)
  ELSE LET byAlias == {e \in Ids : n \in entities[e].table}
       IN  IF byAlias # {} THEN byAlias ELSE {Nobody}

Between(s, t) == {f \in DOMAIN facts : facts[f].active /\ facts[f].from = s /\ facts[f].to = t}
NamesOf(f)  == <<entities[facts[f].from].name, entities[facts[f].to].name>>
Told(n, m)  == {f \in DOMAIN facts : facts[f].active /\ NamesOf(f) = <<n, m>>}

Jobs == [tool : {"tell", "feed", "cognify", "reconcile"}, from : Names, to : Names,
         aliases : SUBSET Names]

Rows  == [name : Names, aliases : SUBSET Names, table : SUBSET Names]
Edges == [from : Nat, to : Nat, made : Nat, active : BOOLEAN]

GraphTypeOK ==
  /\ entities \in Seq(Rows) /\ facts \in Seq(Edges)
  /\ \A f \in DOMAIN facts : facts[f].from \in Ids /\ facts[f].to \in Ids
  /\ stamps \in Nat /\ told \subseteq Names \X Names /\ raced \in BOOLEAN
  /\ todo \in Seq(Jobs) /\ job \in [Clients -> Jobs \cup {Nobody}]
  /\ step \in [Clients -> Nat \ {0}] /\ mid \in [Clients -> BOOLEAN]
  /\ DOMAIN held = Clients /\ DOMAIN ends = Clients

GraphInit ==
  /\ entities = <<>> /\ facts = <<>> /\ stamps = 0 /\ told = {} /\ raced = FALSE
  /\ todo \in Plans
  /\ job = [c \in Clients |-> Nobody]
  /\ step = [c \in Clients |-> 1]
  /\ mid = [c \in Clients |-> FALSE]
  /\ held = [c \in Clients |-> {}]
  /\ ends = [c \in Clients |-> <<Nobody, Nobody>>]

-----------------------------------------------------------------------------
Now(c) == Program(job[c])[step[c]]
At(c, what) == /\ job[c] # Nobody /\ step[c] <= Len(Program(job[c])) /\ Now(c).what = what

Advance(c, n) == step' = [step EXCEPT ![c] = @ + n] /\ mid' = [mid EXCEPT ![c] = FALSE]
Halfway(c)    == mid' = [mid EXCEPT ![c] = TRUE] /\ UNCHANGED step
Bind(c, e)    == ends' = [ends EXCEPT ![c][Now(c).end] = e]

\* Someone has read aliases that it has yet to write.
Aliasing(c) == mid[c] /\ (At(c, "upsert") \/ At(c, "fill") \/ At(c, "unlist"))
Racing(c)   == raced \/ \E d \in Clients \ {c} : Aliasing(d)

\* An end that was not found is made; an alias found before may be lost again.
Upserts(c) == At(c, "upsert") \/ (At(c, "fill") /\ ends[c][Now(c).end] = Nobody)

Start(c) ==
  /\ job[c] # Nobody => step[c] > Len(Program(job[c]))
  /\ todo # <<>>
  /\ job' = [job EXCEPT ![c] = Head(todo)] /\ todo' = Tail(todo)
  /\ step' = [step EXCEPT ![c] = 1]
  /\ held' = [held EXCEPT ![c] = {}] /\ ends' = [ends EXCEPT ![c] = <<Nobody, Nobody>>]
  /\ UNCHANGED <<entities, facts, stamps, mid, told, raced>>

\* cognify() leaves an entity alone that is there, aliases and all.
Missing(c) ==
  /\ At(c, "missing")
  /\ \E e \in Found(Now(c).name) : Advance(c, IF e = Nobody THEN 1 ELSE 2)
  /\ UNCHANGED <<entities, facts, stamps, todo, job, held, ends, told, raced>>

Find(c) ==
  /\ At(c, "find")
  /\ \E e \in Found(Now(c).name) : Bind(c, e)
  /\ Advance(c, 1)
  /\ UNCHANGED <<entities, facts, stamps, todo, job, held, told, raced>>

Filled(c) ==
  /\ At(c, "fill") /\ ~ mid[c] /\ ends[c][Now(c).end] # Nobody
  /\ Advance(c, 1)
  /\ UNCHANGED <<entities, facts, stamps, todo, job, held, ends, told, raced>>

\* upsert_entity(): look for the name ...
UpsertFind(c) ==
  /\ Upserts(c) /\ ~ mid[c]
  /\ \E e \in Found(Now(c).name) :
       /\ Bind(c, e)
       /\ held' = [held EXCEPT ![c] = IF e = Nobody THEN {} ELSE entities[e].aliases]
  /\ Halfway(c) /\ raced' = Racing(c)
  /\ UNCHANGED <<entities, facts, stamps, todo, job, told>>

\* ... then a new row, or the aliases that were read and those given.
UpsertPut(c) ==
  /\ (At(c, "upsert") \/ At(c, "fill")) /\ mid[c]
  /\ LET e       == ends[c][Now(c).end]
         aliases == held[c] \cup Now(c).aliases
     IN  IF e = Nobody
           THEN /\ entities' = Append(entities, [name |-> Now(c).name, aliases |-> aliases,
                                                 table |-> aliases])
                /\ Bind(c, Len(entities) + 1)
           ELSE /\ entities' = [entities EXCEPT ![e].aliases = aliases, ![e].table = aliases]
                /\ UNCHANGED ends
  /\ Advance(c, 1)
  /\ UNCHANGED <<facts, stamps, todo, job, held, told, raced>>

\* add_relationship(): an active one between the two is the answer ...
EdgeLook(c) ==
  /\ At(c, "edge") /\ ~ mid[c]
  /\ IF Between(ends[c][1], ends[c][2]) # {}
       THEN /\ Advance(c, 1)
            /\ told' = told \cup {<<entities[ends[c][1]].name, entities[ends[c][2]].name>>}
            /\ UNCHANGED <<stamps, held>>
       ELSE /\ Halfway(c)
            /\ stamps' = stamps + 1 /\ held' = [held EXCEPT ![c] = {stamps}]
            /\ UNCHANGED told
  /\ UNCHANGED <<entities, facts, todo, job, ends, raced>>

\* ... or a new one is put in.
EdgeInsert(c) ==
  /\ At(c, "edge") /\ mid[c]
  /\ facts' = Append(facts, [from |-> ends[c][1], to |-> ends[c][2],
                             made |-> CHOOSE s \in held[c] : TRUE, active |-> TRUE])
  /\ told' = told \cup {<<entities[ends[c][1]].name, entities[ends[c][2]].name>>}
  /\ Advance(c, 1)
  /\ UNCHANGED <<entities, stamps, todo, job, held, ends, raced>>

-----------------------------------------------------------------------------
(* graph_cognify: duplicates of a fact, and aliases that are names.         *)

\* find_duplicate_relationships(), by the ids of the ends.
Duplicates(c) ==
  /\ At(c, "duplicates")
  /\ held' = [held EXCEPT ![c] = {NamesOf(f) : f \in {g \in DOMAIN facts : facts[g].active /\
                Cardinality(Between(facts[g].from, facts[g].to)) > 1}}]
  /\ Advance(c, 1)
  /\ UNCHANGED <<entities, facts, stamps, todo, job, ends, told, raced>>

\* Mutated form of ToEnd: rows[0:] for rows[1:].
ToEndAll(n, m) == IF Cardinality(Told(n, m)) < 2 THEN {} ELSE Told(n, m)

\* The active facts of these names but the oldest.
ToEnd(n, m) ==
  {f \in Told(n, m) : \E g \in Told(n, m) : facts[g].made < facts[f].made}

\* merge_duplicate_relationships(): of a pair of names, the rows are read ...
MergeRead(c) ==
  /\ At(c, "merge") /\ ~ mid[c]
  /\ IF held[c] = {}
       THEN Advance(c, 1) /\ UNCHANGED <<held, ends>>
       ELSE \E d \in held[c] :
              /\ held' = [held EXCEPT ![c] = @ \ {d}]
              /\ ends' = [ends EXCEPT ![c] = <<ToEnd(d[1], d[2]), Nobody>>]
              /\ Halfway(c)
  /\ UNCHANGED <<entities, facts, stamps, todo, job, told, raced>>

\* ... and ended by their ids.
MergeEnd(c) ==
  /\ At(c, "merge") /\ mid[c]
  /\ facts' = [f \in DOMAIN facts |->
                 IF f \in ends[c][1] THEN [facts[f] EXCEPT !.active = FALSE] ELSE facts[f]]
  /\ mid' = [mid EXCEPT ![c] = FALSE]
  /\ UNCHANGED <<entities, stamps, todo, job, step, held, ends, told, raced>>

\* find_duplicate_aliases()
Namesakes(c) ==
  /\ At(c, "namesakes")
  /\ held' = [held EXCEPT ![c] =
       {d \in {<<entities[e].name, {a \in entities[e].aliases : a # entities[e].name /\ Named(a) # {}}>> : e \in Ids} : d[2] # {}}]
  /\ Advance(c, 1)
  /\ UNCHANGED <<entities, facts, stamps, todo, job, ends, told, raced>>

\* merge_duplicate_aliases(): the aliases of one row of that name are read ...
UnlistRead(c) ==
  /\ At(c, "unlist") /\ ~ mid[c]
  /\ IF held[c] = {}
       THEN Advance(c, 1) /\ UNCHANGED <<held, ends, raced>>
       ELSE \E d \in held[c] : \E e \in Named(d[1]) :
              /\ held' = [held EXCEPT ![c] = @ \ {d}]
              /\ ends' = [ends EXCEPT ![c] = <<d[1], entities[e].aliases \ d[2]>>]
              /\ Halfway(c) /\ raced' = Racing(c)
  /\ UNCHANGED <<entities, facts, stamps, todo, job, told>>

\* ... and what is left goes to every row of that name, but not to the table.
UnlistWrite(c) ==
  /\ At(c, "unlist") /\ mid[c]
  /\ entities' = [e \in Ids |-> IF entities[e].name = ends[c][1]
                                  THEN [entities[e] EXCEPT !.aliases = ends[c][2]]
                                  ELSE entities[e]]
  /\ mid' = [mid EXCEPT ![c] = FALSE]
  /\ UNCHANGED <<facts, stamps, todo, job, step, held, ends, told, raced>>

\* reconcile(): facts about an entity and itself are deleted; there are no
\* orphans, because nothing deletes an entity.
Loops(c) ==
  /\ At(c, "loops")
  /\ facts' = [f \in DOMAIN facts |->
                 IF facts[f].from = facts[f].to THEN [facts[f] EXCEPT !.active = FALSE] ELSE facts[f]]
  /\ Advance(c, 1)
  /\ UNCHANGED <<entities, stamps, todo, job, held, ends, told, raced>>

GraphNext ==
  \E c \in Clients :
    \/ Start(c) \/ Missing(c) \/ Find(c) \/ Filled(c) \/ UpsertFind(c) \/ UpsertPut(c)
    \/ EdgeLook(c) \/ EdgeInsert(c)
    \/ Duplicates(c) \/ MergeRead(c) \/ MergeEnd(c)
    \/ Namesakes(c) \/ UnlistRead(c) \/ UnlistWrite(c) \/ Loops(c)

-----------------------------------------------------------------------------
(* Properties.                                                             *)

\* A fact that was told stays true in the graph, between entities of those
\* names, while processes that tell it at the same time make two of it, or
\* two entities of a name, and others merge what they find double, each from
\* what it read before (graph.py:484).
FactsKept == \A t \in told : t[1] # t[2] => Told(t[1], t[2]) # {}

\* As long as nobody changes aliases that another is about to change, a name
\* has one entity, and an alias that it lists leads to it (graph.py:207).
ListedAliasResolves ==
  ~ raced => \A e \in Ids : Named(entities[e].name) = {e} /\ entities[e].aliases \subseteq entities[e].table

\* What makes them so.  Of all facts between two names the oldest is never
\* ended, nor about to be, whatever else a merge has read (graph.py:488) ...
Outlived(f) ==
  \/ NamesOf(f)[1] = NamesOf(f)[2]
  \/ \E g \in DOMAIN facts : NamesOf(g) = NamesOf(f) /\ facts[g].made < facts[f].made
OldestStays ==
  /\ \A f \in DOMAIN facts : ~ facts[f].active => Outlived(f)
  /\ \A c \in Clients : At(c, "merge") /\ mid[c] =>
       \A f \in ends[c][1] : f \in DOMAIN facts /\ Outlived(f)
ToldIsMade == \A t \in told : \E f \in DOMAIN facts : NamesOf(f) = t

\* ... who makes a fact has found or made its ends, and has its stamp; who
\* changes aliases has read names ...
EndsAt(c) ==
  /\ job[c] # Nobody /\ job[c].tool \in {"tell", "feed"} =>
       LET first == IF job[c].tool = "tell" THEN 1 ELSE 7 IN
         /\ ends[c] \in (Ids \cup {Nobody}) \X (Ids \cup {Nobody})
         /\ step[c] > first => ends[c][1] \in Ids
         /\ step[c] > first + 1 => ends[c][2] \in Ids
  /\ mid[c] => job[c] # Nobody /\ step[c] <= Len(Program(job[c]))
  /\ At(c, "edge") /\ mid[c] => \E s \in 0 .. stamps : held[c] = {s}
  /\ Aliasing(c) => IF At(c, "unlist") THEN ends[c][2] \subseteq Names ELSE held[c] \subseteq Names
EndsAreThere == \A c \in Clients : EndsAt(c)

\* ... and who has read aliases without a race writes what is there.
ReadAt(c) ==
  IF At(c, "unlist") THEN \A e \in Named(ends[c][1]) : ends[c][2] \subseteq entities[e].aliases
  ELSE LET e == ends[c][Now(c).end] IN
         IF e = Nobody THEN Named(Now(c).name) = {} ELSE held[c] = entities[e].aliases
ReadIsThere ==
  ~ raced => \A c \in Clients : Aliasing(c) => ReadAt(c) /\ \A d \in Clients \ {c} : ~ Aliasing(d)
=============================================================================
