--------------------------------- MODULE Shim ---------------------------------
(***************************************************************************)
(* The OpenClaw plugin (src/extensions/duckbot-memory/index.js): one MCP    *)
(* server, the child, shared by all the workers of a gateway, respawned     *)
(* when it exits, and the tools registered with each worker's api.          *)
(*                                                                         *)
(* The child and the StdioJsonRpc that talks to it have the number of their *)
(* spawn; the latest ones are _sharedChild and _sharedRpc.  JavaScript runs *)
(* from one await to the next without interruption.  What becomes of a      *)
(* request is StdioRpc's subject: here a handshake is answered or fails.    *)
(***************************************************************************)
EXTENDS Integers, Sequences, FiniteSets

CONSTANTS
  Workers,    \* the gateway workers that load the plugin
  Static,     \* staticTools
  Served,     \* the tools that tools/list reports
  MaxSpawns   \* bound: children

ASSUME SpawnsAssumption == MaxSpawns \in Nat \ {0}

Tools == Static \cup Served
Children == 1 .. MaxSpawns

VARIABLES
  worker,      \* each worker: out, in, stopped
  first,       \* the set with the worker that loaded the plugin first
  refs,        \* _refCount
  spawned,     \* the number of spawns
  child,       \* each child: none, up, ending (SIGTERM sent), gone, exited
  closed,      \* the connections that close() was called on
  hand,        \* handshake of each: none, initialize, list, done, failed
  timers,      \* respawns due in two seconds
  initialized, \* _initialized
  stopping,    \* _initiatingShutdown
  toolset,     \* _registeredToolSet
  deferred,    \* _deferredTools, the tools of one registration at a time
  reg,         \* reg[w][t]: the connection that w's tool t sends to, 0 for no tool
  forced       \* history: shutdown() or restart() of the diagnostic handle used

host == <<worker, first, refs>>
process == <<spawned, child, closed, hand, timers>>
tools == <<initialized, toolset, deferred, reg>>
vars == <<host, process, tools, stopping, forced>>

Init ==
  /\ worker = [w \in Workers |-> "out"]
  /\ first = {} /\ refs = 0
  /\ spawned = 0
  /\ child = [k \in Children |-> "none"]
  /\ closed = {}
  /\ hand = [k \in Children |-> "none"]
  /\ timers = 0
  /\ initialized = FALSE /\ stopping = FALSE
  /\ toolset = {}
  /\ deferred = <<>>
  /\ reg = [w \in Workers |-> [t \in Tools |-> 0]]
  /\ forced = FALSE

Pending(k) == hand[k] \in {"initialize", "list"}
\* The child has not exited as far as the plugin knows.
Alive(k) == child[k] \in {"up", "ending", "gone"}
Batch(w, ts) == [api |-> w, tools |-> ts]
Batches == [api : Workers, tools : SUBSET Tools]

-----------------------------------------------------------------------------
(* register(api) *)

\* spawnSharedChild, and the initialize request that follows it.
Spawn ==
  /\ spawned < MaxSpawns
  /\ spawned' = spawned + 1
  /\ child' = [child EXCEPT ![spawned + 1] = "up"]
  /\ hand' = [hand EXCEPT ![spawned + 1] = "initialize"]
  /\ UNCHANGED closed

\* registerTool for the static tools: deferred until a handshake is done.
Offer(w) ==
  IF initialized
    THEN /\ reg' = [reg EXCEPT ![w] = [t \in Tools |->
                      IF t \in Static \ toolset THEN spawned ELSE reg[w][t]]]
         /\ toolset' = toolset \cup Static
         /\ UNCHANGED deferred
    ELSE /\ deferred' = Append(deferred, Batch(w, Static \ toolset))
         /\ UNCHANGED <<reg, toolset>>

Load(w) ==
  /\ worker[w] = "out"
  /\ worker' = [worker EXCEPT ![w] = "in"]
  /\ refs' = refs + 1
  /\ IF spawned = 0
       THEN Spawn /\ first' = {w} /\ UNCHANGED timers
       ELSE UNCHANGED <<process, first>>
  /\ Offer(w)
  /\ UNCHANGED <<initialized, stopping, forced>>

-----------------------------------------------------------------------------
(* The handshakes. *)

\* The answer to initialize: tools/list is sent.
Initialized(k) ==
  /\ hand[k] = "initialize"
  /\ hand' = [hand EXCEPT ![k] = "list"]
  /\ UNCHANGED <<host, spawned, child, closed, timers, tools, stopping, forced>>

\* The first batch that has tool t.
Leads(q, i, t) == t \in q[i].tools /\ \A j \in 1 .. i - 1 : t \notin q[j].tools

\* Mutant of FirstListed: the queue is flushed before _initialized is set, and
\* registerTool defers it all again.
FlushedEarly ==
  /\ hand[1] = "list"
  /\ hand' = [hand EXCEPT ![1] = "done"]
  /\ initialized' = TRUE
  /\ deferred' = Append(deferred, Batch(CHOOSE w \in first : TRUE, Served \ toolset))
  /\ UNCHANGED <<host, spawned, child, closed, timers, reg, toolset, stopping, forced>>

\* The answer to the first tools/list: registerTool defers the served tools as
\* well; then the queue is flushed through registerTool.
FirstListed ==
  LET q == deferred \o <<Batch(CHOOSE w \in first : TRUE, Served \ toolset)>> IN
  /\ hand[1] = "list"
  /\ hand' = [hand EXCEPT ![1] = "done"]
  /\ initialized' = TRUE
  /\ deferred' = <<>>
  /\ reg' = [w \in Workers |-> [t \in Tools |->
       IF t \notin toolset /\ \E i \in 1 .. Len(q) : q[i].api = w /\ Leads(q, i, t)
         THEN spawned ELSE reg[w][t]]]
  /\ toolset' = toolset \cup Served \cup UNION {q[i].tools : i \in 1 .. Len(q)}
  /\ UNCHANGED <<host, spawned, child, closed, timers, stopping, forced>>

\* reinitializeShared: the served tools are noted as registered, and the queue
\* is flushed to the api, which refuses a name it has.
Relisted(k) ==
  /\ k > 1
  /\ hand[k] = "list"
  /\ hand' = [hand EXCEPT ![k] = "done"]
  /\ initialized' = TRUE
  /\ deferred' = <<>>
  /\ reg' = [w \in Workers |-> [t \in Tools |->
       IF reg[w][t] = 0 /\ \E i \in 1 .. Len(deferred) :
                             deferred[i].api = w /\ t \in deferred[i].tools
         THEN k ELSE reg[w][t]]]
  /\ toolset' = toolset \cup Served
  /\ UNCHANGED <<host, spawned, child, closed, timers, stopping, forced>>

\* A request of the handshake times out, or the server answers with an error:
\* the failure is logged and the handshake is not tried again.
HandshakeFails(k) ==
  /\ Pending(k)
  /\ hand' = [hand EXCEPT ![k] = "failed"]
  /\ UNCHANGED <<host, spawned, child, closed, timers, tools, stopping, forced>>

-----------------------------------------------------------------------------
(* The life of the child. *)

\* kill('SIGTERM') and _sharedRpc.close().
Kill ==
  /\ child' = [k \in Children |-> IF k = spawned /\ child[k] = "up" THEN "ending" ELSE child[k]]
  /\ closed' = closed \cup {spawned}
  /\ hand' = [k \in Children |-> IF k = spawned /\ Pending(k) THEN "failed" ELSE hand[k]]
  /\ UNCHANGED <<spawned, timers>>

\* The child ends: brain_restart, SIGTERM, a crash.  A child that was not told
\* to end does so only while the bound allows another.
Die(k) ==
  /\ \/ child[k] = "ending"
     \/ child[k] = "up" /\ spawned < MaxSpawns
  /\ child' = [child EXCEPT ![k] = "gone"]
  /\ UNCHANGED <<host, spawned, closed, hand, timers, tools, stopping, forced>>

\* Mutant of Exit: a child that never got ready is not replaced.
ExitIfReady(k) ==
  /\ child[k] = "gone"
  /\ child' = [child EXCEPT ![k] = "exited"]
  /\ hand' = [hand EXCEPT ![k] = IF Pending(k) THEN "failed" ELSE @]
  /\ timers' = IF stopping \/ ~initialized THEN timers ELSE timers + 1
  /\ UNCHANGED <<host, spawned, closed, tools, stopping, forced>>

\* The exit event: the pending requests are rejected, and a respawn is due
\* unless the plugin is shutting down.
Exit(k) ==
  /\ child[k] = "gone"
  /\ child' = [child EXCEPT ![k] = "exited"]
  /\ hand' = [hand EXCEPT ![k] = IF Pending(k) THEN "failed" ELSE @]
  /\ timers' = IF stopping THEN timers ELSE timers + 1
  /\ UNCHANGED <<host, spawned, closed, tools, stopping, forced>>

\* The timer fires, whatever has happened since.
Respawn ==
  /\ timers > 0
  /\ timers' = timers - 1
  /\ initialized' = FALSE
  /\ Spawn
  /\ UNCHANGED <<host, toolset, deferred, reg, stopping, forced>>

-----------------------------------------------------------------------------
(* Shutdown. *)

\* Mutant of Stop: the count is looked at before it is decremented.
StopTooSoon(w) ==
  /\ worker[w] = "in"
  /\ worker' = [worker EXCEPT ![w] = "stopped"]
  /\ refs' = refs - 1
  /\ IF refs > 2
       THEN UNCHANGED <<process, stopping>>
       ELSE stopping' = TRUE /\ Kill
  /\ UNCHANGED <<first, tools, forced>>

\* gateway_stop: the last worker takes the child with it.
Stop(w) ==
  /\ worker[w] = "in"
  /\ worker' = [worker EXCEPT ![w] = "stopped"]
  /\ refs' = refs - 1
  /\ IF refs > 1
       THEN UNCHANGED <<process, stopping>>
       ELSE stopping' = TRUE /\ Kill
  /\ UNCHANGED <<first, tools, forced>>

\* Mutant of Restart: the replacement is spawned without waiting for the exit.
RestartAtOnce ==
  /\ spawned > 0
  /\ Spawn
  /\ stopping' = FALSE /\ forced' = TRUE
  /\ UNCHANGED <<host, timers, tools>>

\* restart() of the handle on globalThis: the exit event respawns the child.
Restart ==
  /\ spawned > 0 /\ spawned < MaxSpawns
  /\ stopping' = FALSE /\ forced' = TRUE
  /\ Kill
  /\ UNCHANGED <<host, tools>>

\* shutdown() of the handle, "regardless of refcount".
Shutdown ==
  /\ spawned > 0
  /\ stopping' = TRUE /\ forced' = TRUE
  /\ refs' = 1
  /\ Kill
  /\ UNCHANGED <<worker, first, tools>>

-----------------------------------------------------------------------------

Plugin(k) == Exit(k) \/ Initialized(k) \/ Relisted(k)
Next ==
  \/ FirstListed \/ Respawn \/ Restart \/ Shutdown
  \/ \E w \in Workers : Load(w) \/ Stop(w)
  \/ \E k \in Children : Plugin(k) \/ HandshakeFails(k) \/ Die(k)

Spec == Init /\ [][Next]_vars

\* Events and timers are delivered, and a child told to end ends.
FairSpec ==
  /\ Spec
  /\ WF_vars(Respawn)
  /\ \A k \in Children : WF_vars(Exit(k)) /\ WF_vars(child[k] = "ending" /\ Die(k))

-----------------------------------------------------------------------------

\* Every variable has its type, and what has a number has been spawned.
TypeOK ==
  /\ worker \in [Workers -> {"out", "in", "stopped"}]
  /\ first \subseteq Workers
  /\ refs \in Int
  /\ spawned \in 0 .. MaxSpawns
  /\ child \in [Children -> {"none", "up", "ending", "gone", "exited"}]
  /\ closed \subseteq Children
  /\ hand \in [Children -> {"none", "initialize", "list", "done", "failed"}]
  /\ timers \in Nat
  /\ initialized \in BOOLEAN /\ stopping \in BOOLEAN /\ forced \in BOOLEAN
  /\ toolset \subseteq Tools
  /\ deferred \in Seq(Batches)
  /\ reg \in [Workers -> [Tools -> 0 .. spawned]]

\* A single server is shared by all workers: one child at most has not exited,
\* through crashes, restarts and shutdowns in any order.
OneChild == \A j, k \in Children : Alive(j) /\ Alive(k) => j = k

\* Tools are let through only to a child that has done its handshake.
ReadyIsReady == initialized => hand[spawned] = "done"

(* What they rest on. *)

\* Children are numbered as they are spawned, for a worker that has come in.
Numbered ==
  /\ \A k \in Children : child[k] = "none" <=> k > spawned
  /\ \A w \in Workers : worker[w] # "out" => spawned > 0
  /\ timers > 0 \/ initialized => spawned > 0
\* The latest child lives, or a respawn may be due, never both.
Successive ==
  /\ timers \in {0, 1}
  /\ \A k \in Children : Alive(k) => k = spawned /\ timers = 0
\* A handshake is under way with a living child only.
Handshaking == \A k \in Children : Pending(k) => Alive(k)

\* The inductive invariant behind OneChild and ReadyIsReady.
IndInv == TypeOK /\ Numbered /\ Successive /\ Handshaking /\ ReadyIsReady

\* Until the diagnostic handle is used, the reference count is the number of
\* workers in.
Counted ==
  LET in == {w \in Workers : worker[w] = "in"}
  IN  IsFiniteSet(in) /\ (~forced => refs = Cardinality(in))

\* What can be told of tools before the first handshake is done: none is
\* registered, and every worker that came in waits for the static ones, the
\* first worker first.
Waiting ==
  /\ toolset = {} /\ ~initialized
  /\ \A i \in 1 .. Len(deferred) : deferred[i].tools = Static
Toolsets ==
  /\ \A k \in Children : k > spawned => hand[k] = "none"
  /\ spawned = 0 => Waiting /\ deferred = <<>> /\ first = {}
  /\ spawned > 0 => \E w \in Workers : first = {w}
  /\ Pending(1) => Waiting /\ deferred # <<>> /\ first = {deferred[1].api}

\* Until the diagnostic handle is used, a child is told to end only by the last
\* worker that leaves.
NotKilledInUse ==
  [][~forced' /\ (\E k \in Children : child[k] = "up" /\ child'[k] = "ending")
       => \A w \in Workers : worker'[w] # "in"]_vars

\* Once the first handshake is done, the worker that loaded the plugin first has
\* every tool, static or served, whoever loads it meanwhile.
FirstHasTools ==
  hand[1] = "done" => \A w \in first, t \in Tools : reg[w][t] # 0

\* A child that exits is replaced, unless the plugin is shutting down.
Replaced == \A k \in Children : child[k] = "gone" ~> (spawned > k \/ stopping)

\* "The plugin shim respawns a new process automatically": once it is ready, the
\* tools that workers have reach it.
ToolsFollowRespawn ==
  initialized /\ child[spawned] = "up" =>
    \A w \in Workers, t \in Tools : reg[w][t] \in {0, spawned}
===============================================================================
