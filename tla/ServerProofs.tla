----------------------------- MODULE ServerProofs -----------------------------
(***************************************************************************)
(* Theorems about the two processes of MCServer, for any lines, tools,      *)
(* workers and limits.  Shim: one child at a time lives and is let tools    *)
(* through only after its handshake, it is not told to end while a worker   *)
(* is in, and the first worker gets every tool.  Server: the buckets keep   *)
(* their promises, a call is answered with its own id, and what a client    *)
(* sees is the service of Service.                                          *)
(***************************************************************************)
EXTENDS Shim, Server, SequenceTheorems, FiniteSetTheorems, TLAPS

-----------------------------------------------------------------------------
(* The plugin and its child.                                                *)

\* At first nothing is loaded or spawned.
LEMMA Start == Init => IndInv
<1> SUFFICES ASSUME Init PROVE IndInv
  OBVIOUS
<1>1. TypeOK
  <2>1. reg \in [Workers -> [Tools -> 0 .. spawned]]
    BY DEF Init
  <2>2. deferred \in Seq(Batches)
    BY EmptySeq DEF Init
  <2>3. initialized \in BOOLEAN /\ stopping \in BOOLEAN /\ forced \in BOOLEAN
    BY DEF Init
  <2> QED
    BY <2>1, <2>2, <2>3, SpawnsAssumption DEF Init, TypeOK
<1>2. Numbered /\ Successive /\ Handshaking /\ ReadyIsReady
  BY DEF Init, Numbered, Successive, Handshaking, ReadyIsReady, Children, Alive, Pending
<1> QED
  BY <1>1, <1>2 DEF IndInv

\* A spawn while nothing lives keeps what does not concern the tools.
LEMMA SpawnKeeps ==
  ASSUME IndInv, Spawn, \A k \in Children : ~Alive(k), timers' = 0, initialized' = FALSE,
         \A w \in Workers : worker'[w] # "out" => spawned' > 0
  PROVE  /\ spawned' \in 0 .. MaxSpawns
         /\ child' \in [Children -> {"none", "up", "ending", "gone", "exited"}]
         /\ closed' \subseteq Children
         /\ hand' \in [Children -> {"none", "initialize", "list", "done", "failed"}]
         /\ Numbered' /\ Successive' /\ Handshaking' /\ ReadyIsReady'
  BY SpawnsAssumption DEF IndInv, TypeOK, Spawn, Numbered, Successive, Handshaking, ReadyIsReady,
     Children, Alive, Pending

\* Telling the latest child to end keeps the invariant's parts on processes.
LEMMA KillKeeps ==
  ASSUME IndInv, Kill, spawned > 0, UNCHANGED initialized,
         \A w \in Workers : worker'[w] # "out" => worker[w] # "out"
  PROVE  /\ spawned' \in 0 .. MaxSpawns
         /\ child' \in [Children -> {"none", "up", "ending", "gone", "exited"}]
         /\ closed' \subseteq Children
         /\ hand' \in [Children -> {"none", "initialize", "list", "done", "failed"}]
         /\ timers' \in Nat
         /\ Numbered' /\ Successive' /\ Handshaking' /\ ReadyIsReady'
  BY SpawnsAssumption DEF IndInv, TypeOK, Kill, Numbered, Successive, Handshaking, ReadyIsReady,
     Children, Alive, Pending

\* Every step keeps the invariant.
LEMMA Step == IndInv /\ [Next]_vars => IndInv'
<1> SUFFICES ASSUME IndInv, [Next]_vars PROVE IndInv'
  OBVIOUS
<1> USE SpawnsAssumption
<1>1. ASSUME NEW w \in Workers, Load(w) PROVE IndInv'
  <2>1. CASE spawned = 0
    <3>0. Spawn /\ UNCHANGED <<timers, initialized>>
      BY <1>1, <2>1 DEF Load
    <3>1. Spawn /\ initialized = FALSE /\ timers = 0 /\ \A k \in Children : ~Alive(k)
      <4>1. initialized = FALSE /\ timers = 0
        BY <2>1 DEF IndInv, TypeOK, Numbered
      <4>2. \A k \in Children : ~Alive(k)
        BY <2>1 DEF IndInv, Numbered, Children, Alive
      <4> QED
        BY <3>0, <4>1, <4>2
    <3>2. timers' = 0 /\ initialized' = FALSE /\ spawned' > 0
      BY <2>1, <3>0, <3>1 DEF Spawn
    <3>3. /\ worker' \in [Workers -> {"out", "in", "stopped"}] /\ first' \subseteq Workers
          /\ refs' \in Int /\ stopping' \in BOOLEAN /\ forced' \in BOOLEAN
      BY <1>1, <2>1 DEF Load, IndInv, TypeOK
    <3>4. /\ toolset' \subseteq Tools
          /\ deferred' \in Seq(Batches)
          /\ reg' \in [Workers -> [Tools -> 0 .. spawned']]
      <4>1. deferred' = Append(deferred, Batch(w, Static \ toolset)) /\ UNCHANGED <<reg, toolset>>
        BY <1>1, <3>1 DEF Load, Offer
      <4>2. Batch(w, Static \ toolset) \in Batches
        BY DEF Batch, Batches, Tools
      <4>3. reg \in [Workers -> [Tools -> 0 .. spawned']]
        <5>1. spawned' = spawned + 1
          BY <3>1 DEF Spawn
        <5>2. 0 .. spawned \subseteq 0 .. spawned'
          BY <5>1, <2>1
        <5> QED
          BY <5>2 DEF IndInv, TypeOK
      <4> QED
        BY <4>1, <4>2, <4>3 DEF IndInv, TypeOK
    <3> QED
      BY <3>1, <3>2, <3>3, <3>4, SpawnKeeps DEF IndInv, TypeOK
  <2>2. CASE spawned # 0
    <3>1. UNCHANGED <<process, first, initialized, stopping, forced>>
      BY <1>1, <2>2 DEF Load
    <3>2. worker' \in [Workers -> {"out", "in", "stopped"}] /\ refs' \in Int
      BY <1>1 DEF Load, IndInv, TypeOK
    <3>3. /\ toolset' \subseteq Tools
          /\ deferred' \in Seq(Batches)
          /\ reg' \in [Workers -> [Tools -> 0 .. spawned]]
      <4>1. CASE initialized
        <5>1. /\ reg' = [reg EXCEPT ![w] = [t \in Tools |->
                           IF t \in Static \ toolset THEN spawned ELSE reg[w][t]]]
              /\ toolset' = toolset \cup Static
              /\ UNCHANGED deferred
          BY <1>1, <4>1 DEF Load, Offer
        <5>2. spawned \in 0 .. spawned
          BY DEF IndInv, TypeOK
        <5> QED
          BY <5>1, <5>2 DEF IndInv, TypeOK, Tools
      <4>2. CASE ~initialized
        <5>1. /\ deferred' = Append(deferred, Batch(w, Static \ toolset))
              /\ UNCHANGED <<reg, toolset>>
          BY <1>1, <4>2 DEF Load, Offer
        <5>2. Batch(w, Static \ toolset) \in Batches
          BY DEF Batch, Batches, Tools
        <5> QED
          BY <5>1, <5>2 DEF IndInv, TypeOK
      <4> QED
        BY <4>1, <4>2
    <3>4. spawned > 0
      BY <2>2 DEF IndInv, TypeOK
    <3> QED
      BY <3>1, <3>2, <3>3, <3>4 DEF IndInv, TypeOK, process, Numbered, Successive, Handshaking,
         ReadyIsReady, Alive, Pending
  <2> QED
    BY <2>1, <2>2
<1>2. ASSUME NEW k \in Children, Initialized(k) PROVE IndInv'
  BY <1>2 DEF Initialized, IndInv, TypeOK, host, tools, Numbered, Successive, Handshaking,
     ReadyIsReady, Children, Alive, Pending
<1>3. ASSUME FirstListed PROVE IndInv'
  <2>1. hand[1] = "list" /\ 1 \in Children
    BY <1>3 DEF FirstListed, Children
  <2>2. spawned = 1
    BY <2>1 DEF IndInv, Handshaking, Successive, Pending
  <2>3. /\ hand' = [hand EXCEPT ![1] = "done"]
        /\ initialized' = TRUE /\ deferred' = <<>>
        /\ UNCHANGED <<host, spawned, child, closed, timers, stopping, forced>>
    BY <1>3 DEF FirstListed
  <2>4. reg' \in [Workers -> [Tools -> 0 .. spawned]]
    <3> DEFINE q == deferred \o <<Batch(CHOOSE w \in first : TRUE, Served \ toolset)>>
               won(w, t) == t \notin toolset /\ \E i \in 1 .. Len(q) : q[i].api = w /\ Leads(q, i, t)
    <3>1. reg' = [w \in Workers |-> [t \in Tools |-> IF won(w, t) THEN spawned ELSE reg[w][t]]]
      BY <1>3 DEF FirstListed
    <3> HIDE DEF won
    <3> QED
      BY <3>1, <2>2 DEF IndInv, TypeOK
  <2>5. toolset' \subseteq Tools
    <3> DEFINE b == Batch(CHOOSE w \in first : TRUE, Served \ toolset)
               q == deferred \o <<b>>
    <3>1. toolset' = toolset \cup Served \cup UNION {q[i].tools : i \in 1 .. Len(q)}
      BY <1>3 DEF FirstListed
    <3>2. \A i \in 1 .. Len(q) : q[i].tools \subseteq Tools
      <4>1. b.tools \subseteq Tools
        BY DEF Batch, Batches, Tools
      <4>3. deferred \in Seq(Batches)
        BY DEF IndInv, TypeOK
      <4>2. \A i \in 1 .. Len(deferred) : deferred[i].tools \subseteq Tools
        <5>1. \A i \in 1 .. Len(deferred) : deferred[i] \in Batches
          BY <4>3
        <5> QED
          BY <5>1 DEF Batches
      <4> HIDE DEF b
      <4>4. /\ Len(q) = Len(deferred) + 1
            /\ \A i \in 1 .. Len(q) : q[i] = IF i <= Len(deferred) THEN deferred[i] ELSE b
        BY <4>3
      <4> QED
        BY <4>1, <4>2, <4>3, <4>4
    <3> HIDE DEF q
    <3> QED
      BY <3>1, <3>2 DEF IndInv, TypeOK, Tools
  <2> QED
    BY <2>1, <2>2, <2>3, <2>4, <2>5 DEF IndInv, TypeOK, host, Numbered, Successive, Handshaking,
       ReadyIsReady, Children, Alive, Pending
<1>4. ASSUME NEW k \in Children, Relisted(k) PROVE IndInv'
  <2>1. k = spawned
    BY <1>4 DEF Relisted, IndInv, Handshaking, Successive, Pending
  <2>2. /\ hand' = [hand EXCEPT ![k] = "done"]
        /\ initialized' = TRUE /\ deferred' = <<>> /\ toolset' = toolset \cup Served
        /\ UNCHANGED <<host, spawned, child, closed, timers, stopping, forced>>
    BY <1>4 DEF Relisted
  <2>3. reg' \in [Workers -> [Tools -> 0 .. spawned]]
    <3> DEFINE due(w, t) == reg[w][t] = 0 /\ \E i \in 1 .. Len(deferred) :
                              deferred[i].api = w /\ t \in deferred[i].tools
    <3>1. reg' = [w \in Workers |-> [t \in Tools |-> IF due(w, t) THEN k ELSE reg[w][t]]]
      BY <1>4 DEF Relisted
    <3> HIDE DEF due
    <3> QED
      BY <3>1, <2>1 DEF IndInv, TypeOK
  <2>4. TypeOK'
    <3>1. deferred' \in Seq(Batches) /\ toolset' \subseteq Tools
      BY <2>2, EmptySeq DEF IndInv, TypeOK, Tools
    <3>2. hand' \in [Children -> {"none", "initialize", "list", "done", "failed"}]
      BY <2>2 DEF IndInv, TypeOK
    <3> QED
      BY <2>2, <2>3, <3>1, <3>2 DEF IndInv, TypeOK, host
  <2>5. child[k] # "none" /\ spawned > 0
    BY <1>4, <2>1 DEF Relisted, IndInv, Handshaking, Pending, Alive, Children
  <2>6. Numbered' /\ Successive' /\ Handshaking' /\ ReadyIsReady'
    BY <2>1, <2>2, <2>5 DEF IndInv, TypeOK, host, Numbered, Successive, Handshaking,
       ReadyIsReady, Children, Alive, Pending
  <2> QED
    BY <2>4, <2>6 DEF IndInv
<1>5. ASSUME NEW k \in Children, HandshakeFails(k) PROVE IndInv'
  BY <1>5 DEF HandshakeFails, IndInv, TypeOK, host, tools, Numbered, Successive, Handshaking,
     ReadyIsReady, Children, Alive, Pending
<1>6. ASSUME NEW k \in Children, Die(k) PROVE IndInv'
  BY <1>6 DEF Die, IndInv, TypeOK, host, tools, Numbered, Successive, Handshaking,
     ReadyIsReady, Children, Alive, Pending
<1>7. ASSUME NEW k \in Children, Exit(k) PROVE IndInv'
  <2>1. k = spawned /\ timers = 0
    BY <1>7 DEF Exit, IndInv, Successive, Alive
  <2>2. timers' \in {0, 1}
    BY <1>7, <2>1 DEF Exit
  <2> QED
    BY <1>7, <2>1, <2>2 DEF Exit, IndInv, TypeOK, host, tools, Numbered, Successive, Handshaking,
       ReadyIsReady, Children, Alive, Pending
<1>8. ASSUME Respawn PROVE IndInv'
  <2>1. timers = 1 /\ \A k \in Children : ~Alive(k)
    BY <1>8 DEF Respawn, IndInv, Successive
  <2>2. /\ Spawn /\ timers' = 0 /\ initialized' = FALSE
        /\ UNCHANGED <<host, toolset, deferred, reg, stopping, forced>>
    BY <1>8, <2>1 DEF Respawn
  <2>3. spawned' = spawned + 1 /\ spawned \in Nat
    BY <2>2 DEF Spawn, IndInv, TypeOK
  <2>4. reg' \in [Workers -> [Tools -> 0 .. spawned']]
    <3>1. 0 .. spawned \subseteq 0 .. spawned'
      BY <2>3
    <3> QED
      BY <2>2, <3>1 DEF IndInv, TypeOK
  <2>5. \A w \in Workers : worker'[w] # "out" => spawned' > 0
    BY <2>2, <2>3 DEF host
  <2>6. /\ spawned' \in 0 .. MaxSpawns
        /\ child' \in [Children -> {"none", "up", "ending", "gone", "exited"}]
        /\ closed' \subseteq Children
        /\ hand' \in [Children -> {"none", "initialize", "list", "done", "failed"}]
        /\ Numbered' /\ Successive' /\ Handshaking' /\ ReadyIsReady'
    BY <2>1, <2>2, <2>5, SpawnKeeps
  <2> QED
    BY <2>2, <2>4, <2>6 DEF IndInv, TypeOK, host
<1>9. ASSUME NEW w \in Workers, Stop(w) PROVE IndInv'
  <2>1. /\ worker' \in [Workers -> {"out", "in", "stopped"}] /\ refs' \in Int
        /\ \A v \in Workers : worker'[v] # "out" => worker[v] # "out"
        /\ UNCHANGED <<first, tools, forced>>
    BY <1>9 DEF Stop, IndInv, TypeOK
  <2>2. CASE UNCHANGED <<process, stopping>>
    BY <2>1, <2>2 DEF IndInv, TypeOK, tools, process, Numbered, Successive, Handshaking,
       ReadyIsReady, Alive, Pending
  <2>3. CASE stopping' = TRUE /\ Kill
    <3>1. spawned > 0
      BY <1>9 DEF Stop, IndInv, Numbered
    <3>2. UNCHANGED spawned
      BY <2>3 DEF Kill
    <3> QED
      BY <2>1, <2>3, <3>1, <3>2, KillKeeps DEF IndInv, TypeOK, tools
  <2> QED
    BY <1>9, <2>2, <2>3 DEF Stop
<1>10. ASSUME Restart \/ Shutdown PROVE IndInv'
  <2>1. /\ Kill /\ spawned > 0 /\ UNCHANGED <<worker, first, tools>>
        /\ refs' \in Int /\ stopping' \in BOOLEAN /\ forced' \in BOOLEAN
    <3>1. CASE Restart
      BY <3>1 DEF Restart, IndInv, TypeOK, host
    <3>2. CASE Shutdown
      BY <3>2 DEF Shutdown, IndInv, TypeOK
    <3> QED
      BY <1>10, <3>1, <3>2
  <2>2. UNCHANGED spawned
    BY <2>1 DEF Kill
  <2> QED
    BY <2>1, <2>2, KillKeeps DEF IndInv, TypeOK, tools
<1>11. CASE UNCHANGED vars
  BY <1>11 DEF vars, host, process, tools, IndInv, TypeOK, Numbered, Successive, Handshaking,
     ReadyIsReady, Alive, Pending
<1> QED
  BY <1>1, <1>2, <1>3, <1>4, <1>5, <1>6, <1>7, <1>8, <1>9, <1>10, <1>11 DEF Next, Plugin

\* The invariant holds in every history of the plugin.
THEOREM Invariance == Spec => []IndInv
  BY Start, Step, PTL DEF Spec

\* For any workers, tools and number of children, every variable has its type:
\* a tool is tied to a connection that exists, and close() to a spawned child.
THEOREM TypeCorrect == Spec => []TypeOK
<1>1. IndInv => TypeOK
  BY DEF IndInv
<1> QED
  BY Invariance, <1>1, PTL

\* Whatever crashes, restarts and shutdowns there are, and however they overlap
\* with respawns that are due, two children never live at once.
THEOREM OneChildAlways == Spec => []OneChild
<1>1. IndInv => OneChild
  BY DEF IndInv, Successive, OneChild
<1> QED
  BY Invariance, <1>1, PTL

\* Tool calls are let through only while the latest child has done its handshake.
THEOREM ReadyAlways == Spec => []ReadyIsReady
<1>1. IndInv => ReadyIsReady
  BY DEF IndInv
<1> QED
  BY Invariance, <1>1, PTL

-----------------------------------------------------------------------------
(* The reference count.                                                     *)

In == {w \in Workers : worker[w] = "in"}

\* A step changes the count with the workers, or is one of the handle.
LEMMA CountedStep == IndInv /\ Counted /\ [Next]_vars => Counted'
<1> SUFFICES ASSUME IndInv, Counted, [Next]_vars PROVE Counted'
  OBVIOUS
<1>0. /\ IsFiniteSet(In) /\ (~forced => refs = Cardinality(In))
      /\ worker \in [Workers -> {"out", "in", "stopped"}]
  BY DEF Counted, In, IndInv, TypeOK
<1>1. ASSUME NEW w \in Workers, Load(w) PROVE Counted'
  <2>1. /\ w \notin In /\ In' = In \cup {w} /\ refs' = refs + 1 /\ forced' = forced
    BY <1>0, <1>1 DEF Load, In
  <2>2. IsFiniteSet(In \cup {w}) /\ Cardinality(In \cup {w}) = Cardinality(In) + 1
    BY <1>0, <2>1, FS_AddElement
  <2> QED
    BY <1>0, <2>1, <2>2 DEF Counted, In
<1>2. ASSUME NEW w \in Workers, Stop(w) PROVE Counted'
  <2>1. /\ w \in In /\ In' = In \ {w} /\ refs' = refs - 1 /\ forced' = forced
    BY <1>0, <1>2 DEF Stop, In
  <2>2. IsFiniteSet(In \ {w}) /\ Cardinality(In \ {w}) = Cardinality(In) - 1
    BY <1>0, <2>1, FS_RemoveElement
  <2> QED
    BY <1>0, <2>1, <2>2 DEF Counted, In
<1>3. CASE UNCHANGED <<worker, refs, forced>>
  BY <1>0, <1>3 DEF Counted, In
<1>4. CASE UNCHANGED worker /\ forced'
  BY <1>0, <1>4 DEF Counted, In
<1> QED
  BY <1>1, <1>2, <1>3, <1>4 DEF Next, Plugin, vars, host, Initialized, FirstListed, Relisted,
     HandshakeFails, Die, Exit, Respawn, Restart, Shutdown

\* It holds in every behaviour.
LEMMA CountedAlways == Spec => []Counted
<1>1. Init => Counted
  <2> SUFFICES ASSUME Init PROVE Counted
    OBVIOUS
  <2>1. In = {} /\ refs = 0
    BY DEF Init, In
  <2> QED
    BY <2>1, FS_EmptySet DEF Counted, In
<1> QED
  BY <1>1, CountedStep, Invariance, PTL DEF Spec

\* gateway_stop of a worker leaves the child to the others (index.js:399): it is
\* told to end only when none of them is in, unless the handle was used.
THEOREM NotKilledInUseAlways == Spec => NotKilledInUse
<1>1. ASSUME IndInv, Counted, [Next]_vars
      PROVE  [~forced' /\ (\E k \in Children : child[k] = "up" /\ child'[k] = "ending")
                => \A w \in Workers : worker'[w] # "in"]_vars
  <2> SUFFICES ASSUME Next, ~forced', NEW k \in Children, child[k] = "up", child'[k] = "ending"
               PROVE  \A w \in Workers : worker'[w] # "in"
    BY <1>1
  <2>0. /\ IsFiniteSet(In) /\ (~forced => refs = Cardinality(In))
        /\ worker \in [Workers -> {"out", "in", "stopped"}]
        /\ child \in [Children -> {"none", "up", "ending", "gone", "exited"}]
        /\ spawned \in 0 .. MaxSpawns
    BY <1>1 DEF Counted, In, IndInv, TypeOK
  <2>1. ASSUME NEW w \in Workers, Stop(w) PROVE \A v \in Workers : worker'[v] # "in"
    <3>1. ~(refs > 1) /\ ~forced /\ w \in In /\ In' = In \ {w}
      BY <2>0, <2>1 DEF Stop, process, In
    <3>2. Cardinality(In) <= 1 /\ Cardinality(In) \in Nat
      BY <2>0, <3>1, FS_CardinalityType
    <3>3. Cardinality(In \ {w}) = Cardinality(In) - 1 /\ IsFiniteSet(In \ {w})
      BY <2>0, <3>1, FS_RemoveElement
    <3>4. Cardinality(In \ {w}) \in Nat
      BY <3>3, FS_CardinalityType
    <3>5. In \ {w} = {}
      BY <3>2, <3>3, <3>4, FS_EmptySet
    <3> QED
      BY <3>1, <3>5 DEF In
  <2>2. ASSUME NEW w \in Workers, Load(w) PROVE FALSE
    BY <2>0, <2>2, SpawnsAssumption DEF Load, Spawn, process, Children
  <2>3. ~Restart /\ ~Shutdown
    BY DEF Restart, Shutdown
  <2>4. ~Respawn
    BY <2>0, SpawnsAssumption DEF Respawn, Spawn, Children
  <2>5. ASSUME NEW j \in Children, Die(j) \/ Exit(j) PROVE FALSE
    BY <2>0, <2>5 DEF Die, Exit
  <2>6. ASSUME NEW j \in Children, FirstListed \/ Initialized(j) \/ Relisted(j) \/ HandshakeFails(j)
        PROVE  FALSE
    BY <2>6 DEF FirstListed, Initialized, Relisted, HandshakeFails
  <2>7. 1 \in Children
    BY SpawnsAssumption DEF Children
  <2> QED
    BY <2>1, <2>2, <2>3, <2>4, <2>5, <2>6, <2>7 DEF Next, Plugin
<1> QED
  BY <1>1, Invariance, CountedAlways, PTL DEF Spec, NotKilledInUse

-----------------------------------------------------------------------------
(* The tools of the first worker.                                           *)

\* What the first handshake registers: the first worker's static tools come
\* first in the queue, and no other batch has one that is served only.
LEMMA FlushFirst ==
  ASSUME IndInv, Toolsets, FirstListed
  PROVE  \A w \in first, t \in Tools : reg'[w][t] # 0
<1> DEFINE b == Batch(CHOOSE w \in first : TRUE, Served \ toolset)
           q == deferred \o <<b>>
<1>1. hand[1] = "list" /\ 1 \in Children /\ spawned > 0
  BY SpawnsAssumption DEF FirstListed, Children, IndInv, Handshaking, Pending, Alive, Successive
<1>2. /\ toolset = {} /\ deferred # <<>> /\ first = {deferred[1].api}
      /\ \A i \in 1 .. Len(deferred) : deferred[i].tools = Static
  BY <1>1 DEF Toolsets, Waiting, Pending
<1>3. deferred \in Seq(Batches) /\ Len(deferred) \in Nat /\ Len(deferred) >= 1
  BY <1>2, EmptySeq, LenProperties DEF IndInv, TypeOK
<1>4. /\ Len(q) = Len(deferred) + 1
      /\ \A i \in 1 .. Len(q) : q[i] = IF i <= Len(deferred) THEN deferred[i] ELSE b
  <2> HIDE DEF b
  <2> QED
    BY <1>3
<1>5. b.api = deferred[1].api /\ b.tools = Served
  BY <1>2 DEF Batch
<1> HIDE DEF b, q
<1> SUFFICES ASSUME NEW w \in first, NEW t \in Tools PROVE reg'[w][t] # 0
  OBVIOUS
<1>6. w = deferred[1].api /\ w \in Workers
  <2>1. deferred[1] \in Batches
    BY <1>3
  <2> QED
    BY <1>2, <2>1 DEF Batches
<1>7. \E i \in 1 .. Len(q) : q[i].api = w /\ Leads(q, i, t)
  <2>1. CASE t \in Static
    <3>1. 1 \in 1 .. Len(q) /\ q[1] = deferred[1]
      BY <1>3, <1>4
    <3> QED
      BY <1>2, <1>3, <1>6, <2>1, <3>1 DEF Leads
  <2>2. CASE t \notin Static
    <3>1. t \in Served
      BY <2>2 DEF Tools
    <3>2. Len(q) \in 1 .. Len(q) /\ q[Len(q)] = b
      BY <1>3, <1>4
    <3>3. \A j \in 1 .. Len(q) - 1 : t \notin q[j].tools
      BY <1>2, <1>3, <1>4, <2>2
    <3> QED
      BY <1>5, <1>6, <3>1, <3>2, <3>3 DEF Leads
  <2> QED
    BY <2>1, <2>2
<1>8. reg'[w][t] = spawned
  <2> DEFINE won(v, u) == u \notin toolset /\ \E i \in 1 .. Len(q) : q[i].api = v /\ Leads(q, i, u)
  <2>1. reg' = [v \in Workers |-> [u \in Tools |-> IF won(v, u) THEN spawned ELSE reg[v][u]]]
    BY DEF FirstListed, q, b
  <2>2. won(w, t)
    BY <1>2, <1>7
  <2> HIDE DEF won
  <2> QED
    BY <1>6, <2>1, <2>2
<1> QED
  BY <1>1, <1>8

\* A step of the shim keeps the order of the tool lists, of the first too.
LEMMA ToolsetsStep == IndInv /\ Toolsets /\ FirstHasTools /\ [Next]_vars => (Toolsets /\ FirstHasTools)'
<1> SUFFICES ASSUME IndInv, Toolsets, FirstHasTools, [Next]_vars PROVE Toolsets' /\ FirstHasTools'
  OBVIOUS
<1>0. /\ 1 \in Children /\ spawned \in 0 .. MaxSpawns /\ MaxSpawns \in Nat
      /\ hand \in [Children -> {"none", "initialize", "list", "done", "failed"}]
      /\ deferred \in Seq(Batches) /\ first \subseteq Workers
      /\ reg \in [Workers -> [Tools -> 0 .. spawned]]
  BY SpawnsAssumption DEF Children, IndInv, TypeOK
<1>1. ASSUME NEW w \in Workers, Load(w) PROVE Toolsets' /\ FirstHasTools'
  <2>1. CASE spawned = 0
    <3>1. /\ spawned' = 1 /\ hand' = [hand EXCEPT ![1] = "initialize"] /\ first' = {w}
          /\ UNCHANGED <<initialized, toolset>> /\ ~initialized
          /\ deferred' = Append(deferred, Batch(w, Static \ toolset))
      BY <1>0, <1>1, <2>1 DEF Load, Spawn, Offer, Toolsets, Waiting
    <3>2. toolset = {} /\ deferred = <<>>
      BY <2>1 DEF Toolsets, Waiting
    <3>3. deferred' = <<Batch(w, Static)>>
      BY <3>1, <3>2
    <3>4. Waiting' /\ deferred' # <<>> /\ first' = {deferred'[1].api}
      BY <3>1, <3>2, <3>3 DEF Waiting, Batch
    <3>5. \A k \in Children : k > spawned' => hand'[k] = "none"
      BY <1>0, <2>1, <3>1 DEF Toolsets, Children
    <3>6. hand'[1] = "initialize" /\ \E v \in Workers : first' = {v}
      BY <1>0, <3>1
    <3>7. Toolsets'
      <4>1. ~(spawned' = 0) /\ (spawned' > 0 => \E v \in Workers : first' = {v})
        BY <3>1, <3>6
      <4> QED
        BY <3>4, <3>5, <4>1 DEF Toolsets
    <3>8. FirstHasTools'
      BY <3>6 DEF FirstHasTools
    <3> QED
      BY <3>7, <3>8
  <2>2. CASE spawned # 0
    <3>1. UNCHANGED <<spawned, hand, first, initialized>>
      BY <1>1, <2>2 DEF Load, process
    <3>2. CASE initialized
      <4>1. /\ UNCHANGED <<deferred>>
            /\ reg' = [reg EXCEPT ![w] = [t \in Tools |->
                         IF t \in Static \ toolset THEN spawned ELSE reg[w][t]]]
        BY <1>1, <3>2 DEF Load, Offer
      <4>2. ~Pending(1)
        BY <3>2 DEF Toolsets, Waiting
      <4>3. \A v \in Workers, t \in Tools : reg[v][t] # 0 => reg'[v][t] # 0
        BY <1>0, <2>2, <4>1
      <4>4. Toolsets'
        BY <2>2, <3>1, <4>2 DEF Toolsets, Pending
      <4>5. FirstHasTools'
        BY <1>0, <3>1, <4>3 DEF FirstHasTools
      <4> QED
        BY <4>4, <4>5
    <3>3. CASE ~initialized
      <4>1. /\ UNCHANGED <<reg, toolset>>
            /\ deferred' = Append(deferred, Batch(w, Static \ toolset))
        BY <1>1, <3>3 DEF Load, Offer
      <4>2. ASSUME Pending(1) PROVE Waiting' /\ deferred' # <<>> /\ deferred'[1] = deferred[1]
        <5>1. toolset = {} /\ deferred # <<>> /\ \A i \in 1 .. Len(deferred) : deferred[i].tools = Static
          BY <4>2 DEF Toolsets, Waiting
        <5>2. Batch(w, Static).tools = Static /\ Static \ toolset = Static
          BY <5>1 DEF Batch
        <5>3. Len(deferred) \in Nat /\ Len(deferred) >= 1
          BY <1>0, <5>1, EmptySeq, LenProperties
        <5>6. Batch(w, Static) \in Batches
          BY DEF Batch, Batches, Tools
        <5>4. /\ Len(deferred') = Len(deferred) + 1
              /\ \A i \in 1 .. Len(deferred) : deferred'[i] = deferred[i]
              /\ deferred'[Len(deferred) + 1] = Batch(w, Static)
          <6>1. deferred' = Append(deferred, Batch(w, Static))
            BY <4>1, <5>2
          <6> QED
            BY <1>0, <5>6, <6>1
        <5>5. \A i \in 1 .. Len(deferred') : deferred'[i].tools = Static
          BY <5>1, <5>2, <5>3, <5>4
        <5> QED
          BY <3>1, <3>3, <4>1, <5>1, <5>3, <5>4, <5>5 DEF Waiting
      <4>3. Toolsets'
        BY <2>2, <3>1, <4>2 DEF Toolsets, Pending
      <4>4. FirstHasTools'
        BY <3>1, <4>1 DEF FirstHasTools
      <4> QED
        BY <4>3, <4>4
    <3> QED
      BY <3>2, <3>3
  <2> QED
    BY <2>1, <2>2
<1>2. CASE FirstListed
  <2>1. \A w \in first, t \in Tools : reg'[w][t] # 0
    BY <1>2, FlushFirst
  <2>2. /\ hand[1] = "list" /\ hand' = [hand EXCEPT ![1] = "done"]
        /\ UNCHANGED <<first, spawned>>
    BY <1>2 DEF FirstListed, host
  <2>3. spawned > 0
    BY <1>0, <2>2 DEF IndInv, Handshaking, Pending, Alive, Successive
  <2> QED
    BY <1>0, <2>1, <2>2, <2>3 DEF Toolsets, FirstHasTools, Pending
<1>3. ASSUME NEW k \in Children, Relisted(k) PROVE Toolsets' /\ FirstHasTools'
  <2>1. k > 1 /\ hand' = [hand EXCEPT ![k] = "done"] /\ UNCHANGED <<first, spawned>> /\ k = spawned
    BY <1>3 DEF Relisted, host, IndInv, Handshaking, Pending, Successive
  <2>2. ~Pending(1)
    BY <1>0, <2>1 DEF IndInv, Handshaking, Successive, Children
  <2>3. \A w \in Workers, t \in Tools : reg[w][t] # 0 => reg'[w][t] # 0
    <3> DEFINE due(w, t) == reg[w][t] = 0 /\ \E i \in 1 .. Len(deferred) :
                              deferred[i].api = w /\ t \in deferred[i].tools
    <3>1. reg' = [w \in Workers |-> [t \in Tools |-> IF due(w, t) THEN k ELSE reg[w][t]]]
      BY <1>3 DEF Relisted
    <3>2. k # 0
      BY <2>1
    <3> HIDE DEF due
    <3> QED
      BY <3>1, <3>2
  <2>4. Toolsets'
    BY <1>0, <2>1, <2>2 DEF Toolsets, Pending
  <2>5. FirstHasTools'
    BY <1>0, <2>1, <2>3 DEF FirstHasTools
  <2> QED
    BY <2>4, <2>5
<1>4. ASSUME NEW k \in Children, Initialized(k) \/ HandshakeFails(k) \/ Exit(k) \/ Die(k)
      PROVE  Toolsets' /\ FirstHasTools'
  <2>1. /\ UNCHANGED <<first, spawned, tools>>
        /\ \A j \in Children : hand'[j] = "done" => hand[j] = "done"
        /\ \A j \in Children : hand[j] = "none" => hand'[j] = "none"
        /\ Pending(1)' => Pending(1)
    BY <1>0, <1>4 DEF Initialized, HandshakeFails, Exit, Die, host, Pending
  <2> QED
    BY <1>0, <2>1 DEF Toolsets, FirstHasTools, tools, Waiting
<1>5. CASE Respawn
  <2>1. spawned > 0
    BY <1>5 DEF Respawn, IndInv, Numbered
  <2>2. /\ spawned' = spawned + 1 /\ hand' = [hand EXCEPT ![spawned + 1] = "initialize"]
        /\ UNCHANGED <<first, reg>> /\ \A k \in Children : ~Alive(k)
    BY <1>5 DEF Respawn, Spawn, host, IndInv, Successive
  <2>3. ~Pending(1) /\ UNCHANGED hand[1]
    BY <1>0, <2>1, <2>2 DEF IndInv, Handshaking
  <2>4. Toolsets'
    BY <1>0, <2>1, <2>2, <2>3 DEF Toolsets, Pending, Children
  <2> QED
    BY <2>2, <2>3, <2>4 DEF FirstHasTools
<1>6. ASSUME NEW w \in Workers, Stop(w) PROVE Toolsets' /\ FirstHasTools'
  <2>1. /\ UNCHANGED <<first, spawned, tools>>
        /\ \A j \in Children : hand'[j] = "done" => hand[j] = "done"
        /\ \A j \in Children : hand[j] = "none" => hand'[j] = "none"
        /\ Pending(1)' => Pending(1)
    BY <1>0, <1>6 DEF Stop, Kill, process, host, Pending
  <2> QED
    BY <1>0, <2>1 DEF Toolsets, FirstHasTools, tools, Waiting
<1>7. CASE Restart \/ Shutdown
  <2>1. /\ UNCHANGED <<first, spawned, tools>>
        /\ \A j \in Children : hand'[j] = "done" => hand[j] = "done"
        /\ \A j \in Children : hand[j] = "none" => hand'[j] = "none"
        /\ Pending(1)' => Pending(1)
    BY <1>0, <1>7 DEF Restart, Shutdown, Kill, process, host, Pending
  <2> QED
    BY <1>0, <2>1 DEF Toolsets, FirstHasTools, tools, Waiting
<1>8. CASE UNCHANGED vars
  BY <1>8 DEF vars, host, process, tools, Toolsets, FirstHasTools, Waiting, Pending
<1> QED
  BY <1>1, <1>2, <1>3, <1>4, <1>5, <1>6, <1>7, <1>8 DEF Next, Plugin

\* Once the first handshake is done, the worker that loaded the plugin first has
\* a connection for every tool, static or served (index.js:226), whichever
\* workers loaded it during the handshake, and whatever ends and is spawned later.
THEOREM FirstHasToolsAlways == Spec => []FirstHasTools
<1>1. Init => Toolsets /\ FirstHasTools
  <2> SUFFICES ASSUME Init PROVE Toolsets /\ FirstHasTools
    OBVIOUS
  <2>1. 1 \in Children /\ \A k \in Children : hand[k] = "none"
    BY SpawnsAssumption DEF Init, Children
  <2> QED
    BY <2>1 DEF Init, Toolsets, Waiting, Pending, FirstHasTools
<1> QED
  BY <1>1, ToolsetsStep, Invariance, PTL DEF Spec

-----------------------------------------------------------------------------
(* The buckets keep their bounds, whatever the limits and however the       *)
(* clock jumps.                                                            *)

\* What a full bucket holds.
Cap(t) == LimitOf[t] * Minute

\* A bucket that has been looked at was refilled at a time that has been.
Seen(t) ==
  /\ bucket[t] = Missing => granted[t] = <<>> /\ promised[t] = Never
  /\ bucket[t] # Missing => /\ bucket[t].last \in (-MaxBack) .. real
                            /\ bucket[t].tokens <= Cap(t)

\* The calls granted since the i-th, and what is left in the bucket, were
\* paid for by a full bucket and the refill since then.
PaidFor(t) ==
  LET g == granted[t] IN
    \A i \in DOMAIN g :
      (Len(g) - i + 1) * Minute + bucket[t].tokens
        <= LimitOf[t] * (Minute + bucket[t].last - (g[i].at - g[i].behind))

Window(t) ==
  LET g == granted[t] IN
    \A i, j \in DOMAIN g : i <= j =>
      (j - i + 1) * Minute <= LimitOf[t] * (Minute + g[j].at - g[i].at + g[i].behind)

\* What half a millisecond brings, twice.
Half(t) == LimitOf[t] * Grain

\* While the clock is right, the bucket has a token at the time promised, or
\* what half a millisecond brings is missing at most.
Kept(t) ==
  back = 0 /\ promised[t] <= MaxTime =>
    2 * (Minute - (bucket[t].tokens + LimitOf[t] * (promised[t] - bucket[t].last))) <= Half(t)

LimiterInv ==
  /\ LimiterTypeOK
  /\ \A t \in Limited : Seen(t) /\ PaidFor(t) /\ Window(t) /\ Kept(t)

-----------------------------------------------------------------------------
(* Arithmetic.                                                             *)

\* A multiple is no less.
LEMMA ScaleUp == ASSUME NEW n \in Nat \ {0}, NEW a \in Nat PROVE n * a \in Nat /\ n * a >= a
  BY SMT

\* Multiples of a sum are sums of multiples.
LEMMA Distributes ==
  ASSUME NEW n \in Nat, NEW a \in Int, NEW b \in Int
  PROVE  n * (a + b) = n * a + n * b
  BY SMT

\* Multiples keep the order.
LEMMA Monotone ==
  ASSUME NEW n \in Nat, NEW a \in Int, NEW b \in Int, a <= b
  PROVE  n * a <= n * b
<1>1. n * b = n * a + n * (b - a)  BY Distributes
<1>2. n * (b - a) >= 0             BY SMT
<1>. QED  BY <1>1, <1>2, SMT

-----------------------------------------------------------------------------
(* What a call finds.                                                      *)

\* Refilled(t) is a bucket of the time that it is, no fuller than time allows.
LEMMA RefilledFacts ==
  ASSUME LimiterInv, NEW t \in Limited
  PROVE  LET r == Refilled(t) IN
         /\ r \in [tokens : Nat, last : Int]
         /\ r.last \in (-MaxBack) .. real /\ r.last >= now
         /\ r.tokens <= Cap(t)
         /\ bucket[t] # Missing =>
              /\ r.last >= bucket[t].last
              /\ r.tokens <= bucket[t].tokens + LimitOf[t] * (r.last - bucket[t].last)
<1>. DEFINE b == bucket[t]  r == Refilled(t)  L == LimitOf[t]
<1>1. /\ L \in Nat \ {0} /\ Minute \in Nat \ {0} /\ MaxBack \in Nat
      /\ real \in Nat /\ back \in 0 .. MaxBack
      /\ b \in [tokens : Nat, last : Int]
  BY LimiterAssumption DEF LimiterInv, LimiterTypeOK
<1>2. Cap(t) \in Nat
  <2>. HIDE DEF L, b, r
  <2>. QED  BY <1>1, ScaleUp DEF Cap, L
<1>3. now \in (-MaxBack) .. real  BY <1>1 DEF now
<1>4. CASE b = Missing
  <2>1. r = [tokens |-> Cap(t), last |-> now]  BY <1>4 DEF Refilled, Cap
  <2>. QED  BY <2>1, <1>1, <1>2, <1>3, <1>4
<1>5. CASE b # Missing /\ now > b.last
  <2>. DEFINE more == b.tokens + L * (now - b.last)
  <2>1. r = [tokens |-> Least(Cap(t), more), last |-> now]  BY <1>5 DEF Refilled, Cap
  <2>2. L * (now - b.last) \in Nat
    <3>1. now - b.last \in Nat  BY <1>5, <1>1, <1>3
    <3>. QED  BY <3>1, <1>1, ScaleUp
  <2>3. more \in Nat  BY <2>2, <1>1
  <2>. HIDE DEF more
  <2>4. Least(Cap(t), more) \in Nat /\ Least(Cap(t), more) <= Cap(t) /\ Least(Cap(t), more) <= more
    BY <2>3, <1>2 DEF Least
  <2>. HIDE DEF r
  <2>5. r.tokens = Least(Cap(t), more) /\ r.last = now /\ r \in [tokens : Nat, last : Int]
    BY <2>1, <2>4, <1>3
  <2>6. /\ r.last \in (-MaxBack) .. real /\ r.last >= now /\ r.tokens <= Cap(t)
        /\ r.last >= b.last
    BY <2>4, <2>5, <1>1, <1>3, <1>5
  <2>7. r.tokens <= b.tokens + L * (r.last - b.last)
    BY <2>4, <2>5 DEF more
  <2>. QED  BY <2>5, <2>6, <2>7 DEF r
<1>6. CASE b # Missing /\ ~ now > b.last
  <2>1. r = b  BY <1>6 DEF Refilled
  <2>2. b.last \in (-MaxBack) .. real /\ b.tokens <= Cap(t)  BY <1>6 DEF LimiterInv, Seen
  <2>3. b.tokens <= b.tokens + L * (b.last - b.last)
    <3>1. b.last - b.last = 0  BY <1>1
    <3>. QED  BY <3>1, <1>1, SMT
  <2>. QED  BY <2>1, <2>2, <2>3, <1>1, <1>3, <1>6
<1>. QED  BY <1>4, <1>5, <1>6

\* The history of a tool is a sequence of times.
LEMMA GrantedAt ==
  ASSUME LimiterInv, NEW t \in Limited
  PROVE  /\ granted[t] \in Seq([at : Nat, behind : Nat])
         /\ Len(granted[t]) \in Nat /\ DOMAIN granted[t] = 1 .. Len(granted[t])
         /\ \A i \in DOMAIN granted[t] : /\ granted[t][i].at \in Nat
                                       /\ granted[t][i].behind \in Nat
<1>1. granted[t] \in Seq([at : Nat, behind : Nat])
  BY DEF LimiterInv, LimiterTypeOK
<1>2. Len(granted[t]) \in Nat /\ DOMAIN granted[t] = 1 .. Len(granted[t])
  BY <1>1, LenProperties
<1>3. \A i \in 1 .. Len(granted[t]) : granted[t][i] \in [at : Nat, behind : Nat]
  BY <1>1, ElementOfSeq
<1>. QED  BY <1>1, <1>2, <1>3

\* So what was paid for stays so, when the bucket is refilled.
LEMMA RefilledIsPaid ==
  ASSUME LimiterInv, NEW t \in Limited, NEW i \in DOMAIN granted[t]
  PROVE  (Len(granted[t]) - i + 1) * Minute + Refilled(t).tokens
           <= LimitOf[t] * (Minute + Refilled(t).last - (granted[t][i].at - granted[t][i].behind))
<1>. DEFINE g == granted[t]  b == bucket[t]  r == Refilled(t)  L == LimitOf[t]
            w == g[i].at - g[i].behind  k == (Len(g) - i + 1) * Minute
<1>1. /\ L \in Nat \ {0} /\ Minute \in Nat \ {0}
      /\ b \in [tokens : Nat, last : Int] /\ g \in Seq([at : Nat, behind : Nat])
  BY LimiterAssumption DEF LimiterInv, LimiterTypeOK
<1>2. b # Missing /\ g # <<>>  BY DEF LimiterInv, Seen
<1>3. /\ r \in [tokens : Nat, last : Int] /\ r.last >= b.last
      /\ r.tokens <= b.tokens + L * (r.last - b.last)
  BY <1>2, RefilledFacts
<1>4. k + b.tokens <= L * (Minute + b.last - w)  BY DEF LimiterInv, PaidFor
<1>5. w \in Int /\ k \in Int
  <2>1. Len(g) \in Nat /\ i \in 1 .. Len(g) /\ g[i].at \in Nat /\ g[i].behind \in Nat
    BY GrantedAt
  <2>2. (Len(g) - i + 1) \in Int  BY <2>1
  <2>. HIDE DEF g
  <2>4. w \in Int  BY <2>1
  <2>5. \A x \in Int : x * Minute \in Int  BY <1>1
  <2>. QED  BY <2>2, <2>4, <2>5
<1>. HIDE DEF w, k, r, b, g, L
<1>6. L * (Minute + b.last - w) + L * (r.last - b.last) = L * (Minute + r.last - w)
  <2>1. (Minute + b.last - w) + (r.last - b.last) = Minute + r.last - w  BY <1>1, <1>3, <1>5
  <2>. QED  BY <2>1, <1>1, <1>3, <1>5, Distributes
<1>7. L * (Minute + b.last - w) \in Int /\ L * (r.last - b.last) \in Int
  BY <1>1, <1>3, <1>5
<1>8. k + r.tokens <= L * (Minute + r.last - w)
  <2>1. \A n, x, y, p, q \in Int : n + x <= p /\ y <= x + q => n + y <= p + q
    OBVIOUS
  <2>2. b.tokens \in Int /\ r.tokens \in Int  BY <1>1, <1>3
  <2>3. k + r.tokens <= L * (Minute + b.last - w) + L * (r.last - b.last)
    BY <2>1, <2>2, <1>3, <1>4, <1>5, <1>7
  <2>. QED  BY <2>3, <1>6
<1>. QED  BY <1>8 DEF w, k, r, b, g, L

-----------------------------------------------------------------------------
(* Each step keeps the invariant.                                          *)

\* The invariant holds in the first states.
LEMMA BucketsBegin == LimiterInit => LimiterInv
<1>. SUFFICES ASSUME LimiterInit PROVE LimiterInv  OBVIOUS
<1>1. LimiterTypeOK  BY LimiterAssumption DEF LimiterInit, LimiterTypeOK, Missing, Never
<1>2. ASSUME NEW t \in Limited PROVE Seen(t) /\ PaidFor(t) /\ Window(t) /\ Kept(t)
  <2>1. bucket[t] = Missing /\ granted[t] = <<>> /\ promised[t] = MaxTime + 1
    BY DEF LimiterInit, Never
  <2>2. ~ promised[t] <= MaxTime  BY <2>1, LimiterAssumption
  <2>. QED  BY <2>1, <2>2 DEF Seen, PaidFor, Window, Kept, Never
<1>. QED  BY <1>1, <1>2 DEF LimiterInv

\* A process that starts has no buckets.
LEMMA BucketsRestart ==
  ASSUME LimiterInv, UNCHANGED timeVars,
         bucket' = [t \in Limited |-> Missing], granted' = [t \in Limited |-> <<>>],
         promised' = [t \in Limited |-> Never]
  PROVE  LimiterInv'
<1>1. LimiterTypeOK'
  BY LimiterAssumption DEF LimiterInv, LimiterTypeOK, timeVars, Missing, Never
<1>2. ASSUME NEW t \in Limited PROVE (Seen(t) /\ PaidFor(t) /\ Window(t) /\ Kept(t))'
  <2>1. bucket'[t] = Missing /\ granted'[t] = <<>> /\ promised'[t] = MaxTime + 1
    BY DEF Never
  <2>2. ~ promised'[t] <= MaxTime  BY <2>1, LimiterAssumption
  <2>. QED  BY <2>1, <2>2 DEF Seen, PaidFor, Window, Kept, Never
<1>. QED  BY <1>1, <1>2 DEF LimiterInv

\* Time that passes keeps the invariant of the limiter.
LEMMA TickKeeps == LimiterInv /\ Tick => LimiterInv'
<1>. SUFFICES ASSUME LimiterInv, Tick PROVE LimiterInv'  OBVIOUS
<1>1. LimiterTypeOK'
  BY LimiterAssumption DEF LimiterInv, LimiterTypeOK, Tick, toolVars
<1>2. ASSUME NEW t \in Limited PROVE (Seen(t) /\ PaidFor(t) /\ Window(t) /\ Kept(t))'
  <2>1. Seen(t)'
    BY LimiterAssumption DEF LimiterInv, LimiterTypeOK, Seen, Tick, toolVars, Cap, Missing
  <2>2. (PaidFor(t) /\ Window(t) /\ Kept(t))'
    BY DEF LimiterInv, PaidFor, Window, Kept, Tick, toolVars
  <2>. QED  BY <2>1, <2>2
<1>. QED  BY <1>1, <1>2 DEF LimiterInv

\* A clock that is set keeps it.
LEMMA SetClockKeeps == LimiterInv /\ SetClock => LimiterInv'
<1>. SUFFICES ASSUME LimiterInv, SetClock PROVE LimiterInv'  OBVIOUS
<1>1. LimiterTypeOK'
  BY LimiterAssumption DEF LimiterInv, LimiterTypeOK, SetClock, Never
<1>2. ASSUME NEW t \in Limited PROVE (Seen(t) /\ PaidFor(t) /\ Window(t) /\ Kept(t))'
  <2>1. promised'[t] = MaxTime + 1  BY DEF SetClock, Never
  <2>2. ~ promised'[t] <= MaxTime  BY <2>1, LimiterAssumption
  <2>3. Seen(t)'  BY <2>1 DEF LimiterInv, Seen, SetClock, Cap, Missing, Never
  <2>4. (PaidFor(t) /\ Window(t))'  BY DEF LimiterInv, PaidFor, Window, SetClock
  <2>. QED  BY <2>2, <2>3, <2>4 DEF Kept
<1>. QED  BY <1>1, <1>2 DEF LimiterInv

\* What is not of the tool that is called stays.
LEMMA OthersStay ==
  ASSUME LimiterInv, UNCHANGED timeVars, NEW t \in Limited,
         bucket'[t] = bucket[t], granted'[t] = granted[t], promised'[t] = promised[t]
  PROVE  (Seen(t) /\ PaidFor(t) /\ Window(t) /\ Kept(t))'
BY DEF LimiterInv, Seen, PaidFor, Window, Kept, timeVars, Cap, Missing, Never

\* A call that is granted: a token of the bucket pays for it.
LEMMA GrantKeeps ==
  ASSUME LimiterInv, NEW t \in Limited, Grant(t), UNCHANGED timeVars
  PROVE  LimiterInv'
<1>. DEFINE r == Refilled(t)  g == granted[t]  L == LimitOf[t]  n == Len(g)
            e == [at |-> real, behind |-> back]
<1>1. /\ L \in Nat \ {0} /\ Minute \in Nat \ {0} /\ MaxBack \in Nat /\ MaxTime \in Nat
      /\ real \in Nat /\ back \in Nat /\ now = real - back
  BY LimiterAssumption DEF LimiterInv, LimiterTypeOK, now
<1>2. /\ r \in [tokens : Nat, last : Int] /\ r.last \in (-MaxBack) .. real
      /\ r.last >= now /\ r.tokens <= Cap(t) /\ r.tokens >= Minute
  BY RefilledFacts DEF Grant, Allowed
<1>3. /\ g \in Seq([at : Nat, behind : Nat]) /\ n \in Nat /\ DOMAIN g = 1 .. n
      /\ \A i \in 1 .. n : g[i].at \in Nat /\ g[i].behind \in Nat
  BY GrantedAt
<1>4. e \in [at : Nat, behind : Nat] /\ e.at = real /\ e.behind = back  BY <1>1
<1>5. /\ bucket' = [bucket EXCEPT ![t] = [r EXCEPT !.tokens = r.tokens - Minute]]
      /\ granted' = [granted EXCEPT ![t] = Append(g, e)]
      /\ promised' = [promised EXCEPT ![t] = Never]
      /\ real' = real /\ back' = back
  BY DEF Grant, timeVars
<1>6. /\ bucket \in [Limited -> [tokens : Nat, last : Int]]
      /\ granted \in [Limited -> Seq([at : Nat, behind : Nat])]
      /\ promised \in [Limited -> Int]
  BY DEF LimiterInv, LimiterTypeOK
<1>. HIDE DEF r, g, e
<1>7. Append(g, e) \in Seq([at : Nat, behind : Nat])  BY <1>3, <1>4, AppendProperties
<1>8. /\ Len(Append(g, e)) = n + 1 /\ DOMAIN Append(g, e) = 1 .. n + 1
      /\ Append(g, e)[n + 1] = e
      /\ \A i \in 1 .. n : Append(g, e)[i] = g[i]
  <2>1. /\ Len(Append(g, e)) = n + 1 /\ Append(g, e)[n + 1] = e
        /\ \A i \in 1 .. n : Append(g, e)[i] = g[i]
    BY <1>3, <1>4, AppendProperties
  <2>. QED  BY <2>1, <1>7, LenProperties
<1>9. /\ bucket'[t] = [tokens |-> r.tokens - Minute, last |-> r.last]
      /\ granted'[t] = Append(g, e) /\ promised'[t] = Never
  BY <1>2, <1>5, <1>6
<1>10. r.tokens - Minute \in Nat  BY <1>1, <1>2
<1>11. LimiterTypeOK'
  <2>1. [r EXCEPT !.tokens = r.tokens - Minute] \in [tokens : Nat, last : Int]
    BY <1>2, <1>10
  <2>2. Never \in Int  BY <1>1 DEF Never
  <2>3. real' \in 0 .. MaxTime /\ back' \in 0 .. MaxBack
    BY <1>5 DEF LimiterInv, LimiterTypeOK
  <2>. QED  BY <2>1, <2>2, <2>3, <1>5, <1>6, <1>7 DEF LimiterTypeOK
<1>12. ASSUME NEW u \in Limited PROVE (Seen(u) /\ PaidFor(u) /\ Window(u) /\ Kept(u))'
  <2>1. CASE u # t
    <3>1. bucket'[u] = bucket[u] /\ granted'[u] = granted[u] /\ promised'[u] = promised[u]
      BY <2>1, <1>5, <1>6
    <3>2. UNCHANGED timeVars  OBVIOUS
    <3>. QED  BY <3>1, <3>2, OthersStay
  <2>2. CASE u = t
    <3>1. Seen(t)'
      <4>1. bucket'[t] # Missing
        <5>1. bucket'[t].last = r.last /\ r.last # -1 - MaxBack  BY <1>1, <1>2, <1>9
        <5>. QED  BY <5>1 DEF Missing
      <4>2. Cap(t) \in Int  BY <1>1 DEF Cap
      <4>3. r.tokens - Minute <= Cap(t)  BY <4>2, <1>1, <1>2
      <4>4. Missing' = Missing /\ Cap(t)' = Cap(t) /\ Never' = Never
        BY DEF Missing, Cap, Never
      <4>. QED  BY <4>1, <4>3, <4>4, <1>2, <1>5, <1>9 DEF Seen
    <3>2. PaidFor(t)'
      <4>. DEFINE h == Append(g, e)
      <4>1. ASSUME NEW i \in 1 .. n + 1
            PROVE  ((n + 1) - i + 1) * Minute + (r.tokens - Minute)
                     <= L * (Minute + r.last - (h[i].at - h[i].behind))
        <5>1. CASE i \in 1 .. n
          <6>1. (n - i + 1) * Minute + r.tokens
                  <= L * (Minute + r.last - (g[i].at - g[i].behind))
            BY <5>1, <1>3, RefilledIsPaid DEF g, r
          <6>2. ((n + 1) - i + 1) * Minute = (n - i + 1) * Minute + Minute
            <7>1. Minute * (n - i + 1 + 1) = Minute * (n - i + 1) + Minute * 1
              BY <1>1, <1>3, Distributes
            <7>. QED  BY <7>1, <1>1, <1>3, SMT
          <6>3. (n - i + 1) * Minute \in Int  BY <1>1, <1>3
          <6>4. ((n + 1) - i + 1) * Minute + (r.tokens - Minute) = (n - i + 1) * Minute + r.tokens
            <7>. DEFINE x == (n - i + 1) * Minute  y == ((n + 1) - i + 1) * Minute
            <7>. HIDE DEF x, y
            <7>1. y = x + Minute /\ x \in Int  BY <6>2, <6>3 DEF x, y
            <7>2. y + (r.tokens - Minute) = x + r.tokens  BY <7>1, <1>1, <1>2
            <7>. QED  BY <7>2 DEF x, y
          <6>5. h[i] = g[i]  BY <5>1, <1>8
          <6>. QED  BY <6>1, <6>4, <6>5
        <5>2. CASE i = n + 1
          <6>1. h[i].at - h[i].behind = now  BY <5>2, <1>1, <1>4, <1>8
          <6>2. ((n + 1) - i + 1) * Minute + (r.tokens - Minute) = r.tokens
            <7>1. (n + 1) - i + 1 = 1  BY <5>2, <1>3
            <7>2. 1 * Minute = Minute  BY <1>1
            <7>3. Minute + (r.tokens - Minute) = r.tokens  BY <1>1, <1>2
            <7>. QED  BY <7>1, <7>2, <7>3
          <6>3. L * Minute <= L * (Minute + r.last - now)
            <7>1. now \in Int  BY <1>1
            <7>2. Minute <= Minute + r.last - now /\ Minute + r.last - now \in Int
              BY <7>1, <1>1, <1>2
            <7>. QED  BY <7>2, <1>1, Monotone
          <6>4. L * Minute \in Int /\ L * (Minute + r.last - now) \in Int  BY <1>1, <1>2
          <6>5. r.tokens <= L * (Minute + r.last - now)
            BY <6>3, <6>4, <1>2 DEF Cap
          <6>. QED  BY <6>1, <6>2, <6>5
        <5>. QED  BY <5>1, <5>2, <1>3
      <4>2. /\ Len(granted'[t]) = n + 1 /\ DOMAIN granted'[t] = 1 .. n + 1
            /\ granted'[t] = h
            /\ bucket'[t].tokens = r.tokens - Minute /\ bucket'[t].last = r.last
        BY <1>8, <1>9
      <4>. HIDE DEF h, n, L
      <4>3. ASSUME NEW i \in DOMAIN granted'[t]
            PROVE  (Len(granted'[t]) - i + 1) * Minute + bucket'[t].tokens
                     <= LimitOf[t] * (Minute + bucket'[t].last
                                      - (granted'[t][i].at - granted'[t][i].behind))
        BY <4>1, <4>2 DEF L
      <4>. QED  BY <4>3 DEF PaidFor
    <3>3. Window(t)'
      <4>. DEFINE h == Append(g, e)
      <4>1. ASSUME NEW i \in 1 .. n + 1, NEW j \in 1 .. n + 1, i <= j
            PROVE  (j - i + 1) * Minute <= L * (Minute + h[j].at - h[i].at + h[i].behind)
        <5>1. CASE j \in 1 .. n
          <6>1. i \in 1 .. n  BY <5>1, <4>1, <1>3
          <6>2. (j - i + 1) * Minute <= L * (Minute + g[j].at - g[i].at + g[i].behind)
            BY <5>1, <6>1, <4>1, <1>3 DEF LimiterInv, Window, g
          <6>. QED  BY <5>1, <6>1, <6>2, <1>8
        <5>2. CASE j = n + 1 /\ i \in 1 .. n
          <6>. DEFINE w == g[i].at - g[i].behind  x == (n - i + 1) * Minute
          <6>1. x + r.tokens <= L * (Minute + r.last - w)
            BY <5>2, <1>3, RefilledIsPaid DEF g, r
          <6>2. w \in Int /\ x \in Int
            <7>1. g[i].at \in Nat /\ g[i].behind \in Nat  BY <5>2, <1>3
            <7>2. n - i + 1 \in Int  BY <1>3
            <7>3. \A y \in Int : y * Minute \in Int  BY <1>1
            <7>4. x \in Int  BY <7>2, <7>3
            <7>5. w \in Int  BY <7>1
            <7>. QED  BY <7>4, <7>5
          <6>3. (j - i + 1) * Minute = x + Minute
            <7>1. Minute * (n - i + 1 + 1) = Minute * (n - i + 1) + Minute * 1
              BY <1>1, <1>3, Distributes
            <7>. QED  BY <7>1, <5>2, <1>1, <1>3, SMT
          <6>4. h[j].at = real /\ h[i] = g[i]  BY <5>2, <1>4, <1>8
          <6>. HIDE DEF w, x
          <6>5. L * (Minute + r.last - w) <= L * (Minute + real - w)
            <7>1. Minute + r.last - w <= Minute + real - w
              BY <6>2, <1>1, <1>2
            <7>2. Minute + r.last - w \in Int /\ Minute + real - w \in Int
              BY <6>2, <1>1, <1>2
            <7>. QED  BY <7>1, <7>2, <1>1, Monotone
          <6>6. L * (Minute + r.last - w) \in Int /\ L * (Minute + real - w) \in Int
            BY <6>2, <1>1, <1>2
          <6>7. x + Minute <= L * (Minute + real - w)
            BY <6>1, <6>2, <6>5, <6>6, <1>1, <1>2
          <6>8. Minute + real - w = Minute + real - g[i].at + g[i].behind
            <7>1. g[i].at \in Nat /\ g[i].behind \in Nat  BY <5>2, <1>3
            <7>. HIDE DEF n
            <7>. QED  BY <7>1, <1>1 DEF w
          <6>. QED  BY <6>3, <6>4, <6>7, <6>8
        <5>3. CASE j = n + 1 /\ i = n + 1
          <6>1. h[j].at = real /\ h[i].at = real /\ h[i].behind = back  BY <5>3, <1>4, <1>8
          <6>2. (j - i + 1) * Minute = Minute
            <7>1. j - i + 1 = 1  BY <5>3, <1>3
            <7>. QED  BY <7>1, <1>1
          <6>3. Minute + real - real + back \in Nat /\ Minute <= Minute + real - real + back
            BY <1>1
          <6>4. L * (Minute + real - real + back) \in Nat
                /\ L * (Minute + real - real + back) >= Minute + real - real + back
            BY <6>3, <1>1, ScaleUp
          <6>5. Minute <= L * (Minute + real - real + back)
            <7>. DEFINE x == Minute + real - real + back  y == L * x
            <7>. HIDE DEF x, y
            <7>1. x \in Nat /\ y \in Nat /\ Minute <= x /\ x <= y  BY <6>3, <6>4 DEF x, y
            <7>2. Minute <= y  BY <7>1, <1>1
            <7>. QED  BY <7>2 DEF x, y
          <6>. QED  BY <6>1, <6>2, <6>5
        <5>. QED  BY <5>1, <5>2, <5>3, <4>1, <1>3
      <4>2. DOMAIN granted'[t] = 1 .. n + 1 /\ granted'[t] = h  BY <1>8, <1>9
      <4>. HIDE DEF h, n, L
      <4>. QED  BY <4>1, <4>2 DEF Window, L
    <3>4. Kept(t)'
      <4>1. promised'[t] = MaxTime + 1  BY <1>9 DEF Never
      <4>2. ~ promised'[t] <= MaxTime  BY <4>1, <1>1
      <4>. QED  BY <4>2 DEF Kept
    <3>. QED  BY <2>2, <3>1, <3>2, <3>3, <3>4
  <2>. QED  BY <2>1, <2>2
<1>. QED  BY <1>11, <1>12 DEF LimiterInv

\* A bucket that is not full has all that time brought.
LEMMA RefilledExactly ==
  ASSUME LimiterInv, NEW t \in Limited, bucket[t] # Missing, Refilled(t).tokens < Cap(t)
  PROVE  Refilled(t).tokens = bucket[t].tokens + LimitOf[t] * (Refilled(t).last - bucket[t].last)
<1>. DEFINE b == bucket[t]  r == Refilled(t)  L == LimitOf[t]
<1>1. /\ L \in Nat \ {0} /\ b \in [tokens : Nat, last : Int]
      /\ Minute \in Nat \ {0} /\ now \in Int
  BY LimiterAssumption DEF LimiterInv, LimiterTypeOK, now
<1>2. CASE now > b.last
  <2>. DEFINE more == b.tokens + L * (now - b.last)
  <2>1. r = [tokens |-> Least(Cap(t), more), last |-> now]  BY <1>2 DEF Refilled, Cap
  <2>2. Cap(t) \in Int /\ more \in Int  BY <1>1 DEF Cap
  <2>. HIDE DEF more
  <2>3. r.tokens = more
    <3>1. r.tokens = Least(Cap(t), more)  BY <2>1
    <3>2. Least(Cap(t), more) < Cap(t)  BY <3>1
    <3>. QED  BY <3>1, <3>2, <2>2 DEF Least
  <2>4. r.last = now  BY <2>1
  <2>. QED  BY <2>3, <2>4 DEF more
<1>3. CASE ~ now > b.last
  <2>1. r = b  BY <1>3 DEF Refilled
  <2>2. b.last - b.last = 0  BY <1>1
  <2>3. L * 0 = 0  BY <1>1
  <2>4. b.tokens + 0 = b.tokens  BY <1>1
  <2>. QED  BY <2>1, <2>2, <2>3, <2>4
<1>. QED  BY <1>2, <1>3

\* A call that is refused: the time it is told is enough, but for its rounding.
LEMMA RefuseKeeps ==
  ASSUME LimiterInv, NEW t \in Limited, Refuse(t), UNCHANGED timeVars
  PROVE  LimiterInv'
<1>. DEFINE r == Refilled(t)  L == LimitOf[t]  p == promised[t]  b == bucket[t]
<1>0. PICK ra \in RetryAfter(t) : promised' = [promised EXCEPT ![t] = Least(p, now + ra)]
  BY DEF Refuse
<1>1. /\ L \in Nat \ {0} /\ Minute \in Nat \ {0} /\ MaxBack \in Nat /\ MaxTime \in Nat
      /\ real \in Nat /\ back \in Nat /\ now = real - back /\ now \in Int /\ p \in Int
      /\ b \in [tokens : Nat, last : Int]
  BY LimiterAssumption DEF LimiterInv, LimiterTypeOK, now
<1>2. /\ r \in [tokens : Nat, last : Int] /\ r.last \in (-MaxBack) .. real
      /\ r.last >= now /\ r.tokens <= Cap(t)
  BY RefilledFacts
<1>3. r.tokens < Minute
  <2>1. ~ r.tokens >= Minute  BY DEF Refuse, Allowed
  <2>. HIDE DEF r
  <2>. QED  BY <2>1, <1>1, <1>2
<1>4. ra \in Nat /\ 2 * (Minute - r.tokens - L * ra) <= Half(t) /\ Half(t) \in Nat
  <2>1. Grain \in Nat \ {0}  BY LimiterAssumption
  <2>2. 0 .. Minute + Grain \subseteq Nat  BY <2>1, <1>1
  <2>3. ra \in Nat /\ 2 * (Minute - r.tokens - L * ra) <= L * Grain
    BY <1>0, <2>2 DEF RetryAfter
  <2>4. L * Grain \in Nat  BY <2>1, <1>1
  <2>. QED  BY <2>3, <2>4 DEF Half
<1>5. /\ bucket' = [bucket EXCEPT ![t] = r]
      /\ promised' = [promised EXCEPT ![t] = Least(p, now + ra)]
      /\ granted' = granted /\ real' = real /\ back' = back
  BY <1>0 DEF Refuse, timeVars
<1>6. /\ bucket \in [Limited -> [tokens : Nat, last : Int]]
      /\ granted \in [Limited -> Seq([at : Nat, behind : Nat])]
      /\ promised \in [Limited -> Int]
  BY DEF LimiterInv, LimiterTypeOK
<1>7. bucket'[t] = r /\ promised'[t] = Least(p, now + ra)  BY <1>5, <1>6
<1>8. Cap(t) \in Nat /\ Cap(t) >= Minute
  <2>. HIDE DEF L
  <2>. QED  BY <1>1, ScaleUp DEF Cap, L
<1>9. b # Missing /\ r.tokens < Cap(t) => r.tokens = b.tokens + L * (r.last - b.last)
  BY RefilledExactly
<1>10. \A i \in DOMAIN granted[t] :
         (Len(granted[t]) - i + 1) * Minute + r.tokens
           <= L * (Minute + r.last - (granted[t][i].at - granted[t][i].behind))
  BY RefilledIsPaid
<1>. HIDE DEF r
<1>11. LimiterTypeOK'
  <2>1. Least(p, now + ra) \in Int  BY <1>1, <1>4 DEF Least
  <2>2. real' \in 0 .. MaxTime /\ back' \in 0 .. MaxBack
    BY <1>5 DEF LimiterInv, LimiterTypeOK
  <2>. QED  BY <2>1, <2>2, <1>2, <1>5, <1>6 DEF LimiterTypeOK
<1>12. ASSUME NEW u \in Limited PROVE (Seen(u) /\ PaidFor(u) /\ Window(u) /\ Kept(u))'
  <2>1. CASE u # t
    <3>1. bucket'[u] = bucket[u] /\ granted'[u] = granted[u] /\ promised'[u] = promised[u]
      BY <2>1, <1>5, <1>6
    <3>2. UNCHANGED timeVars  OBVIOUS
    <3>. QED  BY <3>1, <3>2, OthersStay
  <2>2. CASE u = t
    <3>1. Seen(t)'
      <4>1. bucket'[t] # Missing
        <5>1. bucket'[t].last = r.last /\ r.last # -1 - MaxBack  BY <1>1, <1>2, <1>7
        <5>. QED  BY <5>1 DEF Missing
      <4>2. Missing' = Missing /\ Cap(t)' = Cap(t)
        BY DEF Missing, Cap
      <4>. QED  BY <4>1, <4>2, <1>2, <1>5, <1>7 DEF Seen
    <3>2. PaidFor(t)'
      BY <1>5, <1>7, <1>10 DEF PaidFor
    <3>3. Window(t)'  BY <1>5 DEF LimiterInv, Window
    <3>4. Kept(t)'
      <4>. SUFFICES ASSUME back = 0, Least(p, now + ra) <= MaxTime
                    PROVE  2 * (Minute - (r.tokens + L * (Least(p, now + ra) - r.last))) <= Half(t)
        BY <1>5, <1>7 DEF Kept, Half
      <4>1. CASE ~ p <= now + ra
        <5>1. Least(p, now + ra) = now + ra  BY <4>1 DEF Least
        <5>2. r.last = now  BY <1>1, <1>2
        <5>3. (now + ra) - r.last = ra  BY <5>2, <1>1, <1>4
        <5>4. L * ra \in Int  BY <1>1, <1>4
        <5>5. 2 * (Minute - (r.tokens + L * ra)) <= Half(t)
          <6>. DEFINE y == L * ra
          <6>1. y \in Int /\ 2 * (Minute - r.tokens - y) <= Half(t)  BY <1>4, <5>4
          <6>. HIDE DEF y
          <6>2. 2 * (Minute - (r.tokens + y)) <= Half(t)  BY <6>1, <1>1, <1>2, <1>4
          <6>. QED  BY <6>2 DEF y
        <5>. QED  BY <5>1, <5>3, <5>5
      <4>2. CASE p <= now + ra
        <5>1. Least(p, now + ra) = p /\ p <= MaxTime  BY <4>2 DEF Least
        <5>2. b # Missing
          <6>. SUFFICES ASSUME b = Missing PROVE FALSE  OBVIOUS
          <6>1. p = MaxTime + 1  BY DEF LimiterInv, Seen, Never
          <6>. QED  BY <5>1, <6>1, <1>1
        <5>3. 2 * (Minute - (b.tokens + L * (p - b.last))) <= Half(t)
          BY <5>1 DEF LimiterInv, Kept
        <5>4. r.tokens = b.tokens + L * (r.last - b.last)
          BY <5>2, <1>1, <1>2, <1>3, <1>8, <1>9
        <5>5. L * (r.last - b.last) + L * (p - r.last) = L * (p - b.last)
          <6>. HIDE DEF L, b, p
          <6>1. (r.last - b.last) + (p - r.last) = p - b.last  BY <1>1, <1>2
          <6>. QED  BY <6>1, <1>1, <1>2, Distributes
        <5>6. 2 * (Minute - (r.tokens + L * (p - r.last))) <= Half(t)
          <6>. DEFINE x == L * (r.last - b.last)  y == L * (p - r.last)  z == L * (p - b.last)
          <6>1. x \in Int /\ y \in Int /\ z \in Int  BY <1>1, <1>2
          <6>. HIDE DEF x, y, z
          <6>2. /\ x + y = z /\ r.tokens = b.tokens + x
                /\ 2 * (Minute - (b.tokens + z)) <= Half(t)
            BY <5>3, <5>4, <5>5 DEF x, y, z
          <6>3. r.tokens + y = b.tokens + z  BY <6>1, <6>2, <1>1
          <6>. QED  BY <6>2, <6>3 DEF y
        <5>. QED  BY <5>1, <5>6
      <4>. QED  BY <4>1, <4>2
    <3>. QED  BY <2>2, <3>1, <3>2, <3>3, <3>4
  <2>. QED  BY <2>1, <2>2
<1>. QED  BY <1>11, <1>12 DEF LimiterInv

-----------------------------------------------------------------------------
(* What it is for.                                                         *)

\* The invariant says of every stretch of time what the limiter promises, and
\* of every refusal that the wait it told is right to its rounding (ratelimit.py:88).
THEOREM LimiterInvHolds == LimiterInv => LimiterHolds
<1>. SUFFICES ASSUME LimiterInv PROVE LimiterHolds  OBVIOUS
<1>1. LimiterTypeOK  BY DEF LimiterInv
<1>2. WindowBound  BY DEF LimiterInv, Window, WindowBound
<1>3. RetryHonest
  <2>. SUFFICES ASSUME back = 0, NEW t \in Limited, now >= promised[t]
                PROVE  2 * (Minute - Refilled(t).tokens) <= Half(t)
    BY DEF RetryHonest, Half
  <2>. DEFINE b == bucket[t]  r == Refilled(t)  L == LimitOf[t]  p == promised[t]
  <2>1. /\ L \in Nat \ {0} /\ Minute \in Nat \ {0} /\ MaxTime \in Nat
        /\ real \in 0 .. MaxTime /\ now = real - back /\ now \in Int /\ p \in Int
        /\ b \in [tokens : Nat, last : Int]
    BY LimiterAssumption DEF LimiterInv, LimiterTypeOK, now
  <2>2. r \in [tokens : Nat, last : Int] /\ r.last >= now  BY RefilledFacts
  <2>3. p <= MaxTime  BY <2>1
  <2>4. b # Missing
    <3>. SUFFICES ASSUME b = Missing PROVE FALSE  OBVIOUS
    <3>1. p = MaxTime + 1  BY DEF LimiterInv, Seen, Never
    <3>. QED  BY <2>1, <2>3, <3>1
  <2>5. 2 * (Minute - (b.tokens + L * (p - b.last))) <= Half(t)  BY <2>3 DEF LimiterInv, Kept
  <2>6. Cap(t) \in Nat /\ Cap(t) >= Minute
    <3>. HIDE DEF L
    <3>. QED  BY <2>1, ScaleUp DEF Cap, L
  <2>h. Half(t) \in Nat  BY LimiterAssumption DEF Half
  <2>7. CASE r.tokens < Cap(t)
    <3>1. r.tokens = b.tokens + L * (r.last - b.last)  BY <2>4, <2>7, RefilledExactly
    <3>. HIDE DEF r, b, p, L
    <3>2. L * (p - b.last) <= L * (r.last - b.last)
      <4>1. p - b.last <= r.last - b.last  BY <2>1, <2>2 DEF p
      <4>2. p - b.last \in Int /\ r.last - b.last \in Int  BY <2>1, <2>2
      <4>. QED  BY <4>1, <4>2, <2>1, Monotone
    <3>3. L * (p - b.last) \in Int /\ L * (r.last - b.last) \in Int  BY <2>1, <2>2
    <3>4. 2 * (Minute - r.tokens) <= Half(t)
      BY <3>1, <3>2, <3>3, <2>h, <2>1, <2>2, <2>5
    <3>. QED  BY <3>4 DEF r
  <2>8. CASE ~ r.tokens < Cap(t)
    <3>. HIDE DEF r
    <3>1. 2 * (Minute - r.tokens) <= Half(t)  BY <2>8, <2>h, <2>1, <2>2, <2>6
    <3>. QED  BY <3>1 DEF r
  <2>. QED  BY <2>7, <2>8
<1>. QED  BY <1>1, <1>2, <1>3 DEF LimiterHolds

-----------------------------------------------------------------------------
(* The loop.                                                               *)

Serving == {"initialize", "rate", "pre", "run", "post", "write"}

\* The line being served is the last one that was taken.
Answered ==
  at \in Serving =>
    /\ line \in Lines
    /\ Len(taken) = Len(answers) + 1 /\ taken[Len(taken)] = line
    /\ reply \in {line, NoId}
    /\ Kind[line] \in {"call", "delegated"} => reply = line
    /\ at = "initialize" => Kind[line] = "initialize"
    /\ at \in {"rate", "pre", "run", "post"} => Kind[line] = "call"

\* Between two lines everything taken is answered.
Settled ==
  /\ at \in {"read", "leave"} => Len(taken) = Len(answers)
  /\ Down => Len(answers) <= Len(taken)

\* Who asked for the restart that is due: the line being served, or the last one.
Asking ==
  restarting => \/ at \in {"post", "write"} /\ line \in Restarts
                \/ at \in {"leave", "gone", "dead"}

ServerInv == ServerTypeOK /\ Answered /\ Settled /\ Asking /\ CallsAnswered

-----------------------------------------------------------------------------
(* The histories.                                                          *)

\* Lines and answers are numbered.
LEMMA Lengths ==
  ASSUME ServerTypeOK
  PROVE  /\ Len(taken) \in Nat /\ DOMAIN taken = 1 .. Len(taken)
         /\ Len(answers) \in Nat /\ DOMAIN answers = 1 .. Len(answers)
BY LenProperties DEF ServerTypeOK

\* There are no more answers than lines.
LEMMA Behind == ASSUME ServerInv PROVE Len(answers) <= Len(taken)
BY Lengths DEF ServerInv, ServerTypeOK, Answered, Settled, Serving, Places, Down

\* A row of a line that is there may be written.
LEMMA RowTyped ==
  ASSUME ServerTypeOK, line \in Lines,
         NEW type \in {"session_start", "pre_tool_use", "post_tool_use", "tool_error"},
         NEW s \in Lines \cup {NoLine}
  PROVE  Append(events, [Row(type) EXCEPT !.session = s])
           \in Seq([type : {"session_start", "pre_tool_use", "post_tool_use", "tool_error"},
                    line : Lines, session : Lines \cup {NoLine}])
<1>1. [Row(type) EXCEPT !.session = s]
        \in [type : {"session_start", "pre_tool_use", "post_tool_use", "tool_error"},
             line : Lines, session : Lines \cup {NoLine}]
  BY DEF Row, ServerTypeOK
<1>. QED  BY <1>1, AppendProperties DEF ServerTypeOK

\* An event that is noted is an event.
LEMMA NoteTyped ==
  ASSUME ServerTypeOK, line \in Lines,
         NEW type \in {"pre_tool_use", "post_tool_use", "tool_error"},
         NEW s \in BOOLEAN, Note(type, s)
  PROVE  events' \in Seq([type : {"session_start", "pre_tool_use", "post_tool_use", "tool_error"},
                          line : Lines, session : Lines \cup {NoLine}])
<1>1. Row(type) \in [type : {"session_start", "pre_tool_use", "post_tool_use", "tool_error"},
                     line : Lines, session : Lines \cup {NoLine}]
  BY DEF Row, ServerTypeOK
<1>2. CASE s /\ Records
  BY <1>1, <1>2, AppendProperties DEF ServerTypeOK, Note
<1>3. CASE ~ (s /\ Records)
  BY <1>3 DEF ServerTypeOK, Note
<1>. QED  BY <1>2, <1>3

-----------------------------------------------------------------------------
(* Each step keeps the invariant.                                          *)

\* The invariant holds in the first states.
LEMMA ServerBegins == ServerInit => ServerInv
<1>. SUFFICES ASSUME ServerInit PROVE ServerInv  OBVIOUS
<1>1. ServerTypeOK
  <2>1. \A T : <<>> \in Seq(T)  BY EmptySeq
  <2>2. 0 \in 0 .. MaxFaults  BY ServerAssumption
  <2>3. inbox \in Seq(Lines) /\ taken \in Seq(Lines) /\ answers \in Seq(Lines \cup {NoId, Silent})
    BY <2>1 DEF ServerInit
  <2>4. events \in Seq([type : {"session_start", "pre_tool_use", "post_tool_use", "tool_error"},
                        line : Lines, session : Lines \cup {NoLine}])
    BY <2>1 DEF ServerInit
  <2>. QED  BY <2>2, <2>3, <2>4 DEF ServerInit, ServerTypeOK, Places
<1>2. Answered /\ Settled /\ Asking /\ CallsAnswered
  BY EmptySeq DEF ServerInit, Answered, Settled, Asking, CallsAnswered, Serving, Down
<1>. QED  BY <1>1, <1>2 DEF ServerInv

\* Send keeps the invariant.
LEMMA SendKeeps == ASSUME ServerInv, NEW l \in Lines, Send(l) PROVE ServerInv'
<1>1. inbox' \in Seq(Lines)
  BY AppendProperties DEF Send, ServerInv, ServerTypeOK
<1>2. ServerTypeOK'  BY <1>1 DEF Send, ServerInv, ServerTypeOK
<1>3. (Answered /\ Settled /\ Asking /\ CallsAnswered)'
  BY DEF Send, ServerInv, Answered, Settled, Asking, CallsAnswered, Down
<1>. QED  BY <1>2, <1>3 DEF ServerInv

\* One more line has been taken.
LEMMA TakenOne ==
  ASSUME ServerInv, inbox # <<>>, taken' = Append(taken, Head(inbox)), inbox' = Tail(inbox)
  PROVE  /\ Head(inbox) \in Lines /\ inbox' \in Seq(Lines) /\ taken' \in Seq(Lines)
         /\ Len(taken') = Len(taken) + 1 /\ taken'[Len(taken')] = Head(inbox)
         /\ \A i \in 1 .. Len(taken) : taken'[i] = taken[i]
<1>1. inbox \in Seq(Lines) /\ taken \in Seq(Lines)  BY DEF ServerInv, ServerTypeOK
<1>2. Head(inbox) \in Lines /\ Tail(inbox) \in Seq(Lines)  BY <1>1, HeadTailProperties
<1>. QED  BY <1>1, <1>2, AppendProperties

\* One more answer has been given.
LEMMA AnsweredOne ==
  ASSUME ServerInv, NEW a \in Lines \cup {NoId, Silent}, answers' = Append(answers, a)
  PROVE  /\ answers' \in Seq(Lines \cup {NoId, Silent})
         /\ Len(answers') = Len(answers) + 1 /\ DOMAIN answers' = 1 .. Len(answers) + 1
         /\ answers'[Len(answers) + 1] = a
         /\ \A i \in 1 .. Len(answers) : answers'[i] = answers[i]
<1>1. answers \in Seq(Lines \cup {NoId, Silent})  BY DEF ServerInv, ServerTypeOK
<1>2. /\ answers' \in Seq(Lines \cup {NoId, Silent})
      /\ Len(answers') = Len(answers) + 1
      /\ answers'[Len(answers) + 1] = a
      /\ \A i \in 1 .. Len(answers) : answers'[i] = answers[i]
  BY <1>1, AppendProperties
<1>. QED  BY <1>2, LenProperties

\* Skip keeps the invariant.
LEMMA SkipKeeps == ASSUME ServerInv, Skip PROVE ServerInv'
<1>1. /\ Head(inbox) \in Lines /\ inbox' \in Seq(Lines) /\ taken' \in Seq(Lines)
      /\ Len(taken') = Len(taken) + 1 /\ taken'[Len(taken')] = Head(inbox)
      /\ \A i \in 1 .. Len(taken) : taken'[i] = taken[i]
  BY TakenOne DEF Skip
<1>2. /\ answers' \in Seq(Lines \cup {NoId, Silent})
      /\ Len(answers') = Len(answers) + 1 /\ DOMAIN answers' = 1 .. Len(answers) + 1
      /\ \A i \in 1 .. Len(answers) : answers'[i] = answers[i]
  BY AnsweredOne DEF Skip
<1>3. /\ Len(taken) = Len(answers) /\ Len(answers) \in Nat /\ DOMAIN answers = 1 .. Len(answers)
      /\ at' = "read" /\ Kind[Head(inbox)] \in {"notification", "junk"}
      /\ ~ restarting'
  BY Lengths DEF Skip, ServerInv, Settled, Asking
<1>4. ServerTypeOK'  BY <1>1, <1>2 DEF Skip, ServerInv, ServerTypeOK
<1>5. (Answered /\ Settled /\ Asking)'  BY <1>1, <1>2, <1>3 DEF Answered, Settled, Asking, Serving, Down
<1>6. CallsAnswered'
  <2>. SUFFICES ASSUME NEW i \in DOMAIN answers', Kind[taken'[i]] \in {"call", "delegated"}
                PROVE  answers'[i] = taken'[i]
    BY DEF CallsAnswered
  <2>1. i # Len(answers) + 1  BY <1>1, <1>3
  <2>2. i \in 1 .. Len(answers)  BY <2>1, <1>2, <1>3
  <2>. QED  BY <2>2, <1>1, <1>2, <1>3 DEF ServerInv, CallsAnswered
<1>. QED  BY <1>4, <1>5, <1>6 DEF ServerInv

\* Read keeps the invariant.
LEMMA ReadKeeps == ASSUME ServerInv, Read PROVE ServerInv'
<1>. DEFINE l == Head(inbox)
<1>1. /\ l \in Lines /\ inbox' \in Seq(Lines) /\ taken' \in Seq(Lines)
      /\ Len(taken') = Len(taken) + 1 /\ taken'[Len(taken')] = l
      /\ \A i \in 1 .. Len(taken) : taken'[i] = taken[i]
  BY TakenOne DEF Read
<1>2. /\ line' = l /\ answers' = answers
      /\ reply' = IF Kind[l] = "malformed" THEN NoId ELSE l
      /\ at' = CASE Kind[l] = "initialize" -> "initialize"
                 [] Kind[l] = "call"       -> "rate"
                 [] OTHER                  -> "write"
  BY DEF Read
<1>3. /\ at' \in {"initialize", "rate", "write"}
      /\ at' = "initialize" => Kind[l] = "initialize"
  BY <1>2
<1>4. /\ Len(taken) = Len(answers) /\ Len(answers) \in Nat /\ DOMAIN answers = 1 .. Len(answers)
      /\ ~ restarting'
  BY Lengths DEF Read, ServerInv, Settled, Asking
<1>. HIDE DEF l
<1>5. ServerTypeOK'
  BY <1>1, <1>2, <1>3 DEF Read, ServerInv, ServerTypeOK, Places
<1>6. Answered'
  <2>1. Kind[l] \in {"call", "delegated"} => reply' = l  BY <1>2
  <2>2. at' = "rate" => Kind[l] = "call"  BY <1>2
  <2>. QED  BY <2>1, <2>2, <1>1, <1>2, <1>3, <1>4 DEF Answered
<1>7. (Settled /\ Asking)'  BY <1>3, <1>4 DEF Settled, Asking, Down
<1>8. CallsAnswered'  BY <1>1, <1>2, <1>4 DEF ServerInv, CallsAnswered
<1>. QED  BY <1>5, <1>6, <1>7, <1>8 DEF ServerInv

\* Initialize keeps the invariant.
LEMMA InitializeKeeps == ASSUME ServerInv, Initialize PROVE ServerInv'
<1>1. /\ line \in Lines /\ Kind[line] = "initialize" /\ line' = line
      /\ reply' \in {line, NoId} /\ at' = "write" /\ taken' = taken /\ answers' = answers
      /\ ~ restarting'
  BY DEF Initialize, ServerInv, Answered, Asking, Serving
<1>2. events' \in Seq([type : {"session_start", "pre_tool_use", "post_tool_use", "tool_error"},
                       line : Lines, session : Lines \cup {NoLine}])
  <2>1. CASE store /\ Records
    <3>1. events' = Append(events, [Row("session_start") EXCEPT !.session = line])
      BY <2>1 DEF Initialize
    <3>. QED  BY <3>1, <1>1, RowTyped DEF ServerInv
  <2>2. CASE ~ (store /\ Records)
    BY <2>2 DEF Initialize, ServerInv, ServerTypeOK
  <2>. QED  BY <2>1, <2>2
<1>3. ServerTypeOK'
  BY <1>1, <1>2 DEF Initialize, ServerInv, ServerTypeOK, Places
<1>4. (Answered /\ Settled /\ Asking)'
  BY <1>1 DEF Initialize, ServerInv, Answered, Settled, Asking, Serving, Down
<1>5. CallsAnswered'  BY <1>1 DEF ServerInv, CallsAnswered
<1>. QED  BY <1>3, <1>4, <1>5 DEF ServerInv

\* A step of a tool call keeps the invariant of the server.
LEMMA CallKeeps == ASSUME ServerInv, Rate \/ Pre \/ Run \/ Post PROVE ServerInv'
<1>1. /\ at \in {"rate", "pre", "run", "post"} /\ line \in Lines /\ line' = line
      /\ Kind[line] = "call"
      /\ reply' = reply /\ taken' = taken /\ answers' = answers
      /\ at' \in {"pre", "run", "post", "write"}
      /\ inbox' = inbox /\ session' = session /\ disk' = disk /\ faults' = faults
  BY DEF Rate, Pre, Run, Post, ServerInv, Answered, Serving
<1>2. /\ failed' \in BOOLEAN /\ restarting' \in BOOLEAN
      /\ store' \in BOOLEAN
  BY DEF Rate, Pre, Run, Post, ServerInv, ServerTypeOK, StoreNow
<1>r. Asking'
  <2>1. CASE Rate \/ Pre
    BY <2>1, <1>1 DEF Rate, Pre, ServerInv, Asking
  <2>2. CASE Run
    BY <2>2, <1>1 DEF Run, ServerInv, Asking, Restarts
  <2>3. CASE Post
    BY <2>3, <1>1 DEF Post, ServerInv, Asking
  <2>. QED  BY <2>1, <2>2, <2>3
<1>3. events' \in Seq([type : {"session_start", "pre_tool_use", "post_tool_use", "tool_error"},
                       line : Lines, session : Lines \cup {NoLine}])
  <2>1. CASE Rate \/ Run  BY <2>1 DEF Rate, Run, ServerInv, ServerTypeOK
  <2>2. CASE Pre
    <3>1. StoreNow \in BOOLEAN  BY DEF StoreNow, ServerInv, ServerTypeOK
    <3>2. Note("pre_tool_use", StoreNow)  BY <2>2 DEF Pre
    <3>. QED  BY <3>1, <3>2, <1>1, NoteTyped DEF ServerInv
  <2>3. CASE Post
    <3>1. Note(IF failed THEN "tool_error" ELSE "post_tool_use", store)  BY <2>3 DEF Post
    <3>. QED  BY <3>1, <1>1, NoteTyped DEF ServerInv, ServerTypeOK
  <2>. QED  BY <2>1, <2>2, <2>3
<1>4. ServerTypeOK'
  BY <1>1, <1>2, <1>3 DEF ServerInv, ServerTypeOK, Places
<1>5. (Answered /\ Settled)'
  BY <1>1 DEF ServerInv, Answered, Settled, Serving, Down
<1>6. CallsAnswered'  BY <1>1 DEF ServerInv, CallsAnswered
<1>. QED  BY <1>4, <1>5, <1>6, <1>r DEF ServerInv

\* Write keeps the invariant.
LEMMA WriteKeeps == ASSUME ServerInv, Write PROVE ServerInv'
<1>1. /\ line \in Lines /\ reply \in {line, NoId}
      /\ Len(taken) = Len(answers) + 1 /\ taken[Len(taken)] = line
      /\ Kind[line] \in {"call", "delegated"} => reply = line
      /\ taken' = taken /\ line' = NoLine
      /\ at' \in {"read", "leave"} /\ (restarting' => at' = "leave")
  BY DEF Write, ServerInv, Answered, Serving
<1>2. /\ answers' \in Seq(Lines \cup {NoId, Silent})
      /\ Len(answers') = Len(answers) + 1 /\ DOMAIN answers' = 1 .. Len(answers) + 1
      /\ answers'[Len(answers) + 1] = reply
      /\ \A i \in 1 .. Len(answers) : answers'[i] = answers[i]
  BY <1>1, AnsweredOne DEF Write
<1>3. Len(answers) \in Nat /\ DOMAIN answers = 1 .. Len(answers)
  BY Lengths DEF ServerInv
<1>4. ServerTypeOK'
  BY <1>1, <1>2 DEF Write, ServerInv, ServerTypeOK, Places
<1>5. (Answered /\ Settled /\ Asking)'  BY <1>1, <1>2 DEF Answered, Settled, Asking, Serving, Down
<1>6. CallsAnswered'
  <2>. SUFFICES ASSUME NEW i \in DOMAIN answers', Kind[taken[i]] \in {"call", "delegated"}
                PROVE  answers'[i] = taken[i]
    BY <1>1 DEF CallsAnswered
  <2>1. CASE i = Len(answers) + 1  BY <2>1, <1>1, <1>2
  <2>2. CASE i # Len(answers) + 1
    <3>1. i \in 1 .. Len(answers)  BY <2>2, <1>2, <1>3
    <3>. QED  BY <3>1, <1>2, <1>3 DEF ServerInv, CallsAnswered
  <2>. QED  BY <2>1, <2>2
<1>. QED  BY <1>4, <1>5, <1>6 DEF ServerInv

\* What a process that is gone took and did not answer is forgotten.
LEMMA KeptPrefix ==
  ASSUME ServerInv
  PROVE  LET s == SubSeq(taken, 1, Len(answers)) IN
         /\ s \in Seq(Lines) /\ Len(s) = Len(answers)
         /\ \A i \in 1 .. Len(answers) : s[i] = taken[i]
<1>1. taken \in Seq(Lines) /\ Len(answers) \in Nat /\ Len(answers) <= Len(taken)
  BY Lengths, Behind DEF ServerInv, ServerTypeOK
<1>2. Len(taken) \in Nat  BY Lengths DEF ServerInv
<1>. DEFINE n == Len(answers)
<1>. HIDE DEF n
<1>3. n \in Nat /\ \A i \in 1 .. n : i \in 1 .. Len(taken)  BY <1>1, <1>2 DEF n
<1>4. \A i \in 1 .. n : taken[i] \in Lines  BY <1>1, <1>3, ElementOfSeq
<1>5. /\ SubSeq(taken, 1, n) \in Seq(Lines)
      /\ Len(SubSeq(taken, 1, n)) = IF 1 <= n THEN n - 1 + 1 ELSE 0
      /\ \A i \in 1 .. n - 1 + 1 : SubSeq(taken, 1, n)[i] = taken[1 + i - 1]
  BY <1>3, <1>4, SubSeqProperties
<1>6. \A i \in 1 .. n : i \in 1 .. n - 1 + 1 /\ 1 + i - 1 = i  BY <1>3
<1>. QED  BY <1>3, <1>5, <1>6 DEF n

\* Boot keeps the invariant.
LEMMA BootKeeps == ASSUME ServerInv, Boot PROVE ServerInv'
<1>1. /\ taken' = SubSeq(taken, 1, Len(answers)) /\ answers' = answers /\ at' = "read"
      /\ inbox' = <<>> /\ line' = NoLine /\ reply' = NoId /\ failed' = FALSE
      /\ restarting' = FALSE /\ session' = NoLine /\ store' = (disk # "readonly")
      /\ disk' = disk /\ events' = events /\ faults' = faults
  BY DEF Boot
<1>2. /\ taken' \in Seq(Lines) /\ Len(taken') = Len(answers)
      /\ \A i \in 1 .. Len(answers) : taken'[i] = taken[i]
  BY <1>1, KeptPrefix
<1>3. DOMAIN answers = 1 .. Len(answers)  BY Lengths DEF ServerInv
<1>4. ServerTypeOK'
  BY <1>1, <1>2, EmptySeq DEF ServerInv, ServerTypeOK, Places
<1>5. (Answered /\ Settled /\ Asking)'  BY <1>1, <1>2 DEF Answered, Settled, Asking, Serving, Down
<1>6. CallsAnswered'  BY <1>1, <1>2, <1>3 DEF ServerInv, CallsAnswered
<1>. QED  BY <1>4, <1>5, <1>6 DEF ServerInv

\* So does what happens to the process.
LEMMA FateKeeps == ASSUME ServerInv, Leave \/ DiskChanges \/ Killed PROVE ServerInv'
<1>1. /\ \/ at' \in {"gone", "dead"} /\ disk' = disk
         \/ at' = at /\ disk' \in {"ok", "locked"}
      /\ faults' = faults \/ (faults < MaxFaults /\ faults' = faults + 1)
      /\ UNCHANGED <<inbox, line, reply, failed, restarting, session, store, events,
                     taken, answers>>
  <2>1. CASE Leave        BY <2>1 DEF Leave
  <2>2. CASE DiskChanges  BY <2>2 DEF DiskChanges
  <2>3. CASE Killed       BY <2>3 DEF Killed
  <2>. QED  BY <2>1, <2>2, <2>3
<1>2. ServerTypeOK'
  <2>1. faults' \in 0 .. MaxFaults
    BY <1>1, ServerAssumption DEF ServerInv, ServerTypeOK
  <2>. QED  BY <2>1, <1>1 DEF ServerInv, ServerTypeOK, Places
<1>3. (Answered /\ Settled /\ Asking)'
  BY <1>1, Behind DEF ServerInv, Answered, Settled, Asking, Serving, Down
<1>4. CallsAnswered'  BY <1>1 DEF ServerInv, CallsAnswered
<1>. QED  BY <1>2, <1>3, <1>4 DEF ServerInv

\* So does what leaves the server alone.
LEMMA RestKeeps == ASSUME ServerInv, UNCHANGED serverVars PROVE ServerInv'
BY DEF ServerInv, ServerTypeOK, Answered, Settled, Asking, CallsAnswered, serverVars, Down

\* So does any step.
LEMMA ServerKeeps == ASSUME ServerInv, [ServerNext]_serving PROVE ServerInv'
<1>1. ASSUME (Tick \/ SetClock) /\ UNCHANGED serverVars PROVE ServerInv'
  BY <1>1, RestKeeps
<1>2. ASSUME NEW l \in Lines, Send(l) PROVE ServerInv'  BY <1>2, SendKeeps
<1>3. ASSUME Serve PROVE ServerInv'
  BY <1>3, FateKeeps, SkipKeeps, ReadKeeps, InitializeKeeps, CallKeeps, WriteKeeps DEF Serve
<1>4. ASSUME DiskChanges \/ Killed \/ Boot PROVE ServerInv'
  BY <1>4, FateKeeps, BootKeeps
<1>5. ASSUME UNCHANGED serving PROVE ServerInv'
  BY <1>5, RestKeeps DEF serving
<1>. QED  BY <1>1, <1>2, <1>3, <1>4, <1>5 DEF ServerNext

-----------------------------------------------------------------------------
(* Theorems.                                                               *)

\* It holds in every behaviour.
LEMMA Inductive == ServerSpec => []ServerInv
BY ServerBegins, ServerKeeps, PTL DEF ServerSpec

\* A call is answered with its own id, whatever its handler, the limiter and
\* the event store do (mcp_server.py:2705).
THEOREM AnswersAlwaysHold == ServerSpec => []AnswersHold
<1>1. ServerInv => AnswersHold  BY DEF ServerInv, AnswersHold
<1>. QED  BY <1>1, Inductive, PTL

\* The limiter inside the server: only a call that the loop serves changes a
\* bucket, and a process that starts has none.
LEMMA LimiterKeeps ==
  ASSUME ServerInv, LimiterInv, [ServerNext]_serving
  PROVE  LimiterInv'
<1>1. CASE Tick \/ SetClock  BY <1>1, TickKeeps, SetClockKeeps
<1>2. CASE Rate
  <2>1. line \in Lines  BY <1>2 DEF Rate, ServerInv, Answered, Serving
  <2>2. ToolOf[line] \in Limited  BY <2>1, ServerAssumption
  <2>3. UNCHANGED timeVars  BY <1>2 DEF Rate
  <2>4. Grant(ToolOf[line]) \/ Refuse(ToolOf[line])  BY <1>2 DEF Rate
  <2>. QED  BY <2>2, <2>3, <2>4, GrantKeeps, RefuseKeeps
<1>3. CASE Boot
  <2>1. /\ UNCHANGED timeVars /\ bucket' = [t \in Limited |-> Missing]
        /\ granted' = [t \in Limited |-> <<>>] /\ promised' = [t \in Limited |-> Never]
    BY <1>3 DEF Boot
  <2>. QED  BY <2>1, BucketsRestart
<1>4. CASE UNCHANGED limiterVars
  <2>1. ASSUME NEW t \in Limited PROVE (Seen(t) /\ PaidFor(t) /\ Window(t) /\ Kept(t))'
    BY <1>4, OthersStay DEF limiterVars, timeVars, toolVars
  <2>2. LimiterTypeOK'
    BY <1>4 DEF LimiterInv, LimiterTypeOK, limiterVars, timeVars, toolVars
  <2>. QED  BY <2>1, <2>2 DEF LimiterInv
<1>5. ASSUME NEW l \in Lines, Send(l) PROVE UNCHANGED limiterVars  BY <1>5 DEF Send
<1>6. ASSUME Leave \/ Skip \/ Read \/ Initialize \/ Pre \/ Run \/ Post \/ Write
      PROVE  UNCHANGED limiterVars
  BY <1>6 DEF Leave, Skip, Read, Initialize, Pre, Run, Post, Write
<1>7. ASSUME DiskChanges \/ Killed PROVE UNCHANGED limiterVars
  BY <1>7 DEF DiskChanges, Killed
<1>8. ASSUME UNCHANGED serving PROVE UNCHANGED limiterVars  BY <1>8 DEF serving
<1>. QED  BY <1>1, <1>2, <1>3, <1>4, <1>5, <1>6, <1>7, <1>8 DEF ServerNext, Serve

\* No stretch of time lets more calls of a tool through than a full bucket and
\* its refill, and a caller that waited as long as it was told is let through,
\* or is short of a token by no more than the rounding of what it was told, half
\* a millisecond's refill (ratelimit.py:88).
THEOREM LimiterAlwaysHolds == ServerSpec => []LimiterHolds
<1>1. ServerInit => LimiterInv  BY BucketsBegin DEF ServerInit
<1>2. ServerSpec => []LimiterInv
  BY <1>1, Inductive, LimiterKeeps, PTL DEF ServerSpec
<1>. QED  BY <1>2, LimiterInvHolds, PTL

-----------------------------------------------------------------------------
(* The server implements the service.                                      *)

\* The server begins as the service does.
LEMMA ServiceBegins == ServerInit => S!Init
<1>. SUFFICES ASSUME ServerInit PROVE S!Init  OBVIOUS
<1>1. at = "read" /\ taken = <<>> /\ inbox = <<>> /\ answers = <<>>  BY DEF ServerInit
<1>2. <<>> \o <<>> = <<>>
  <2>1. <<>> \in Seq(Lines)  BY EmptySeq
  <2>. QED  BY <2>1, ConcatEmptySeq
<1>. QED  BY <1>1, <1>2 DEF S!Init, Asked, Process, Down

\* While the server is up, what was asked grows at the end.
LEMMA SendAsks == ASSUME ServerInv, NEW l \in Lines, Send(l) PROVE S!Ask
<1>1. /\ taken \in Seq(Lines) /\ inbox \in Seq(Lines)
      /\ at \in Places /\ ~ Down /\ at' = at /\ taken' = taken
      /\ inbox' = Append(inbox, l) /\ answers' = answers
  BY DEF Send, ServerInv, ServerTypeOK
<1>2. /\ taken \o inbox \in Seq(Lines) /\ <<l>> \in Seq(Lines)
      /\ Append(inbox, l) = inbox \o <<l>>
  BY <1>1, ConcatProperties, AppendIsConcat
<1>3. taken \o Append(inbox, l) = Append(taken \o inbox, l)
  <2>1. (taken \o inbox) \o <<l>> = taken \o (inbox \o <<l>>)
    BY <1>1, <1>2, ConcatAssociative
  <2>2. Append(taken \o inbox, l) = (taken \o inbox) \o <<l>>
    BY <1>2, AppendIsConcat
  <2>. QED  BY <1>2, <2>1, <2>2
<1>4. Asked' = Append(Asked, l)  BY <1>1, <1>3 DEF Asked, Down
<1>5. Process' = Process /\ Process \in {"up", "leaving"}
  BY <1>1 DEF Process, Down, Places
<1>. QED  BY <1>1, <1>4, <1>5 DEF S!Ask

\* A line that is taken is the first of those that wait.
LEMMA TakingMoves ==
  ASSUME ServerInv, inbox # <<>>, taken' = Append(taken, Head(inbox)), inbox' = Tail(inbox)
  PROVE  taken' \o inbox' = taken \o inbox
<1>. DEFINE h == Head(inbox)
<1>1. taken \in Seq(Lines) /\ inbox \in Seq(Lines) /\ Len(inbox) \in Nat \ {0}
  BY EmptySeq DEF ServerInv, ServerTypeOK
<1>2. h \in Lines /\ Tail(inbox) \in Seq(Lines) /\ <<h>> \in Seq(Lines)
  BY <1>1, HeadTailProperties
<1>3. inbox = <<h>> \o Tail(inbox)
  <2>1. 1 \in 1 .. Len(inbox) /\ Len(inbox) \in 1 .. Len(inbox)  BY <1>1
  <2>2. SubSeq(inbox, 1, Len(inbox)) = <<inbox[1]>> \o SubSeq(inbox, 1 + 1, Len(inbox))
    BY <1>1, <2>1, SubSeqRecursiveFirst
  <2>3. SubSeq(inbox, 1, Len(inbox)) = inbox  BY <1>1, SubSeqFull
  <2>4. Tail(inbox) = SubSeq(inbox, 2, Len(inbox))  BY <1>1, TailIsSubSeq
  <2>5. h = inbox[1] /\ 1 + 1 = 2  OBVIOUS
  <2>. QED  BY <2>2, <2>3, <2>4, <2>5
<1>4. taken' = taken \o <<h>>  BY <1>1, <1>2, AppendIsConcat
<1>. HIDE DEF h
<1>5. (taken \o <<h>>) \o Tail(inbox) = taken \o (<<h>> \o Tail(inbox))
  BY <1>1, <1>2, ConcatAssociative
<1>. QED  BY <1>3, <1>4, <1>5

\* What was taken is the beginning of what was asked.
LEMMA TakenFirst ==
  ASSUME ServerInv
  PROVE  /\ Len(taken \o inbox) \in Nat /\ Len(taken) \in Nat
         /\ Len(taken \o inbox) = Len(taken) + Len(inbox)
         /\ Len(inbox) \in Nat
         /\ \A i \in 1 .. Len(taken) : (taken \o inbox)[i] = taken[i]
<1>1. taken \in Seq(Lines) /\ inbox \in Seq(Lines)  BY DEF ServerInv, ServerTypeOK
<1>2. Len(taken) \in Nat /\ Len(inbox) \in Nat  BY <1>1, LenProperties
<1>3. /\ Len(taken \o inbox) = Len(taken) + Len(inbox)
      /\ \A i \in 1 .. Len(taken) + Len(inbox) :
           (taken \o inbox)[i] = IF i <= Len(taken) THEN taken[i] ELSE inbox[i - Len(taken)]
  BY <1>1, ConcatProperties
<1>. QED  BY <1>2, <1>3

\* A line passed over is answered by silence.
LEMMA SkipAnswers == ASSUME ServerInv, Skip PROVE S!Answer
<1>1. /\ at = "read" /\ at' = "read" /\ inbox # <<>> /\ Len(taken) = Len(answers)
      /\ taken' = Append(taken, Head(inbox)) /\ inbox' = Tail(inbox)
      /\ answers' = Append(answers, Silent)
  BY DEF Skip, ServerInv, Settled
<1>2. Asked' = Asked  BY <1>1, TakingMoves DEF Asked, Down
<1>3. Len(inbox) \in Nat \ {0}  BY <1>1, EmptySeq DEF ServerInv, ServerTypeOK
<1>4. Len(answers) < Len(Asked)  BY <1>1, <1>3, TakenFirst DEF Asked, Down
<1>5. Process = "up" /\ Process' = "up"  BY <1>1 DEF Process
<1>. QED  BY <1>1, <1>2, <1>4, <1>5 DEF S!Answer

\* An answer is to the oldest line that has none, and one that asked for a
\* restart has its own before the loop is left.
LEMMA WriteAnswers == ASSUME ServerInv, Write PROVE S!Answer
<1>1. /\ at = "write" /\ at' = IF restarting THEN "leave" ELSE "read"
      /\ taken' = taken /\ inbox' = inbox
      /\ Len(taken) = Len(answers) + 1 /\ taken[Len(taken)] \in {line}
      /\ reply \in {line, NoId} /\ answers' = Append(answers, reply)
      /\ Kind[line] = "call" => reply = line
      /\ restarting => line \in Restarts
  BY DEF Write, ServerInv, Answered, Asking, Serving
<1>2. Asked' = Asked /\ Asked = taken \o inbox  BY <1>1 DEF Asked, Down
<1>6. /\ Process = "up" /\ Process' = (IF restarting THEN "leaving" ELSE "up")
      /\ restarting => line \in Restarts /\ reply = line
  BY <1>1 DEF Process, Restarts
<1>3. Len(answers) \in Nat  BY Lengths DEF ServerInv
<1>4. Len(answers) < Len(Asked)  BY <1>1, <1>2, <1>3, TakenFirst
<1>5. Asked[Len(answers) + 1] = line
  <2>1. Len(taken) \in 1 .. Len(taken)  BY <1>1, <1>3
  <2>2. (taken \o inbox)[Len(taken)] = taken[Len(taken)]  BY <2>1, TakenFirst
  <2>. QED  BY <1>1, <1>2, <2>2
<1>. QED  BY <1>1, <1>2, <1>4, <1>5, <1>6 DEF S!Answer

\* A process that ends loses what it did not answer.
LEMMA EndLoses == ASSUME ServerInv, Leave \/ Killed PROVE S!Leave \/ S!Kill
<1>1. /\ at \in Places /\ ~ Down /\ at' \in {"gone", "dead"}
      /\ at' = "gone" => at = "leave"
      /\ taken' = taken /\ answers' = answers
  BY DEF Leave, Killed, Down, ServerInv, ServerTypeOK
<1>2. /\ taken \in Seq(Lines) /\ inbox \in Seq(Lines)
      /\ Len(answers) \in Nat /\ Len(taken) \in Nat /\ Len(answers) <= Len(taken)
  BY Lengths, Behind DEF ServerInv, ServerTypeOK
<1>3. SubSeq(taken \o inbox, 1, Len(answers)) = SubSeq(taken, 1, Len(answers))
  <2>1. CASE Len(answers) = 0
    <3>1. \A s : SubSeq(s, 1, 0) = <<>>  BY SubSeqEmpty
    <3>. QED  BY <2>1, <3>1
  <2>2. CASE Len(answers) # 0
    <3>1. 1 \in 1 .. Len(taken) /\ Len(answers) \in 1 .. Len(taken)  BY <2>2, <1>2
    <3>. QED  BY <3>1, <1>2, SubSeqOfConcat1
  <2>. QED  BY <2>1, <2>2
<1>4. S!Lose  BY <1>1, <1>3 DEF S!Lose, Asked, Down
<1>5. \/ Process = "leaving" /\ Process' = "left"
      \/ Process \in {"up", "leaving"} /\ Process' = "killed"
  BY <1>1 DEF Process, Down, Places
<1>. QED  BY <1>4, <1>5 DEF S!Leave, S!Kill

\* A process that starts knows of nothing asked, and what was answered stays.
LEMMA BootBoots == ASSUME ServerInv, Boot PROVE S!Boot
<1>1. /\ Down /\ at' = "read" /\ answers' = answers /\ inbox' = <<>>
      /\ taken' = SubSeq(taken, 1, Len(answers))
  BY DEF Boot
<1>2. taken' \o <<>> = taken'  BY <1>1, KeptPrefix, ConcatEmptySeq
<1>3. Asked' = Asked  BY <1>1, <1>2 DEF Asked, Down
<1>4. Process \in {"left", "killed"} /\ Process' = "up"  BY <1>1 DEF Process, Down
<1>. QED  BY <1>1, <1>3, <1>4 DEF S!Boot

\* What happens inside the server is not seen.
LEMMA UnseenSteps ==
  ASSUME ServerInv,
         \/ Read \/ Initialize \/ Rate \/ Pre \/ Run \/ Post \/ DiskChanges
         \/ UNCHANGED serverVars
  PROVE  UNCHANGED <<Asked, answers, Process>>
<1>1. CASE Read
  <2>1. taken' \o inbox' = taken \o inbox  BY <1>1, TakingMoves DEF Read
  <2>2. at = "read" /\ at' \in {"initialize", "rate", "write"} /\ answers' = answers
    BY <1>1 DEF Read
  <2>. QED  BY <2>1, <2>2 DEF Asked, Process, Down
<1>2. CASE Initialize \/ Rate \/ Pre \/ Run \/ Post
  <2>1. /\ at \in Serving /\ at' \in Serving
        /\ taken' = taken /\ inbox' = inbox /\ answers' = answers
    BY <1>2 DEF Initialize, Rate, Pre, Run, Post, Serving
  <2>. QED  BY <2>1 DEF Asked, Process, Down, Serving
<1>3. CASE DiskChanges \/ UNCHANGED serverVars
  BY <1>3 DEF DiskChanges, serverVars, Asked, Process, Down
<1>. QED  BY <1>1, <1>2, <1>3

\* A client sees lines served one at a time, in order, each answered once at
\* most and never as another's, and the server leave only when the restart it
\* was asked for has been answered (mcp_server.py:2767).
THEOREM ServerImplementsService == ServerSpec => ImplementsService
<1>1. ASSUME ServerInv, [ServerNext]_serving PROVE [S!Next]_(S!vars)
  <2>1. ASSUME NEW l \in Lines, Send(l) PROVE S!Next  BY <2>1, <1>1, SendAsks DEF S!Next
  <2>2. CASE Skip \/ Write   BY <2>2, <1>1, SkipAnswers, WriteAnswers DEF S!Next
  <2>3. CASE Leave \/ Killed  BY <2>3, <1>1, EndLoses DEF S!Next
  <2>4. CASE Boot  BY <2>4, <1>1, BootBoots DEF S!Next
  <2>5. CASE \/ Read \/ Initialize \/ Rate \/ Pre \/ Run \/ Post \/ DiskChanges
            \/ UNCHANGED serverVars
    BY <2>5, <1>1, UnseenSteps DEF S!vars
  <2>6. UNCHANGED serving => UNCHANGED serverVars  BY DEF serving
  <2>. QED  BY <1>1, <2>1, <2>2, <2>3, <2>4, <2>5, <2>6 DEF ServerNext, Serve
<1>. QED  BY <1>1, ServiceBegins, Inductive, PTL DEF ServerSpec, ImplementsService, S!Spec
=============================================================================
