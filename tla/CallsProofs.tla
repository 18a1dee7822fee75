------------------------------ MODULE CallsProofs ------------------------------
(***************************************************************************)
(* Theorems about MCCalls and the modules it is made of, for any value of   *)
(* their constants.  Each module has an inductive invariant of its own; a   *)
(* step of the composition is one of a single module, and leaves what the   *)
(* invariants of the others speak of alone.                                 *)
(***************************************************************************)
EXTENDS MCCalls, FiniteSetTheorems, FunctionTheorems, SequenceTheorems, TLAPS

-----------------------------------------------------------------------------
(* Daemon. *)

USE AbsentAssumption DEF Readers, Commands, Hosts, Foreign, None, Mishap, Misuse

\* Misuse that was met is met for good.
LEMMA MetTyped ==
  ASSUME trouble \in {None, Mishap, Misuse}, NEW e \in {None, Mishap, Misuse}, Met(e)
  PROVE  /\ trouble' \in {None, Mishap, Misuse}
         /\ trouble' # Misuse => trouble # Misuse /\ e # Misuse
BY DEF Met

\* A process that exits keeps the types.
LEMMA ExitTyped ==
  ASSUME TypeOK, NEW p \in Pids, Exit(p), file' \in Pids \cup {Absent},
         trouble' \in {None, Mishap, Misuse}
  PROVE  TypeOK'
BY DEF TypeOK, Exit

\* It holds in the first states.
LEMMA TypeInit == Init => TypeOK
BY DEF Init, TypeOK

\* A step of a process keeps the types.
LEMMA StepTyped ==
  ASSUME TypeOK, NEW p \in Pids, Step(p)
  PROVE  TypeOK'
<1>1. CASE Look(p)
  BY <1>1, ExitTyped DEF Look, Goto, TypeOK
<1>2. CASE Read(p)
  BY <1>2, ExitTyped DEF Read, Goto, TypeOK
<1>3. CASE Probe(p)
  BY <1>3, ExitTyped DEF Probe, Goto, TypeOK
<1>4. CASE Terminate(p)
  <2>1. PICK dead \in SUBSET Pids :
          /\ role' = [q \in Pids |-> IF q \in dead THEN "none" ELSE role[q]]
          /\ at' = [q \in Pids |-> IF q \in dead THEN "end"
                                   ELSE IF q = p THEN "unlink" ELSE at[q]]
          /\ seen' = [q \in Pids |-> IF q \in dead THEN Absent ELSE seen[q]]
    BY <1>4 DEF Terminate, TypeOK
  <2>. QED BY <1>4, <2>1 DEF Terminate, TypeOK
<1>5. CASE Unlink(p)
  BY <1>5, ExitTyped DEF Unlink, Goto, TypeOK
<1>6. CASE Fork(p)
  BY <1>6 DEF Fork, TypeOK
<1>7. CASE Write(p)
  BY <1>7 DEF Write, Goto, TypeOK
<1>. QED BY <1>1, <1>2, <1>3, <1>4, <1>5, <1>6, <1>7 DEF Step

\* Every step keeps it.
LEMMA TypeStep ==
  ASSUME TypeOK, [Next]_vars
  PROVE  TypeOK'
<1>1. ASSUME NEW p \in Pids, NEW c \in Commands, Launch(p, c) PROVE TypeOK'
  <2>1. trouble' \in {None, Mishap, Misuse}
    BY <1>1, MetTyped DEF Launch, TypeOK
  <2>. QED BY <1>1, <2>1 DEF Launch, TypeOK
<1>2. ASSUME NEW p \in Pids, Finish(p) PROVE TypeOK'
  BY <1>2, ExitTyped DEF Finish, Goto, TypeOK
<1>3. ASSUME NEW p \in Pids, Machine(p) PROVE TypeOK'
  <2>1. CASE Crash(p)
    <3>1. trouble' \in {None, Mishap, Misuse}
      BY <2>1, MetTyped DEF Crash, TypeOK
    <3>. QED BY <2>1, <3>1, ExitTyped DEF Crash, TypeOK
  <2>2. CASE Recycle(p)
    <3>1. trouble' \in {None, Mishap, Misuse}
      BY <2>2, MetTyped DEF Recycle, TypeOK
    <3>. QED BY <2>2, <3>1 DEF Recycle, TypeOK
  <2>3. CASE StrangerExits(p)
    BY <2>3, ExitTyped DEF StrangerExits, TypeOK
  <2>. QED BY <1>3, <2>1, <2>2, <2>3 DEF Machine
<1>4. CASE UNCHANGED vars
  BY <1>4 DEF TypeOK, vars
<1>. QED BY <1>1, <1>2, <1>3, <1>4, StepTyped DEF Next

-----------------------------------------------------------------------------

Orderly == OneBusy /\ Recorded /\ SeenRuns /\ Clear /\ Only

(* Order once lost is not restored. *)
LEMMA MisuseStays ==
  ASSUME TypeOK, [Next]_vars, trouble' # Misuse
  PROVE  trouble # Misuse
<1>1. ASSUME NEW p \in Pids, NEW c \in Commands, Launch(p, c) PROVE trouble # Misuse
  BY <1>1, MetTyped DEF Launch, TypeOK
<1>2. ASSUME NEW p \in Pids, Machine(p) PROVE trouble # Misuse
  BY <1>2, MetTyped DEF Machine, Crash, Recycle, StrangerExits, TypeOK
<1>3. CASE UNCHANGED trouble
  BY <1>3
<1>. QED BY <1>1, <1>2, <1>3 DEF Next, vars, Step, Look, Read, Probe, Terminate, Unlink,
                                Fork, Write, Finish

(* A process ends, and no watcher appears. *)
LEMMA ExitOrderly ==
  ASSUME TypeOK, Orderly, NEW p \in Pids, Exit(p),
         file' = file \/ \A q \in Pids \ {p} : ~Watching(q)
  PROVE  Orderly'
BY DEF TypeOK, Orderly, OneBusy, Recorded, SeenRuns, Clear, Only, Exit, Busy, Watching

\* A process that is launched finds and leaves the record in order.
LEMMA LaunchOrderly ==
  ASSUME TypeOK, Orderly, NEW p \in Pids, NEW c \in Commands, Launch(p, c),
         trouble' # Misuse
  PROVE  Orderly'
<1>1. c \in {"daemon", "status"} /\ \A q \in Pids : ~Busy(q)
  BY MetTyped DEF Launch, TypeOK
<1>2. \A q \in Pids : at[q] \in {"end", "watching"}
  BY <1>1 DEF Orderly, Only, Busy
<1>3. /\ role'[p] = c /\ at'[p] = "look" /\ ~Watching(p)
      /\ \A q \in Pids \ {p} : role'[q] = role[q] /\ at'[q] = at[q]
      /\ UNCHANGED <<file, seen>>
  BY <1>1 DEF Launch, TypeOK, Watching
<1>. QED BY <1>1, <1>2, <1>3 DEF Orderly, OneBusy, Recorded, SeenRuns, Clear, Only, Busy, Watching

(* Only one process can be at a step of a command, and it is no watcher. *)
LEMMA Alone ==
  ASSUME TypeOK, Orderly, NEW p \in Pids, at[p] \notin {"end", "watching"}
  PROVE  /\ Busy(p) /\ ~Watching(p)
         /\ \A q \in Pids \ {p} : at[q] \in {"end", "watching"}
BY DEF TypeOK, Orderly, OneBusy, Only, Busy, Watching

(* The busy process moves on; where to, the file and the watchers allow. *)
LEMMA GotoOrderly ==
  ASSUME TypeOK, Orderly, NEW p \in Pids, at[p] \notin {"end", "watching"},
         NEW to \in {"read", "signal", "unlink", "fork"}, Goto(p, to),
         file' = file \/ \A q \in Pids : ~Watching(q),
         to = "signal" => \A q \in Pids : Watching(q) => seen'[p] = q,
         to \in {"unlink", "fork"} => \A q \in Pids : ~Watching(q)
  PROVE  Orderly'
<1>1. /\ Busy(p) /\ ~Watching(p)
      /\ \A q \in Pids \ {p} : at[q] \in {"end", "watching"}
  BY Alone
<1>2. /\ at'[p] = to /\ UNCHANGED role
      /\ \A q \in Pids \ {p} : at'[q] = at[q]
  BY DEF Goto, TypeOK
<1>. QED BY <1>1, <1>2 DEF Orderly, OneBusy, Recorded, SeenRuns, Clear, Only, Busy, Watching

\* So does each of its steps.
LEMMA StepOrderly ==
  ASSUME TypeOK, Orderly, NEW p \in Pids, Step(p)
  PROVE  Orderly'
<1>1. CASE Look(p)
  <2>1. file = Absent => \A q \in Pids : ~Watching(q)
    BY DEF Orderly, Recorded
  <2>. QED BY <1>1, <2>1, ExitOrderly, GotoOrderly DEF Look
<1>2. CASE Read(p)
  <2>1. CASE Exit(p)
    BY <1>2, <2>1, ExitOrderly DEF Read
  <2>2. CASE seen' = [seen EXCEPT ![p] = file] /\ Goto(p, "signal")
    <3>1. \A q \in Pids : Watching(q) => seen'[p] = q
      BY <2>2 DEF Orderly, Recorded, TypeOK
    <3>. QED BY <1>2, <2>2, <3>1, GotoOrderly DEF Read
  <2>. QED BY <1>2, <2>1, <2>2 DEF Read
<1>3. CASE Probe(p)
  <2>1. CASE Exit(p)
    BY <1>3, <2>1, ExitOrderly DEF Probe
  <2>2. CASE role[seen[p]] \in Foreign /\ Goto(p, "unlink")
    <3>1. \A q \in Pids : ~Watching(q)
      BY <1>3, <2>2 DEF Probe, Orderly, SeenRuns, Watching
    <3>. QED BY <1>3, <2>2, <3>1, GotoOrderly DEF Probe
  <2>. QED BY <1>3, <2>1, <2>2 DEF Probe
<1>4. CASE Terminate(p)
  BY <1>4 DEF Terminate, Orderly, Only
<1>5. CASE Unlink(p)
  <2>1. \A q \in Pids : ~Watching(q)
    BY <1>5 DEF Unlink, Orderly, Clear
  <2>. QED BY <1>5, <2>1, ExitOrderly, GotoOrderly DEF Unlink
<1>6. CASE Fork(p)
  <2>1. /\ \A q \in Pids : ~Watching(q)
        /\ \A q \in Pids \ {p} : at[q] \in {"end", "watching"}
    BY <1>6, Alone DEF Fork, Orderly, Clear
  <2>2. PICK q \in Pids :
          /\ role[q] = "none" /\ q # p
          /\ role'[p] = "none" /\ at'[p] = "end"
          /\ role'[q] = "grandchild" /\ at'[q] = "write"
          /\ \A r \in Pids \ {p, q} : role'[r] = role[r] /\ at'[r] = at[r]
    BY <1>6 DEF Fork, TypeOK, Orderly, Only
  <2>3. \A r \in Pids : ~Watching(r)' /\ (Busy(r)' => r = q) /\ (at'[r] # "signal")
    <3>. SUFFICES ASSUME NEW r \in Pids
                  PROVE  ~Watching(r)' /\ (Busy(r)' => r = q) /\ (at'[r] # "signal")
      OBVIOUS
    <3>1. CASE r \in {p, q}
      BY <2>2, <3>1 DEF Watching, Busy
    <3>2. CASE r \notin {p, q}
      BY <2>1, <2>2, <3>2 DEF Watching, Busy, Orderly, Only
    <3>. QED BY <3>1, <3>2
  <2>4. Only'
    BY <2>2 DEF Orderly, Only
  <2>. QED BY <2>3, <2>4 DEF Orderly, OneBusy, Recorded, SeenRuns, Clear
<1>7. CASE Write(p)
  <2>1. /\ \A q \in Pids : ~Watching(q)
        /\ \A q \in Pids \ {p} : at[q] \in {"end", "watching"}
        /\ Busy(p)
    BY <1>7, Alone DEF Write, Orderly, Clear
  <2>2. /\ file' = p /\ at'[p] = "watching" /\ UNCHANGED role
        /\ \A q \in Pids \ {p} : at'[q] = at[q]
    BY <1>7 DEF Write, Goto, TypeOK
  <2>. QED BY <2>1, <2>2 DEF Orderly, OneBusy, Recorded, SeenRuns, Clear, Only, Busy, Watching
<1>. QED BY <1>1, <1>2, <1>3, <1>4, <1>5, <1>6, <1>7 DEF Step

\* So does what else happens to a process.
LEMMA RestOrderly ==
  ASSUME TypeOK, Orderly, NEW p \in Pids, Finish(p) \/ Machine(p)
  PROVE  Orderly'
<1>1. CASE Finish(p)
  <2>1. role[p] # "run" /\ \A q \in Pids \ {p} : ~Watching(q)
    BY <1>1 DEF Finish, Orderly, Only, Recorded
  <2>. QED BY <1>1, <2>1, ExitOrderly DEF Finish
<1>2. CASE Crash(p) \/ StrangerExits(p)
  BY <1>2, ExitOrderly DEF Crash, StrangerExits
<1>3. CASE Recycle(p)
  <2>1. /\ role[p] = "none" /\ role'[p] = "stranger" /\ UNCHANGED <<file, at, seen>>
        /\ \A q \in Pids \ {p} : role'[q] = role[q]
    BY <1>3 DEF Recycle, TypeOK
  <2>. QED BY <2>1 DEF Orderly, OneBusy, Recorded, SeenRuns, Clear, Only, Busy, Watching
<1>. QED BY <1>1, <1>2, <1>3 DEF Machine

\* The invariant holds in the first states.
LEMMA DaemonStart == Init => IndInv
<1>1. Init => Orderly
  BY DEF Init, Orderly, OneBusy, Recorded, SeenRuns, Clear, Only, Busy, Watching
<1>. QED BY <1>1, TypeInit DEF IndInv, Orderly

\* Every step keeps it.
LEMMA DaemonStep == IndInv /\ [Next]_vars => IndInv'
<1>. SUFFICES ASSUME IndInv, [Next]_vars PROVE IndInv'
  OBVIOUS
<1>1. TypeOK /\ TypeOK'
  BY TypeStep DEF IndInv
<1>2. ASSUME trouble' # Misuse PROVE Orderly'
  <2>1. trouble # Misuse
    BY <1>1, <1>2, MisuseStays
  <2>2. Orderly
    BY <2>1 DEF IndInv, Orderly
  <2>3. CASE UNCHANGED vars
    BY <2>2, <2>3 DEF vars, Orderly, OneBusy, Recorded, SeenRuns, Clear, Only, Busy, Watching
  <2>. QED BY <1>1, <1>2, <2>2, <2>3, LaunchOrderly, StepOrderly, RestOrderly DEF Next
<1>. QED BY <1>1, <1>2 DEF IndInv, Orderly

\* It holds in every behaviour.
LEMMA DaemonInductive == Spec => []IndInv
BY DaemonStart, DaemonStep, PTL DEF Spec

(* Every variable keeps its type: a command signals only a pid it has read. *)
THEOREM TypeCorrect == Spec => []TypeOK
<1>1. IndInv => TypeOK
  BY DEF IndInv
<1>. QED BY <1>1, DaemonInductive, PTL

(* cmd_daemon and cmd_status, one at a time, never leave two watchers running: *)
(* the record they read is that of the watcher, if one runs, and they remove   *)
(* it only when none does.                                                     *)
THEOREM OneWatcherAlways == Spec => []OneWatcher
<1>1. IndInv => OneWatcher
  BY DEF IndInv, Recorded, OneWatcher
<1>. QED BY <1>1, DaemonInductive, PTL

HIDE AbsentAssumption DEF Readers, Commands, Hosts, Foreign, None, Mishap, Misuse

-----------------------------------------------------------------------------
(* Bridge. *)

USE BoundsAssumption DEF FaultKinds, Threads, Workers, NoWorker, Nobody, Noise

\* It holds in the first states.
LEMMA BridgeTypeInit == BridgeInit => BridgeTypeOK
BY DEF BridgeInit, BridgeTypeOK

\* A fault is counted, and noise as noise only.
LEMMA FaultTyped ==
  ASSUME BridgeTypeOK, NEW k \in FaultKinds, Fault(k)
  PROVE  /\ faults' \in [FaultKinds -> Nat]
         /\ faults'["noise"] >= faults["noise"]
         /\ k # "noise" => faults'["noise"] = faults["noise"]
         /\ k = "noise" => faults'["noise"] > 0
<1>1. /\ faults \in [FaultKinds -> Nat] /\ faults[k] \in Nat /\ faults["noise"] \in Nat
      /\ faults' = [faults EXCEPT ![k] = faults[k] + 1]
  BY DEF BridgeTypeOK, Fault
<1>2. faults' \in [FaultKinds -> Nat]
  BY <1>1
<1>3. CASE k = "noise"
  BY <1>1, <1>2, <1>3
<1>4. CASE k # "noise"
  BY <1>1, <1>2, <1>4
<1>. QED BY <1>2, <1>3, <1>4

\* A call that returns keeps the types.
LEMMA ReturnTyped ==
  ASSUME BridgeTypeOK, NEW t \in Threads,
         NEW r \in {"ok", "raised", "garbled", "desync", "broken"}, Return(t, r)
  PROVE  /\ pc' \in [Threads -> {"idle", "acquire", "start", "send", "read"}]
         /\ req' \in [Threads -> Nat]
         /\ reader' \in [Threads -> Workers \cup {NoWorker}]
         /\ result' \in [Threads -> {"none", "ok", "raised", "garbled", "desync", "broken"}]
         /\ lock' \in Threads \cup {Nobody}
BY DEF BridgeTypeOK, Return, MoveTo

(* A thread waits for a worker that exists. *)
LEMMA ReaderTyped ==
  ASSUME BridgeTypeOK, Unspawned, NEW t \in Threads, pc[t] = "read"
  PROVE  reader[t] \in Workers
BY DEF BridgeTypeOK, Unspawned

\* A step of a call keeps the types.
LEMMA CallStepTyped ==
  ASSUME BridgeTypeOK, Unspawned, NEW t \in Threads, CallStep(t)
  PROVE  BridgeTypeOK'
<1>1. CASE Acquire(t)
  BY <1>1 DEF Acquire, MoveTo, BridgeTypeOK, agent, client, worker
<1>2. CASE Start(t)
  <2>1. /\ spawned' \in 0 .. MaxWorkers
        /\ proc' \in Workers \cup {NoWorker}
        /\ status' \in [Workers -> {"up", "wedged", "dying", "dead"}]
    <3>1. CASE UNCHANGED <<proc, spawned, status>>
      BY <3>1 DEF BridgeTypeOK
    <3>2. CASE Spawn
      BY <3>2 DEF Spawn, BridgeTypeOK
    <3>. QED BY <1>2, <3>1, <3>2 DEF Start
  <2>2. pc' \in [Threads -> {"idle", "acquire", "start", "send", "read"}]
    BY <1>2 DEF Start, MoveTo, BridgeTypeOK
  <2>. QED BY <1>2, <2>1, <2>2 DEF Start, BridgeTypeOK, agent
<1>3. CASE Send(t)
  <2>1. seq + 1 \in Nat /\ proc \in Workers
    BY <1>3 DEF Send, BridgeTypeOK
  <2>2. inbox' \in [Workers -> Seq(Nat)]
    BY <1>3, <2>1 DEF Send, BridgeTypeOK
  <2>3. /\ pc' \in [Threads -> {"idle", "acquire", "start", "send", "read"}]
        /\ req' \in [Threads -> Nat]
        /\ reader' \in [Threads -> Workers \cup {NoWorker}]
    BY <1>3, <2>1 DEF Send, MoveTo, BridgeTypeOK
  <2>. QED BY <1>3, <2>1, <2>2, <2>3 DEF Send, BridgeTypeOK, agent
<1>4. CASE SendFails(t)
  <2>1. seq' \in Nat
    BY <1>4 DEF SendFails, BridgeTypeOK
  <2>. QED BY <1>4, <2>1, ReturnTyped DEF SendFails, BridgeTypeOK, agent, worker
<1>5. CASE ReadLine(t)
  <2>1. PICK r \in {"ok", "raised", "garbled", "desync", "broken"} : Return(t, r)
    BY <1>5 DEF ReadLine
  <2>2. outbox' \in [Workers -> Seq(Nat)]
    <3>. DEFINE w == reader[t]
    <3>1. w \in Workers /\ outbox[w] \in Seq(Nat) /\ outbox[w] # <<>>
      BY <1>5, ReaderTyped DEF ReadLine, BridgeTypeOK
    <3>2. Tail(outbox[w]) \in Seq(Nat)
      BY <3>1, HeadTailProperties
    <3>. QED BY <1>5, <3>1, <3>2 DEF ReadLine, BridgeTypeOK
  <2>. QED BY <1>5, <2>1, <2>2, ReturnTyped DEF ReadLine, BridgeTypeOK, agent, client
<1>6. CASE ReadNothing(t)
  BY <1>6, ReturnTyped DEF ReadNothing, BridgeTypeOK, agent, client, worker
<1>. QED BY <1>1, <1>2, <1>3, <1>4, <1>5, <1>6 DEF CallStep

\* A step of the provider keeps the types.
LEMMA ProviderTyped ==
  ASSUME BridgeTypeOK, Use \/ Provider
  PROVE  BridgeTypeOK'
<1>1. CASE Ping
  BY <1>1 DEF Ping, Begin, MoveTo, BridgeTypeOK, client, worker
<1>2. CASE Request
  BY <1>2 DEF Request, Begin, MoveTo, BridgeTypeOK, client, worker
<1>5. CASE Sync
  BY <1>5 DEF Sync, Begin, MoveTo, BridgeTypeOK, client, worker
<1>6. CASE ProbeEnds \/ ProbeTimeout \/ Drained
  BY <1>6 DEF ProbeEnds, ProbeTimeout, Drained, BridgeTypeOK, thread, client, worker
<1>7. CASE Submit
  BY <1>7 DEF Submit, BridgeTypeOK, thread, client, worker
<1>3. CASE Shutdown
  BY <1>3 DEF Shutdown, BridgeTypeOK, thread, worker
<1>4. CASE Kill
  BY <1>4 DEF Kill, BridgeTypeOK, thread
<1>. QED BY <1>1, <1>2, <1>3, <1>4, <1>5, <1>6, <1>7 DEF Use, Provider

\* A step of a worker keeps the types.
LEMMA WorkerTyped ==
  ASSUME BridgeTypeOK, NEW w \in Workers,
         Serve(w) \/ Babble(w) \/ Wedge(w) \/ Die(w) \/ Reap(w)
  PROVE  BridgeTypeOK'
<1>1. CASE Serve(w)
  <2>1. /\ inbox[w] \in Seq(Nat) /\ outbox[w] \in Seq(Nat)
        /\ inbox[w] # <<>>
    BY <1>1 DEF Serve, BridgeTypeOK
  <2>2. Head(inbox[w]) \in Nat /\ Tail(inbox[w]) \in Seq(Nat)
    BY <2>1, HeadTailProperties
  <2>3. Append(outbox[w], Head(inbox[w])) \in Seq(Nat)
    BY <2>1, <2>2, AppendProperties
  <2>4. inbox' \in [Workers -> Seq(Nat)]
    BY <1>1, <2>2 DEF Serve, BridgeTypeOK
  <2>5. outbox' \in [Workers -> Seq(Nat)]
    BY <1>1, <2>3 DEF Serve, BridgeTypeOK
  <2>. QED BY <1>1, <2>4, <2>5 DEF Serve, BridgeTypeOK, agent, thread, client
<1>2. CASE Babble(w)
  <2>1. outbox' \in [Workers -> Seq(Nat)]
    BY <1>2 DEF Babble, BridgeTypeOK
  <2>. QED BY <1>2, <2>1, FaultTyped DEF Babble, BridgeTypeOK, agent, thread, client
<1>3. CASE Wedge(w)
  BY <1>3, FaultTyped DEF Wedge, BridgeTypeOK, agent, thread, client
<1>4. CASE Die(w)
  BY <1>4, FaultTyped DEF Die, BridgeTypeOK, agent, thread, client
<1>5. CASE Reap(w)
  BY <1>5 DEF Reap, BridgeTypeOK, agent, thread, client
<1>. QED BY <1>1, <1>2, <1>3, <1>4, <1>5

\* Every step keeps it.
LEMMA BridgeTypeStep ==
  ASSUME BridgeTypeOK, Unspawned, [BridgeNext]_bridgeVars
  PROVE  BridgeTypeOK'
<1>1. CASE UNCHANGED bridgeVars
  BY <1>1 DEF BridgeTypeOK, bridgeVars, agent, thread, client, worker
<1>. QED BY <1>1, CallStepTyped, ProviderTyped, WorkerTyped DEF BridgeNext


(* What the steps leave alone. *)
LEMMA UseEffect ==
  ASSUME BridgeTypeOK, Use \/ Provider
  PROVE  /\ UNCHANGED <<lock, req, reader, result, spawned, inbox, outbox, faults>>
         /\ \A t \in Threads : pc'[t] = pc[t] \/ (pc[t] = "idle" /\ pc'[t] = "acquire")
         /\ \A w \in Workers : Running(w)' => Running(w) /\ status'[w] = status[w]
         /\ proc' = proc \/ proc' = NoWorker
<1>1. CASE Ping \/ Request \/ Sync
  BY <1>1 DEF Ping, Request, Sync, Begin, MoveTo, BridgeTypeOK, client, worker, Running
<1>2. CASE ProbeEnds \/ ProbeTimeout \/ Submit \/ Drained
  BY <1>2 DEF ProbeEnds, ProbeTimeout, Submit, Drained, thread, client, worker, Running
<1>3. CASE Shutdown
  BY <1>3 DEF Shutdown, thread, worker, Running
<1>4. CASE Kill
  BY <1>4 DEF Kill, thread, Running, BridgeTypeOK
<1>. QED BY <1>1, <1>2, <1>3, <1>4 DEF Use, Provider

\* What a step of a worker leaves alone.
LEMMA WorkerEffect ==
  ASSUME BridgeTypeOK, NEW w \in Workers,
         Serve(w) \/ Babble(w) \/ Wedge(w) \/ Die(w) \/ Reap(w)
  PROVE  /\ UNCHANGED <<agent, thread, client, spawned>>
         /\ \A v \in Workers : Running(v)' => Running(v)
         /\ \A v \in Workers : Live(v)' => Live(v)
         /\ Running(w)
         /\ \A v \in Workers \ {w} : inbox'[v] = inbox[v] /\ outbox'[v] = outbox[v]
         /\ faults'["noise"] = 0 => ~Babble(w) /\ faults["noise"] = 0
<1>1. /\ UNCHANGED <<agent, thread, client, spawned>>
      /\ \A v \in Workers : Running(v)' => Running(v)
      /\ \A v \in Workers : Live(v)' => Live(v)
      /\ Running(w)
  BY DEF Serve, Babble, Wedge, Die, Reap, Running, Live, BridgeTypeOK
<1>2. \A v \in Workers \ {w} : inbox'[v] = inbox[v] /\ outbox'[v] = outbox[v]
  BY DEF Serve, Babble, Wedge, Die, Reap, BridgeTypeOK
<1>3. faults'["noise"] = 0 => ~Babble(w) /\ faults["noise"] = 0
  <2>1. CASE Serve(w) \/ Reap(w)
    <3>1. faults' = faults
      BY <2>1 DEF Serve, Reap
    <3>2. Babble(w) => faults'["noise"] > 0
      BY FaultTyped DEF Babble
    <3>. QED BY <3>1, <3>2 DEF BridgeTypeOK
  <2>2. CASE Babble(w)
    BY <2>2, FaultTyped DEF Babble, BridgeTypeOK
  <2>3. CASE Wedge(w) \/ Die(w)
    <3>1. faults'["noise"] = faults["noise"]
      BY <2>3, FaultTyped DEF Wedge, Die
    <3>2. Babble(w) => faults'["noise"] > 0
      BY FaultTyped DEF Babble
    <3>. QED BY <3>1, <3>2 DEF BridgeTypeOK
  <2>. QED BY <2>1, <2>2, <2>3
<1>. QED BY <1>1, <1>2, <1>3

(* A step of one thread. *)
LEMMA StepEffect ==
  ASSUME BridgeTypeOK, NEW t \in Threads, CallStep(t)
  PROVE  /\ UNCHANGED <<shut, closing, faults>>
         /\ \A u \in Threads \ {t} : /\ pc'[u] = pc[u] /\ req'[u] = req[u]
                                     /\ reader'[u] = reader[u] /\ result'[u] = result[u]
         /\ \/ Acquire(t)
            \/ lock' = lock /\ pc[t] \in {"start", "send"}
            \/ lock' = Nobody /\ pc[t] \in {"send", "read"} /\ pc'[t] = "idle"
<1>1. CASE Acquire(t)
  BY <1>1 DEF Acquire, MoveTo, BridgeTypeOK, agent, client
<1>2. CASE Start(t)
  BY <1>2 DEF Start, MoveTo, BridgeTypeOK, agent
<1>3. CASE Send(t)
  BY <1>3 DEF Send, MoveTo, BridgeTypeOK, agent
<1>4. CASE SendFails(t)
  BY <1>4 DEF SendFails, Return, MoveTo, BridgeTypeOK, agent
<1>5. CASE ReadLine(t)
  BY <1>5 DEF ReadLine, Return, MoveTo, BridgeTypeOK, agent, client
<1>6. CASE ReadNothing(t)
  BY <1>6 DEF ReadNothing, Return, MoveTo, BridgeTypeOK, agent, client
<1>. QED BY <1>1, <1>2, <1>3, <1>4, <1>5, <1>6 DEF CallStep

\* The lock is with the thread that is between acquiring and returning.
LEMMA HolderStep ==
  ASSUME BridgeTypeOK, Holder, [BridgeNext]_bridgeVars
  PROVE  Holder'
<1>1. ASSUME NEW t \in Threads, CallStep(t) PROVE Holder'
  <2>1. CASE Acquire(t)
    BY <2>1 DEF Acquire, MoveTo, Holder, BridgeTypeOK
  <2>2. CASE /\ lock' = lock
             /\ pc[t] \in {"start", "send"}
    BY <1>1, <2>2, StepEffect DEF Holder
  <2>3. CASE /\ lock' = Nobody /\ pc'[t] = "idle"
             /\ pc[t] \in {"send", "read"}
    BY <1>1, <2>3, StepEffect DEF Holder
  <2>. QED BY <1>1, <2>1, <2>2, <2>3, StepEffect
<1>2. CASE Use \/ Provider
  BY <1>2, UseEffect DEF Holder
<1>3. CASE UNCHANGED <<pc, lock>>
  BY <1>3 DEF Holder
<1>. QED BY <1>1, <1>2, <1>3, WorkerEffect DEF BridgeNext, bridgeVars, thread

\* A worker that was not spawned has nothing.
LEMMA UnspawnedStep ==
  ASSUME BridgeTypeOK, Unspawned, [BridgeNext]_bridgeVars
  PROVE  Unspawned'
<1>1. ASSUME NEW t \in Threads, CallStep(t) PROVE Unspawned'
  <2>1. CASE Start(t)
    <3>1. \A u \in Threads : pc'[u] = "read" => pc[u] = "read" /\ reader'[u] = reader[u]
      BY <2>1 DEF Start, MoveTo, BridgeTypeOK
    <3>2. CASE UNCHANGED <<proc, spawned, status>>
      BY <2>1, <3>1, <3>2 DEF Start, Unspawned, Running
    <3>3. CASE Spawn
      <4>1. /\ spawned' = spawned + 1 /\ proc' = spawned' /\ UNCHANGED <<inbox, outbox>>
            /\ \A w \in Workers : w > spawned + 1 => status'[w] = status[w]
        BY <2>1, <3>3 DEF Start, Spawn, BridgeTypeOK
      <4>2. spawned \in Nat /\ proc' <= spawned'
        BY <4>1 DEF BridgeTypeOK
      <4>3. \A u \in Threads : pc'[u] = "read" => reader'[u] \in 1 .. spawned'
        BY <3>1, <4>1, <4>2 DEF Unspawned
      <4>4. \A w \in Workers : w > spawned' => w > spawned /\ status'[w] = status[w]
        BY <4>1, <4>2
      <4>. QED BY <4>1, <4>2, <4>3, <4>4 DEF Unspawned, Running
    <3>. QED BY <2>1, <3>2, <3>3 DEF Start
  <2>2. CASE Send(t)
    <3>1. proc \in 1 .. spawned
      BY <2>2 DEF Send, Unspawned, BridgeTypeOK
    <3>2. \A u \in Threads : pc'[u] = "read" =>
            reader'[u] = proc \/ (pc[u] = "read" /\ reader'[u] = reader[u])
      BY <2>2 DEF Send, MoveTo, BridgeTypeOK
    <3>3. \A w \in Workers : w > spawned => inbox'[w] = inbox[w] /\ outbox'[w] = outbox[w]
                                            /\ status'[w] = status[w]
      BY <2>2, <3>1 DEF Send, BridgeTypeOK
    <3>. QED BY <2>2, <3>1, <3>2, <3>3 DEF Send, Unspawned, Running
  <2>3. CASE ReadLine(t)
    <3>1. reader[t] \in 1 .. spawned
      BY <2>3 DEF ReadLine, Unspawned
    <3>2. \A u \in Threads : pc'[u] = "read" => pc[u] = "read" /\ reader'[u] = reader[u]
      BY <2>3 DEF ReadLine, Return, MoveTo, BridgeTypeOK
    <3>3. \A w \in Workers : w > spawned => outbox'[w] = outbox[w]
      BY <2>3, <3>1 DEF ReadLine, BridgeTypeOK
    <3>. QED BY <2>3, <3>2, <3>3 DEF ReadLine, Unspawned, Running, client
  <2>4. CASE Acquire(t) \/ SendFails(t) \/ ReadNothing(t)
    <3>1. \A u \in Threads : pc'[u] = "read" => pc[u] = "read" /\ reader'[u] = reader[u]
      BY <2>4 DEF Acquire, SendFails, ReadNothing, Return, MoveTo, BridgeTypeOK
    <3>. QED BY <2>4, <3>1 DEF Acquire, SendFails, ReadNothing, Unspawned, Running,
                               client, worker
  <2>. QED BY <1>1, <2>1, <2>2, <2>3, <2>4 DEF CallStep
<1>2. CASE Use \/ Provider
  <2>1. /\ UNCHANGED <<reader, spawned, inbox, outbox>>
        /\ \A t \in Threads : pc'[t] = "read" => pc[t] = "read"
        /\ \A w \in Workers : Running(w)' => Running(w)
        /\ proc' = proc \/ proc' = NoWorker
    BY <1>2, UseEffect
  <2>2. proc' <= spawned'
    BY <2>1 DEF Unspawned, BridgeTypeOK
  <2>. QED BY <2>1, <2>2 DEF Unspawned
<1>3. ASSUME NEW w \in Workers, Serve(w) \/ Babble(w) \/ Wedge(w) \/ Die(w) \/ Reap(w)
      PROVE  Unspawned'
  <2>0. Running(w)
    BY <1>3, WorkerEffect
  <2>1. w <= spawned
    BY <2>0 DEF Unspawned, BridgeTypeOK
  <2>. QED BY <1>3, <2>1, WorkerEffect DEF Unspawned, thread, client
<1>4. CASE UNCHANGED bridgeVars
  BY <1>4 DEF bridgeVars, thread, client, worker, Unspawned, Running
<1>. QED BY <1>1, <1>2, <1>3, <1>4 DEF BridgeNext

\* No process but the current one and the one being killed.
LEMMA KnownStep ==
  ASSUME BridgeTypeOK, Known, [BridgeNext]_bridgeVars
  PROVE  Known'
<1>1. ASSUME NEW t \in Threads, CallStep(t) PROVE Known'
  <2>1. CASE Start(t)
    <3>1. CASE UNCHANGED <<proc, spawned, status>>
      BY <2>1, <3>1 DEF Start, Known, Running, agent
    <3>2. CASE Spawn /\ ~(proc # NoWorker /\ Running(proc))
      BY <2>1, <3>2 DEF Start, Spawn, Known, Running, agent, BridgeTypeOK
    <3>. QED BY <2>1, <3>1, <3>2 DEF Start
  <2>2. CASE UNCHANGED <<proc, status>>
    BY <1>1, <2>2, StepEffect DEF Known, Running
  <2>. QED BY <1>1, <2>1, <2>2 DEF CallStep, Acquire, Send, SendFails, ReadLine, ReadNothing,
                                   client, worker
<1>2. CASE Shutdown
  BY <1>2 DEF Shutdown, Free, Known, Running, worker
<1>3. CASE Kill
  BY <1>3 DEF Kill, Known, Running, BridgeTypeOK
<1>4. CASE Ping \/ Request \/ Submit \/ ProbeEnds \/ ProbeTimeout \/ Sync \/ Drained
  BY <1>4 DEF Ping, Request, Submit, ProbeEnds, ProbeTimeout, Sync, Drained, Begin,
              client, worker, Known, Running
<1>5. ASSUME NEW w \in Workers, Serve(w) \/ Babble(w) \/ Wedge(w) \/ Die(w) \/ Reap(w)
      PROVE  Known'
  BY <1>5, WorkerEffect DEF Known, agent, client
<1>6. CASE UNCHANGED bridgeVars
  BY <1>6 DEF bridgeVars, agent, client, worker, Known, Running
<1>. QED BY <1>1, <1>2, <1>3, <1>4, <1>5, <1>6 DEF BridgeNext, Use, Provider


(* Printing something else than an answer cannot be taken back. *)
LEMMA NoiseStays ==
  ASSUME BridgeTypeOK, [BridgeNext]_bridgeVars, faults'["noise"] = 0
  PROVE  faults["noise"] = 0
BY StepEffect, UseEffect, WorkerEffect DEF BridgeNext, bridgeVars

(* While one thread is past the lock, no other one waits for an answer. *)
LEMMA OneReader ==
  ASSUME BridgeTypeOK, Holder, NEW t \in Threads, pc[t] \in {"start", "send", "read"}
  PROVE  \A u \in Threads : pc[u] = "read" => u = t
BY DEF Holder

\* A thread that starts a worker starts in step with it.
LEMMA StartInStep ==
  ASSUME BridgeInv, NEW t \in Threads, Start(t), faults["noise"] = 0
  PROVE  InStep' /\ NoDesync'
<1>. USE DEF BridgeInv
<1>1. \A u \in Threads : pc[u] # "read" /\ pc'[u] # "read"
  BY OneReader DEF Start, MoveTo, BridgeTypeOK
<1>2. NoDesync'
  BY DEF Start, NoDesync
<1>3. CASE UNCHANGED <<proc, spawned, status>>
  BY <1>1, <1>2, <1>3 DEF Start, InStep, Live, OneLine
<1>4. CASE Spawn
  <2>1. proc' \in Workers /\ proc' > spawned
    BY <1>4 DEF Spawn, BridgeTypeOK
  <2>2. inbox'[proc'] = <<>> /\ outbox'[proc'] = <<>>
    BY <2>1 DEF Start, Unspawned
  <2>. QED BY <1>1, <1>2, <2>2 DEF InStep, Live, OneLine
<1>. QED BY <1>3, <1>4 DEF Start

\* A request that is sent is the one line between the two.
LEMMA SendInStep ==
  ASSUME BridgeInv, NEW t \in Threads, Send(t), faults["noise"] = 0
  PROVE  InStep' /\ NoDesync'
<1>. USE DEF BridgeInv
<1>1. NoDesync'
  BY DEF Send, NoDesync
<1>2. \A u \in Threads : pc[u] # "read" /\ (pc'[u] = "read" => u = t)
  BY OneReader DEF Send, MoveTo, BridgeTypeOK
<1>3. proc \in Workers /\ inbox[proc] = <<>> /\ outbox[proc] = <<>>
  BY <1>2 DEF Send, InStep, BridgeTypeOK
<1>4. reader'[t] = proc /\ req'[t] = seq + 1 /\ pc'[t] = "read" /\ proc' = proc
  BY DEF Send, MoveTo, BridgeTypeOK
<1>5. inbox'[proc] = <<seq + 1>> /\ outbox'[proc] = <<>>
  BY <1>3 DEF Send, BridgeTypeOK
<1>6. OneLine(reader[t], req[t])'
  BY <1>4, <1>5 DEF OneLine
<1>. QED BY <1>1, <1>2, <1>4, <1>6 DEF InStep

\* A line that is read is the answer to it.
LEMMA ReadInStep ==
  ASSUME BridgeInv, NEW t \in Threads, ReadLine(t), faults["noise"] = 0
  PROVE  InStep' /\ NoDesync'
<1>. USE DEF BridgeInv
<1>. DEFINE w == reader[t]
<1>1. /\ w \in Workers /\ pc[t] = "read"
      /\ \A u \in Threads : pc[u] = "read" => u = t
  BY ReaderTyped, OneReader DEF ReadLine
<1>2. inbox[w] = <<>> /\ outbox[w] = <<req[t]>>
  BY <1>1 DEF ReadLine, InStep, OneLine
<1>3. Head(outbox[w]) = req[t] /\ Tail(outbox[w]) = <<>>
  BY <1>2
<1>4. inbox'[w] = <<>> /\ outbox'[w] = <<>>
  BY <1>1, <1>2, <1>3 DEF ReadLine, BridgeTypeOK
<1>5. PICK r \in {"ok", "raised", "garbled"} : Return(t, r)
  BY <1>3 DEF ReadLine
<1>6. \A u \in Threads : pc'[u] # "read"
  BY <1>1, <1>5 DEF Return, MoveTo, BridgeTypeOK
<1>7. NoDesync'
  BY <1>5 DEF Return, NoDesync, ReadLine, BridgeTypeOK
<1>8. \A v \in Workers : v # w => inbox'[v] = inbox[v] /\ outbox'[v] = outbox[v]
  BY <1>1 DEF ReadLine, BridgeTypeOK
<1>9. proc # NoWorker /\ Live(proc) => inbox'[proc] = <<>> /\ outbox'[proc] = <<>>
  BY <1>1, <1>4, <1>8 DEF InStep, BridgeTypeOK
<1>. QED BY <1>6, <1>7, <1>9 DEF ReadLine, client, InStep, Live

\* Any step of a call keeps thread and worker in step.
LEMMA StepInStep ==
  ASSUME BridgeInv, NEW t \in Threads, CallStep(t), faults["noise"] = 0
  PROVE  InStep' /\ NoDesync'
<1>. USE DEF BridgeInv
<1>1. CASE Acquire(t)
  <2>1. \A u \in Threads : pc'[u] = "read" <=> pc[u] = "read"
    BY <1>1 DEF Acquire, MoveTo, BridgeTypeOK
  <2>. QED BY <1>1, <2>1 DEF Acquire, client, worker, InStep, NoDesync, Live, OneLine
<1>2. CASE SendFails(t)
  <2>1. \A u \in Threads : pc[u] # "read" /\ pc'[u] # "read"
    BY <1>2, OneReader DEF SendFails, Return, MoveTo, BridgeTypeOK
  <2>2. NoDesync'
    BY <1>2 DEF SendFails, Return, NoDesync, BridgeTypeOK
  <2>. QED BY <1>2, <2>1, <2>2 DEF SendFails, worker, InStep, Live, OneLine
<1>3. CASE ReadNothing(t)
  <2>1. \A u \in Threads : (pc[u] = "read" => u = t) /\ pc'[u] # "read"
    BY <1>3, OneReader DEF ReadNothing, Return, MoveTo, BridgeTypeOK
  <2>2. NoDesync'
    BY <1>3 DEF ReadNothing, Return, NoDesync, BridgeTypeOK
  <2>3. proc # NoWorker /\ Live(proc) => inbox[proc] = <<>> /\ outbox[proc] = <<>>
    BY <1>3, <2>1 DEF ReadNothing, InStep
  <2>. QED BY <1>3, <2>1, <2>2, <2>3 DEF ReadNothing, client, worker, InStep, Live
<1>. QED BY <1>1, <1>2, <1>3, StartInStep, SendInStep, ReadInStep DEF CallStep

\* So does any of the provider.
LEMMA ProviderInStep ==
  ASSUME BridgeInv, Use \/ Provider, faults["noise"] = 0
  PROVE  InStep' /\ NoDesync'
<1>. USE DEF BridgeInv
<1>1. /\ UNCHANGED <<req, reader, result, inbox, outbox, faults>>
      /\ \A t \in Threads : pc'[t] = "read" <=> pc[t] = "read"
  BY UseEffect
<1>2. proc' # NoWorker /\ Live(proc)' => proc' = proc /\ Live(proc)
  BY UseEffect DEF BridgeTypeOK, Live, Running
<1>. QED BY <1>1, <1>2 DEF InStep, NoDesync, OneLine

\* So does any of a worker that does not babble.
LEMMA WorkerInStep ==
  ASSUME BridgeInv, NEW w \in Workers,
         Serve(w) \/ Babble(w) \/ Wedge(w) \/ Die(w) \/ Reap(w),
         faults'["noise"] = 0
  PROVE  InStep' /\ NoDesync'
<1>. USE DEF BridgeInv
<1>1. /\ UNCHANGED <<pc, req, reader, result, proc>>
      /\ \A v \in Workers : Live(v)' => Live(v)
      /\ \A v \in Workers \ {w} : inbox'[v] = inbox[v] /\ outbox'[v] = outbox[v]
      /\ faults["noise"] = 0 /\ ~Babble(w)
  BY WorkerEffect DEF thread, client
<1>2. NoDesync'
  BY <1>1 DEF NoDesync
<1>3. \A t \in Threads : pc[t] = "read" => reader[t] \in Workers
  BY ReaderTyped
<1>4. CASE Serve(w)
  <2>1. \A t \in Threads : pc[t] = "read" => OneLine(reader[t], req[t])'
    <3>. SUFFICES ASSUME NEW t \in Threads, pc[t] = "read"
                  PROVE  OneLine(reader[t], req[t])'
      OBVIOUS
    <3>1. CASE reader[t] # w
      BY <1>1, <1>3, <3>1 DEF InStep, OneLine
    <3>2. CASE reader[t] = w
      <4>1. inbox[w] = <<req[t]>> /\ outbox[w] = <<>>
        BY <1>1, <1>4, <3>2 DEF InStep, OneLine, Serve
      <4>2. inbox'[w] = <<>> /\ outbox'[w] = <<req[t]>>
        BY <1>4, <4>1 DEF Serve, BridgeTypeOK
      <4>. QED BY <1>1, <3>2, <4>2 DEF OneLine
    <3>. QED BY <3>1, <3>2
  <2>2. ASSUME proc # NoWorker, Live(proc), \A t \in Threads : ~(pc[t] = "read" /\ reader[t] = proc)
        PROVE  inbox'[proc] = <<>> /\ outbox'[proc] = <<>>
    <3>1. proc \in Workers /\ inbox[proc] = <<>> /\ outbox[proc] = <<>>
      BY <1>1, <2>2 DEF InStep, BridgeTypeOK
    <3>2. proc # w
      BY <1>4, <3>1 DEF Serve
    <3>. QED BY <1>1, <3>1, <3>2
  <2>3. (proc # NoWorker /\ Live(proc))' => proc # NoWorker /\ Live(proc)
    BY <1>1 DEF BridgeTypeOK
  <2>. QED BY <1>1, <1>2, <2>1, <2>2, <2>3 DEF InStep
<1>5. CASE UNCHANGED <<inbox, outbox>>
  <2>1. (proc # NoWorker /\ Live(proc))' => proc # NoWorker /\ Live(proc)
    BY <1>1 DEF BridgeTypeOK
  <2>. QED BY <1>1, <1>2, <1>5, <2>1 DEF InStep, OneLine
<1>. QED BY <1>1, <1>4, <1>5 DEF Wedge, Die, Reap

\* So does any step.
LEMMA InStepStep ==
  ASSUME BridgeInv, [BridgeNext]_bridgeVars
  PROVE  InStep' /\ NoDesync'
<1>1. CASE faults'["noise"] = 0
  <2>1. faults["noise"] = 0
    BY <1>1, NoiseStays DEF BridgeInv
  <2>2. CASE UNCHANGED bridgeVars
    BY <2>2 DEF bridgeVars, thread, client, worker, BridgeInv, InStep, NoDesync, OneLine, Live
  <2>. QED BY <1>1, <2>1, <2>2, StepInStep, ProviderInStep, WorkerInStep DEF BridgeNext
<1>2. CASE faults'["noise"] # 0
  <2>1. faults'["noise"] \in Nat
    BY BridgeTypeStep DEF BridgeInv, BridgeTypeOK
  <2>. QED BY <1>2, <2>1 DEF InStep, NoDesync
<1>. QED BY <1>1, <1>2


\* It holds in the first states.
LEMMA IndInit == BridgeInit => BridgeInv
<1>. SUFFICES ASSUME BridgeInit PROVE BridgeInv
  OBVIOUS
<1>1. BridgeTypeOK
  BY BridgeTypeInit
<1>2. Holder /\ InStep /\ NoDesync
  BY DEF BridgeInit, Holder, InStep, NoDesync
<1>3. Unspawned /\ Known
  BY DEF BridgeInit, Unspawned, Known, Running
<1>. QED BY <1>1, <1>2, <1>3 DEF BridgeInv

\* Every step keeps it.
LEMMA IndStep == BridgeInv /\ [BridgeNext]_bridgeVars => BridgeInv'
BY BridgeTypeStep, HolderStep, UnspawnedStep, KnownStep, InStepStep DEF BridgeInv

\* It holds in every behaviour.
LEMMA BridgeInductive == BridgeSpec => []BridgeInv
BY IndInit, IndStep, PTL DEF BridgeSpec

(* Every variable of the bridge keeps its type, so a worker that is waited for *)
(* or written to is always one that was spawned.                               *)
THEOREM BridgeTypeCorrect == BridgeSpec => []BridgeTypeOK
<1>1. BridgeInv => BridgeTypeOK
  BY DEF BridgeInv
<1>. QED BY <1>1, BridgeInductive, PTL

(* No call reads the answer to another one while workers print answers only:   *)
(* _call_blocking reads one line per request under the lock, and a worker that *)
(* is abandoned with a request is never written to again.                      *)
THEOREM AnswersMatch == BridgeSpec => []NoDesync
<1>1. BridgeInv => NoDesync
  BY DEF BridgeInv
<1>. QED BY <1>1, BridgeInductive, PTL

(* start() looks at poll() under the lock and close() forgets the worker       *)
(* before it kills it, so two workers run together only while one is killed.   *)
THEOREM OneAtTheStore == BridgeSpec => []OneWorker
<1>1. BridgeInv => OneWorker
  BY DEF BridgeInv, Known, OneWorker
<1>. QED BY <1>1, BridgeInductive, PTL

HIDE BoundsAssumption DEF FaultKinds, Threads, Workers, NoWorker, Nobody, Noise

-----------------------------------------------------------------------------
(* Tools. *)

\* The lock is held by the caller that makes the brain, when there is none.
ToolsLatched ==
  /\ \A c \in Callers : place[c] = "build" => latch = c
  /\ latch # Nothing => latch \in Callers /\ place[latch] = "build" /\ ~ core
\* A thread has a text just while it keeps it, and the pool's do nothing else.
ToolsHolding ==
  /\ \A x \in T!Threads : text[x] # Nothing <=> place[x] \in T!Keeping
  /\ \A w \in Helpers : place[w] \in {"idle"} \cup T!Keeping
\* A text is in one place, and not dealt with while it is on its way.
ToolsApart ==
  /\ \A x, y \in T!Threads : text[x] # Nothing /\ text[x] = text[y] => x = y
  /\ \A i, j \in 1 .. Len(backlog) : backlog[i] = backlog[j] => i = j
  /\ \A x \in T!Threads, i \in 1 .. Len(backlog) : text[x] # backlog[i]
ToolsOpen ==
  /\ \A x \in T!Threads : text[x] # Nothing => text[x] <= texts /\ fate[text[x]] = "none"
  /\ \A i \in 1 .. Len(backlog) : backlog[i] <= texts /\ fate[backlog[i]] = "none"
  /\ \A t \in T!Texts : t > texts => fate[t] = "none"
ToolsInv ==
  /\ T!ToolsTypeOK /\ ToolsLatched /\ ToolsHolding /\ ToolsApart /\ ToolsOpen /\ T!ToolsHold

USE ToolsAssumption DEF T!Threads, T!Texts, T!Keeping, T!Doors, T!Kinds, T!Places, T!brainVars, T!textVars

\* The invariant holds in the first states.
LEMMA ToolsStart == T!ToolsInit => ToolsInv
<1> SUFFICES ASSUME T!ToolsInit PROVE ToolsInv
  OBVIOUS
<1>1. T!ToolsTypeOK
  <2>1. /\ place \in [T!Threads -> T!Places] /\ text \in [T!Threads -> T!Texts \cup {Nothing}]
        /\ ask \in [Callers -> [tool : T!Kinds \cup {"none", "done"}, direct : BOOLEAN]]
    BY DEF T!ToolsInit
  <2>2. texts \in 0 .. MaxTexts /\ slips \in 0 .. MaxBreaks /\ backlog \in Seq(T!Texts)
    BY DEF T!ToolsInit
  <2>3. /\ answer \in [T!Texts -> {"none", "queued", "stored", "limited", "quarantined", "error"}]
        /\ fate \in [T!Texts -> {"none", "stored", "limited", "quarantined", "raised"}]
    BY DEF T!ToolsInit
  <2> QED
    BY <2>1, <2>2, <2>3 DEF T!ToolsInit, T!ToolsTypeOK
<1>2. ToolsLatched /\ ToolsHolding /\ ToolsApart /\ ToolsOpen
  BY DEF T!ToolsInit, ToolsLatched, ToolsHolding, ToolsApart, ToolsOpen
<1>3. T!ToolsHold
  BY DEF T!ToolsInit, T!ToolsHold, T!OneBrain, T!Accounted, T!MarkedForStored
<1> QED
  BY <1>1, <1>2, <1>3 DEF ToolsInv

\* A caller goes on without a text.
LEMMA ToolsWalk ==
  ASSUME ToolsInv, NEW c \in Callers, NEW p \in {"idle", "look", "lock", "build", "run"},
         place[c] \notin T!Keeping, T!GoTo(c, p),
         ask' \in [Callers -> [tool : T!Kinds \cup {"none", "done"}, direct : BOOLEAN]],
         UNCHANGED <<door, life, text, texts, backlog, answer, fate, hidden>>,
         made' \in Nat, core' \in BOOLEAN, latch' \in Callers \cup {Nothing},
         slips' \in 0 .. MaxBreaks, slips' = 0 => slips = 0,
         ToolsLatched', T!OneBrain'
  PROVE  ToolsInv'
<1>0. /\ place \in [T!Threads -> T!Places] /\ slips \in 0 .. MaxBreaks /\ c \in T!Threads
      /\ place' = [place EXCEPT ![c] = p]
  BY DEF ToolsInv, T!ToolsTypeOK, T!GoTo
<1>1. T!ToolsTypeOK'
  BY <1>0 DEF ToolsInv, T!ToolsTypeOK
<1>2. ToolsHolding'
  BY <1>0 DEF ToolsInv, ToolsHolding
<1>3. ToolsApart' /\ ToolsOpen'
  BY DEF ToolsInv, ToolsApart, ToolsOpen
<1>4. T!Accounted'
  BY DEF ToolsInv, T!ToolsHold, T!Accounted
<1>5. T!MarkedForStored'
  <2> SUFFICES ASSUME life = "up", slips' = 0, NEW t \in hidden, fate[t] # "stored"
               PROVE  \E x \in T!Threads : text[x] = t /\ place'[x] = "add"
    BY DEF T!MarkedForStored
  <2>1. slips = 0
    BY <1>0
  <2>2. PICK x \in T!Threads : text[x] = t /\ place[x] = "add"
    BY <2>1 DEF ToolsInv, T!ToolsHold, T!MarkedForStored
  <2> QED
    BY <1>0, <2>2
<1> QED
  BY <1>1, <1>2, <1>3, <1>4, <1>5 DEF ToolsInv, T!ToolsHold

\* A caller is answered without a text.
LEMMA ToolsOver ==
  ASSUME ToolsInv, NEW c \in Callers, T!Over(c)
  PROVE  /\ T!GoTo(c, "idle")
         /\ ask' \in [Callers -> [tool : T!Kinds \cup {"none", "done"}, direct : BOOLEAN]]
  BY DEF ToolsInv, T!ToolsTypeOK, T!Over, T!NoCall

\* A caller that asks for the brain, makes it or is answered.
LEMMA ToolsAsks ==
  ASSUME ToolsInv, NEW c \in Callers,
         T!Call(c) \/ T!Look(c) \/ T!Lock(c) \/ T!Build(c) \/ T!Answered(c) \/ T!Handled(c)
  PROVE  ToolsInv'
<1>0. /\ place \in [T!Threads -> T!Places] /\ slips \in 0 .. MaxBreaks /\ c \in T!Threads
      /\ made \in Nat /\ core \in BOOLEAN /\ latch \in Callers \cup {Nothing}
      /\ ask \in [Callers -> [tool : T!Kinds \cup {"none", "done"}, direct : BOOLEAN]]
      /\ T!OneBrain /\ ToolsLatched
  BY DEF ToolsInv, T!ToolsTypeOK, T!ToolsHold
<1>1. CASE T!Call(c)
  <2>1. PICK k \in T!Kinds, direct \in BOOLEAN :
          /\ ask' = [ask EXCEPT ![c] = [tool |-> k, direct |-> direct]]
          /\ T!GoTo(c, IF direct THEN "run" ELSE "look")
    BY <1>1 DEF T!Call
  <2>2. ask' \in [Callers -> [tool : T!Kinds \cup {"none", "done"}, direct : BOOLEAN]]
    BY <1>0, <2>1
  <2>3. PICK p \in {"run", "look"} : T!GoTo(c, p)
    BY <2>1
  <2>4. place' = [place EXCEPT ![c] = p] /\ place[c] = "idle"
        /\ UNCHANGED <<door, life, made, core, latch, text, texts, backlog, answer, fate, hidden, slips>>
    BY <1>1, <2>3 DEF T!Call, T!GoTo
  <2>5. ToolsLatched'
    BY <1>0, <2>4 DEF ToolsLatched
  <2>6. T!OneBrain'
    BY <1>0, <2>4 DEF T!OneBrain
  <2> QED
    BY <1>0, <2>2, <2>3, <2>4, <2>5, <2>6, ToolsWalk
<1>2. CASE T!Look(c)
  <2>1. PICK p \in {"idle", "run", "lock"} : T!GoTo(c, p)
    BY <1>2 DEF T!Look, T!Over
  <2>2. ask' \in [Callers -> [tool : T!Kinds \cup {"none", "done"}, direct : BOOLEAN]]
    BY <1>0, <1>2, ToolsOver DEF T!Look
  <2>3. place' = [place EXCEPT ![c] = p] /\ place[c] = "look"
        /\ UNCHANGED <<door, life, made, core, latch, text, texts, backlog, answer, fate, hidden, slips>>
    BY <1>2, <2>1 DEF T!Look, T!GoTo
  <2>4. ToolsLatched'
    BY <1>0, <2>3 DEF ToolsLatched
  <2>5. T!OneBrain'
    BY <1>0, <2>3 DEF T!OneBrain
  <2> QED
    BY <1>0, <2>1, <2>2, <2>3, <2>4, <2>5, ToolsWalk
<1>3. CASE T!Lock(c)
  <2>1. PICK p \in {"run", "build"} : T!GoTo(c, p) /\ p = IF core THEN "run" ELSE "build"
    BY <1>3 DEF T!Lock
  <2>2. place' = [place EXCEPT ![c] = p] /\ place[c] = "lock" /\ latch = Nothing
        /\ latch' = (IF core THEN Nothing ELSE c)
        /\ UNCHANGED <<door, life, made, core, ask, text, texts, backlog, answer, fate, hidden, slips>>
    BY <1>3, <2>1 DEF T!Lock, T!GoTo
  <2>3. ToolsLatched'
    BY <1>0, <2>1, <2>2 DEF ToolsLatched
  <2>4. T!OneBrain'
    BY <1>0, <2>2 DEF T!OneBrain
  <2> QED
    BY <1>0, <2>1, <2>2, <2>3, <2>4, ToolsWalk
<1>4. CASE T!Build(c)
  <2>0. latch = c /\ ~ core /\ place[c] = "build"
    BY <1>0, <1>4 DEF T!Build, ToolsLatched
  <2>1. PICK p \in {"run", "idle"} : T!GoTo(c, p)
    BY <1>4 DEF T!Build, T!Over
  <2>2. ask' \in [Callers -> [tool : T!Kinds \cup {"none", "done"}, direct : BOOLEAN]]
    BY <1>0, <1>4, ToolsOver DEF T!Build
  <2>3. /\ place' = [place EXCEPT ![c] = p] /\ latch' = Nothing
        /\ UNCHANGED <<door, life, text, texts, backlog, answer, fate, hidden>>
        /\ \/ made' = made + 1 /\ core' = TRUE /\ slips' = slips
           \/ slips < MaxBreaks /\ slips' = slips + 1 /\ UNCHANGED <<made, core>>
    BY <1>4, <2>1 DEF T!Build, T!GoTo, T!Break
  <2>4. ToolsLatched'
    BY <1>0, <2>0, <2>3 DEF ToolsLatched
  <2>5. T!OneBrain' /\ made' \in Nat /\ core' \in BOOLEAN
    <3>1. made = 0
      BY <1>0, <2>0 DEF T!OneBrain
    <3>2. CASE made' = made + 1 /\ core' = TRUE
      BY <3>1, <3>2 DEF T!OneBrain
    <3>3. CASE UNCHANGED <<made, core>>
      BY <1>0, <3>3 DEF T!OneBrain
    <3> QED
      BY <2>3, <3>2, <3>3
  <2>6. slips' \in 0 .. MaxBreaks /\ (slips' = 0 => slips = 0)
    BY <1>0, <2>3
  <2> QED
    BY <2>0, <2>1, <2>2, <2>3, <2>4, <2>5, <2>6, ToolsWalk
<1>5. CASE T!Answered(c) \/ T!Handled(c)
  <2>1. place' = [place EXCEPT ![c] = "idle"] /\ place[c] = "run" /\ T!GoTo(c, "idle")
        /\ UNCHANGED <<door, life, made, core, latch, text, texts, backlog, answer, fate, hidden, slips>>
        /\ ask' \in [Callers -> [tool : T!Kinds \cup {"none", "done"}, direct : BOOLEAN]]
    BY <1>5, ToolsOver DEF T!Answered, T!Handled, T!GoTo, T!Over
  <2>2. ToolsLatched'
    BY <1>0, <2>1 DEF ToolsLatched
  <2>3. T!OneBrain'
    BY <1>0, <2>1 DEF T!OneBrain
  <2> QED
    BY <1>0, <2>1, <2>2, <2>3, ToolsWalk
<1> QED
  BY <1>1, <1>2, <1>3, <1>4, <1>5

\* The new text is in no place yet.
LEMMA ToolsNew ==
  ASSUME ToolsInv, texts < MaxTexts
  PROVE  /\ texts + 1 \in T!Texts /\ fate[texts + 1] = "none"
         /\ \A x \in T!Threads : text[x] # texts + 1
         /\ \A i \in 1 .. Len(backlog) : backlog[i] # texts + 1
<1>1. texts \in 0 .. MaxTexts /\ backlog \in Seq(T!Texts)
      /\ text \in [T!Threads -> T!Texts \cup {Nothing}]
  BY DEF ToolsInv, T!ToolsTypeOK
<1>2. ToolsOpen
  BY DEF ToolsInv
<1>3. \A i \in 1 .. Len(backlog) : backlog[i] \in T!Texts
  BY <1>1
<1> QED
  BY <1>1, <1>2, <1>3 DEF ToolsOpen

\* A caller takes a text of its own.
LEMMA ToolsKeep ==
  ASSUME ToolsInv, NEW c \in Callers, place[c] = "run", texts < MaxTexts,
         texts' = texts + 1, text' = [text EXCEPT ![c] = texts'], T!GoTo(c, "bucket"),
         UNCHANGED <<door, life, made, core, latch, ask, backlog, answer, fate, hidden, slips>>
  PROVE  ToolsInv'
<1>0. /\ place \in [T!Threads -> T!Places] /\ text \in [T!Threads -> T!Texts \cup {Nothing}]
      /\ texts \in 0 .. MaxTexts /\ c \in T!Threads /\ place' = [place EXCEPT ![c] = "bucket"]
      /\ ToolsLatched /\ ToolsHolding /\ ToolsApart /\ ToolsOpen
      /\ T!OneBrain /\ T!Accounted /\ T!MarkedForStored
  BY DEF ToolsInv, T!ToolsTypeOK, T!GoTo, T!ToolsHold
<1>1. /\ texts + 1 \in T!Texts /\ fate[texts + 1] = "none" /\ text' = [text EXCEPT ![c] = texts + 1]
      /\ \A x \in T!Threads : text[x] # texts + 1
      /\ \A i \in 1 .. Len(backlog) : backlog[i] # texts + 1
  BY ToolsNew
<1>2. T!ToolsTypeOK'
  BY <1>0, <1>1 DEF ToolsInv, T!ToolsTypeOK
<1>3. ToolsLatched' /\ ToolsHolding'
  BY <1>0, <1>1 DEF ToolsLatched, ToolsHolding
<1>4. ToolsApart'
  BY <1>0, <1>1 DEF ToolsApart
<1>5. ToolsOpen'
  <2>1. \A i \in 1 .. Len(backlog) : backlog[i] <= texts + 1 /\ fate[backlog[i]] = "none"
    <3> SUFFICES ASSUME NEW i \in 1 .. Len(backlog)
                 PROVE  backlog[i] <= texts + 1 /\ fate[backlog[i]] = "none"
      OBVIOUS
    <3>1. backlog[i] \in T!Texts
      BY DEF ToolsInv, T!ToolsTypeOK
    <3> QED
      BY <1>0, <3>1 DEF ToolsOpen
  <2>2. \A x \in T!Threads : text'[x] # Nothing => text'[x] <= texts + 1 /\ fate[text'[x]] = "none"
    BY <1>0, <1>1 DEF ToolsOpen
  <2>3. \A t \in T!Texts : t > texts + 1 => fate[t] = "none"
    BY <1>0 DEF ToolsOpen
  <2> QED
    BY <2>1, <2>2, <2>3 DEF ToolsOpen
<1>6. T!OneBrain'
  BY <1>0 DEF T!OneBrain
<1>7. T!Accounted'
  BY <1>0, <1>1 DEF T!Accounted
<1>8. T!MarkedForStored'
  <2>1. \A x \in T!Threads : place[x] = "add" => x # c /\ text'[x] = text[x] /\ place'[x] = "add"
    BY <1>0, <1>1
  <2> QED
    BY <1>0, <2>1 DEF T!MarkedForStored
<1> QED
  BY <1>2, <1>3, <1>4, <1>5, <1>6, <1>7, <1>8 DEF ToolsInv, T!ToolsHold

\* A text that is queued is with nobody else.
LEMMA ToolsQueue ==
  ASSUME ToolsInv, NEW c \in Callers, T!Queue(c)
  PROVE  ToolsInv'
<1>0. /\ place \in [T!Threads -> T!Places] /\ text \in [T!Threads -> T!Texts \cup {Nothing}]
      /\ texts \in 0 .. MaxTexts /\ c \in T!Threads /\ place[c] = "run" /\ texts < MaxTexts
      /\ backlog \in Seq(T!Texts) /\ texts' = texts + 1
      /\ answer \in [T!Texts -> {"none", "queued", "stored", "limited", "quarantined", "error"}]
      /\ ToolsLatched /\ ToolsHolding /\ ToolsApart /\ ToolsOpen
      /\ T!OneBrain /\ T!Accounted /\ T!MarkedForStored
      /\ UNCHANGED <<door, life, made, core, latch, fate, hidden, slips>>
  BY DEF ToolsInv, T!ToolsTypeOK, T!ToolsHold, T!Queue
<1>a. CASE life = "leaving" /\ text' = [text EXCEPT ![c] = texts'] /\ T!GoTo(c, "bucket")
           /\ UNCHANGED <<ask, backlog, answer>>
  BY <1>0, <1>a, ToolsKeep
<1>b. CASE backlog' = Append(backlog, texts') /\ answer' = [answer EXCEPT ![texts'] = "queued"]
           /\ T!Over(c) /\ UNCHANGED text
  <2>1. /\ texts + 1 \in T!Texts /\ fate[texts + 1] = "none"
        /\ \A x \in T!Threads : text[x] # texts + 1
        /\ \A i \in 1 .. Len(backlog) : backlog[i] # texts + 1
    BY <1>0, ToolsNew
  <2>2. /\ backlog' \in Seq(T!Texts) /\ Len(backlog') = Len(backlog) + 1 /\ Len(backlog) \in Nat
        /\ \A i \in 1 .. Len(backlog) : backlog'[i] = backlog[i]
        /\ backlog'[Len(backlog) + 1] = texts + 1
        /\ \A i \in 1 .. Len(backlog') : i = Len(backlog) + 1 \/ i \in 1 .. Len(backlog)
        /\ \A i \in 1 .. Len(backlog) : backlog[i] \in T!Texts
    BY <1>0, <1>b, <2>1
  <2>3. /\ place' = [place EXCEPT ![c] = "idle"]
        /\ ask' \in [Callers -> [tool : T!Kinds \cup {"none", "done"}, direct : BOOLEAN]]
    BY <1>b, ToolsOver DEF T!GoTo
  <2>4. answer' \in [T!Texts -> {"none", "queued", "stored", "limited", "quarantined", "error"}]
    BY <1>0, <1>b, <2>1
  <2>5. T!ToolsTypeOK'
    BY <1>0, <1>b, <2>2, <2>3, <2>4 DEF ToolsInv, T!ToolsTypeOK
  <2>6. ToolsLatched' /\ ToolsHolding'
    BY <1>0, <1>b, <2>3 DEF ToolsLatched, ToolsHolding
  <2>7. ToolsApart'
    <3>1. \A i, j \in 1 .. Len(backlog') : backlog'[i] = backlog'[j] => i = j
      BY <1>0, <2>1, <2>2 DEF ToolsApart
    <3>2. \A x \in T!Threads, i \in 1 .. Len(backlog') : text[x] # backlog'[i]
      <4> SUFFICES ASSUME NEW x \in T!Threads, NEW i \in 1 .. Len(backlog') PROVE text[x] # backlog'[i]
        OBVIOUS
      <4>1. CASE i = Len(backlog) + 1
        BY <2>1, <2>2, <4>1
      <4>2. CASE i \in 1 .. Len(backlog)
        BY <1>0, <2>2, <4>2 DEF ToolsApart
      <4> QED
        BY <2>2, <4>1, <4>2
    <3> QED
      BY <1>0, <1>b, <3>1, <3>2 DEF ToolsApart
  <2>8. ToolsOpen'
    <3>1. \A i \in 1 .. Len(backlog') : backlog'[i] <= texts + 1 /\ fate[backlog'[i]] = "none"
      <4> SUFFICES ASSUME NEW i \in 1 .. Len(backlog')
                   PROVE  backlog'[i] <= texts + 1 /\ fate[backlog'[i]] = "none"
        OBVIOUS
      <4>1. CASE i = Len(backlog) + 1
        BY <1>0, <2>1, <2>2, <4>1
      <4>2. CASE i \in 1 .. Len(backlog)
        <5>1. backlog'[i] = backlog[i] /\ backlog[i] \in Nat /\ texts \in Nat
          BY <1>0, <2>2, <4>2
        <5>2. backlog[i] <= texts /\ fate[backlog[i]] = "none"
          BY <1>0, <4>2 DEF ToolsOpen
        <5> QED
          BY <5>1, <5>2
      <4> QED
        BY <2>2, <4>1, <4>2
    <3>2. \A x \in T!Threads : text[x] # Nothing => text[x] <= texts + 1 /\ fate[text[x]] = "none"
      BY <1>0 DEF ToolsOpen
    <3> QED
      BY <1>0, <1>b, <3>1, <3>2 DEF ToolsOpen
  <2>9. T!OneBrain'
    BY <1>0 DEF T!OneBrain
  <2>10. T!Accounted'
    <3> SUFFICES ASSUME NEW t \in T!Texts
                 PROVE  /\ answer'[t] = "queued" =>
                             \/ life = "killed"
                             \/ \E i \in 1 .. Len(backlog') : backlog'[i] = t
                             \/ \E w \in Helpers : text[w] = t
                             \/ fate[t] # "none"
                        /\ answer'[t] \notin {"none", "queued"} =>
                             fate[t] = (IF answer'[t] = "error" THEN "raised" ELSE answer'[t])
      BY <1>0, <1>b DEF T!Accounted
    <3>1. CASE t = texts + 1
      <4>1. answer'[t] = "queued"
        BY <1>0, <1>b, <3>1
      <4>2. Len(backlog) + 1 \in 1 .. Len(backlog') /\ backlog'[Len(backlog) + 1] = t
        BY <2>2, <3>1
      <4> QED
        BY <4>1, <4>2
    <3>2. CASE t # texts + 1
      <4>1. answer'[t] = answer[t]
        BY <1>0, <1>b, <3>2
      <4>2. (\E i \in 1 .. Len(backlog) : backlog[i] = t) => \E i \in 1 .. Len(backlog') : backlog'[i] = t
        BY <2>2
      <4> QED
        BY <1>0, <4>1, <4>2 DEF T!Accounted
    <3> QED
      BY <3>1, <3>2
  <2>11. T!MarkedForStored'
    <3>1. \A x \in T!Threads : place[x] = "add" => place'[x] = "add"
      BY <1>0, <2>3
    <3> QED
      BY <1>0, <1>b, <3>1 DEF T!MarkedForStored
  <2> QED
    BY <2>5, <2>6, <2>7, <2>8, <2>9, <2>10, <2>11 DEF ToolsInv, T!ToolsHold
<1> QED
  BY <1>a, <1>b DEF T!Queue

\* A text that is taken from the queue is with one helper.
LEMMA ToolsTake ==
  ASSUME ToolsInv, NEW w \in Helpers, T!Take(w)
  PROVE  ToolsInv'
<1>0. /\ place \in [T!Threads -> T!Places] /\ text \in [T!Threads -> T!Texts \cup {Nothing}]
      /\ texts \in 0 .. MaxTexts /\ w \in T!Threads /\ place[w] = "idle"
      /\ backlog \in Seq(T!Texts) /\ backlog # <<>>
      /\ ToolsLatched /\ ToolsHolding /\ ToolsApart /\ ToolsOpen
      /\ T!OneBrain /\ T!Accounted /\ T!MarkedForStored
      /\ text' = [text EXCEPT ![w] = Head(backlog)] /\ backlog' = Tail(backlog)
      /\ place' = [place EXCEPT ![w] = "bucket"]
      /\ UNCHANGED <<door, life, made, core, latch, ask, texts, answer, fate, hidden, slips>>
  BY DEF ToolsInv, T!ToolsTypeOK, T!ToolsHold, T!Take, T!GoTo
<1>1. /\ Len(backlog) \in Nat /\ Len(backlog) > 0 /\ Head(backlog) = backlog[1] /\ backlog[1] \in T!Texts
      /\ backlog' \in Seq(T!Texts) /\ Len(backlog') = Len(backlog) - 1
      /\ \A i \in 1 .. Len(backlog') : backlog'[i] = backlog[i + 1]
      /\ \A i \in 2 .. Len(backlog) : backlog[i] = backlog'[i - 1]
  BY <1>0
<1>2. /\ text'[w] = backlog[1] /\ \A x \in T!Threads \ {w} : text'[x] = text[x]
      /\ text' \in [T!Threads -> T!Texts \cup {Nothing}]
  BY <1>0, <1>1
<1>3. T!ToolsTypeOK'
  BY <1>0, <1>1, <1>2 DEF ToolsInv, T!ToolsTypeOK
<1>4. ToolsLatched' /\ ToolsHolding'
  <2>1. ToolsLatched'
    BY <1>0 DEF ToolsLatched
  <2> QED
    BY <1>0, <1>1, <1>2, <2>1 DEF ToolsHolding
<1>5. ToolsApart'
  <2>1. \A i, j \in 1 .. Len(backlog') : backlog'[i] = backlog'[j] => i = j
    BY <1>0, <1>1 DEF ToolsApart
  <2>2. \A x \in T!Threads, i \in 1 .. Len(backlog') : text'[x] # backlog'[i]
    <3> SUFFICES ASSUME NEW x \in T!Threads, NEW i \in 1 .. Len(backlog') PROVE text'[x] # backlog[i + 1]
      BY <1>1
    <3>1. i + 1 \in 1 .. Len(backlog) /\ 1 \in 1 .. Len(backlog) /\ i + 1 # 1
      BY <1>1
    <3> QED
      BY <1>0, <1>2, <3>1 DEF ToolsApart
  <2>3. \A x \in T!Threads : text[x] # backlog[1]
    BY <1>0, <1>1 DEF ToolsApart
  <2> QED
    BY <1>0, <1>2, <2>1, <2>2, <2>3 DEF ToolsApart
<1>6. ToolsOpen'
  BY <1>0, <1>1, <1>2 DEF ToolsOpen
<1>7. T!OneBrain'
  BY <1>0 DEF T!OneBrain
<1>8. T!Accounted'
  <2> SUFFICES ASSUME NEW t \in T!Texts, answer[t] = "queued", life # "killed", fate[t] = "none"
               PROVE  \/ \E i \in 1 .. Len(backlog') : backlog'[i] = t
                      \/ \E v \in Helpers : text'[v] = t
    BY <1>0 DEF T!Accounted
  <2>1. CASE \E v \in Helpers : text[v] = t
    <3>1. text[w] = Nothing
      BY <1>0 DEF ToolsHolding
    <3> QED
      BY <1>2, <2>1, <3>1
  <2>2. CASE \E i \in 1 .. Len(backlog) : backlog[i] = t
    <3>1. PICK i \in 1 .. Len(backlog) : backlog[i] = t
      BY <2>2
    <3>2. CASE i = 1
      BY <1>2, <3>1, <3>2
    <3>3. CASE i # 1
      <4>1. i - 1 \in 1 .. Len(backlog') /\ backlog'[i - 1] = t
        BY <1>1, <3>1, <3>3
      <4> QED
        BY <4>1
    <3> QED
      BY <3>2, <3>3
  <2> QED
    BY <1>0, <2>1, <2>2 DEF T!Accounted
<1>9. T!MarkedForStored'
  <2>1. \A x \in T!Threads : place[x] = "add" => place'[x] = "add" /\ text'[x] = text[x]
    BY <1>0, <1>2
  <2> QED
    BY <1>0, <2>1 DEF T!MarkedForStored
<1> QED
  BY <1>3, <1>4, <1>5, <1>6, <1>7, <1>8, <1>9 DEF ToolsInv, T!ToolsHold

\* The call for the text of a thread ends.
LEMMA ToolsEnded ==
  ASSUME ToolsInv, NEW x \in T!Threads, place[x] \in T!Keeping,
         NEW f \in {"limited", "quarantined", "raised", "stored"}, T!Ended(x, f),
         slips' \in 0 .. MaxBreaks,
         slips' = 0 => slips = 0 /\ (place[x] = "add" /\ life = "up" => f = "stored"),
         UNCHANGED <<door, life, made, core, latch, texts, backlog, hidden>>
  PROVE  ToolsInv'
<1>0. /\ place \in [T!Threads -> T!Places] /\ text \in [T!Threads -> T!Texts \cup {Nothing}]
      /\ answer \in [T!Texts -> {"none", "queued", "stored", "limited", "quarantined", "error"}]
      /\ fate \in [T!Texts -> {"none", "stored", "limited", "quarantined", "raised"}]
      /\ texts \in 0 .. MaxTexts /\ slips \in 0 .. MaxBreaks /\ backlog \in Seq(T!Texts)
      /\ ask \in [Callers -> [tool : T!Kinds \cup {"none", "done"}, direct : BOOLEAN]]
      /\ ToolsLatched /\ ToolsHolding /\ ToolsApart /\ ToolsOpen
      /\ T!OneBrain /\ T!Accounted /\ T!MarkedForStored
  BY DEF ToolsInv, T!ToolsTypeOK, T!ToolsHold
<1>1. PICK u \in T!Texts : text[x] = u
  BY <1>0 DEF ToolsHolding
<1>2. T!Told(x, f) \in {"queued", "stored", "limited", "quarantined", "error"}
      /\ (T!Told(x, f) # "queued" => f = (IF T!Told(x, f) = "error" THEN "raised" ELSE T!Told(x, f)))
  BY DEF T!Told
<1>3. /\ fate' = [fate EXCEPT ![u] = f] /\ answer' = [answer EXCEPT ![u] = T!Told(x, f)]
      /\ text' = [text EXCEPT ![x] = Nothing] /\ place' = [place EXCEPT ![x] = "idle"]
      /\ ask' \in [Callers -> [tool : T!Kinds \cup {"none", "done"}, direct : BOOLEAN]]
  <2>1. ask' \in [Callers -> [tool : T!Kinds \cup {"none", "done"}, direct : BOOLEAN]]
    BY <1>0 DEF T!Ended, T!Over, T!NoCall
  <2> QED
    BY <1>1, <2>1 DEF T!Ended, T!Over, T!GoTo
<1>4. T!ToolsTypeOK'
  BY <1>0, <1>2, <1>3 DEF ToolsInv, T!ToolsTypeOK
<1>5. ToolsLatched' /\ ToolsHolding'
  BY <1>0, <1>3 DEF ToolsLatched, ToolsHolding
<1>6. ToolsApart'
  <2>1. \A y \in T!Threads : text'[y] = Nothing \/ text'[y] = text[y]
    BY <1>0, <1>3
  <2>2. \A i \in 1 .. Len(backlog) : backlog[i] # Nothing
    BY <1>0
  <2>3. \A y, z \in T!Threads : text'[y] # Nothing /\ text'[y] = text'[z] => y = z
    BY <1>0, <2>1 DEF ToolsApart
  <2>4. \A y \in T!Threads, i \in 1 .. Len(backlog) : text'[y] # backlog[i]
    BY <1>0, <2>1, <2>2 DEF ToolsApart
  <2> QED
    BY <1>0, <2>3, <2>4 DEF ToolsApart
<1>7. ToolsOpen'
  <2>1. \A y \in T!Threads : text'[y] # Nothing =>
          text[y] = text'[y] /\ text[y] \in T!Texts /\ text[y] # u
    BY <1>0, <1>1, <1>3 DEF ToolsApart
  <2>2. \A i \in 1 .. Len(backlog) : backlog[i] \in T!Texts /\ backlog[i] # u
    BY <1>0, <1>1 DEF ToolsApart
  <2>3. u <= texts
    BY <1>0, <1>1 DEF ToolsOpen
  <2>4. \A y \in T!Threads : text'[y] # Nothing => text'[y] <= texts /\ fate'[text'[y]] = "none"
    BY <1>0, <1>3, <2>1 DEF ToolsOpen
  <2>5. \A i \in 1 .. Len(backlog) : backlog[i] <= texts /\ fate'[backlog[i]] = "none"
    BY <1>0, <1>3, <2>2 DEF ToolsOpen
  <2>6. \A t \in T!Texts : t > texts => fate'[t] = "none"
    BY <1>0, <1>3, <2>3 DEF ToolsOpen
  <2> QED
    BY <2>4, <2>5, <2>6 DEF ToolsOpen
<1>8. T!OneBrain'
  BY <1>0 DEF T!OneBrain
<1>9. T!Accounted'
  <2> SUFFICES ASSUME NEW t \in T!Texts
               PROVE  /\ answer'[t] = "queued" =>
                           \/ life = "killed"
                           \/ \E i \in 1 .. Len(backlog) : backlog[i] = t
                           \/ \E w \in Helpers : text'[w] = t
                           \/ fate'[t] # "none"
                      /\ answer'[t] \notin {"none", "queued"} =>
                           fate'[t] = (IF answer'[t] = "error" THEN "raised" ELSE answer'[t])
    BY DEF T!Accounted
  <2>1. CASE t = u
    BY <1>0, <1>2, <1>3, <2>1
  <2>2. CASE t # u
    <3>1. answer'[t] = answer[t] /\ fate'[t] = fate[t]
      BY <1>0, <1>3, <2>2
    <3>2. \A w \in T!Threads : text[w] = t => text'[w] = t
      BY <1>0, <1>1, <1>3, <2>2
    <3> QED
      BY <1>0, <3>1, <3>2 DEF T!Accounted
  <2> QED
    BY <2>1, <2>2
<1>10. T!MarkedForStored'
  <2> SUFFICES ASSUME life = "up", slips' = 0, NEW t \in hidden, fate'[t] # "stored"
               PROVE  \E y \in T!Threads : text'[y] = t /\ place'[y] = "add"
    BY DEF T!MarkedForStored
  <2>0. t \in T!Texts /\ fate[u] = "none"
    BY <1>0, <1>1 DEF ToolsInv, T!ToolsTypeOK, ToolsOpen
  <2>1. fate[t] # "stored"
    BY <1>0, <1>3, <2>0
  <2>2. PICK y \in T!Threads : text[y] = t /\ place[y] = "add"
    BY <1>0, <2>1 DEF T!MarkedForStored
  <2>3. y # x
    BY <1>0, <1>1, <1>3, <2>0, <2>2
  <2> QED
    BY <1>0, <1>3, <2>2, <2>3
<1> QED
  BY <1>4, <1>5, <1>6, <1>7, <1>8, <1>9, <1>10 DEF ToolsInv, T!ToolsHold

\* A thread goes on with its text.
LEMMA ToolsOnward ==
  ASSUME ToolsInv, NEW x \in T!Threads, place[x] \in {"bucket", "mark"},
         NEW p \in {"mark", "add"}, T!GoTo(x, p),
         hidden' = hidden \/ (hidden' = hidden \cup {text[x]} /\ p = "add"),
         UNCHANGED <<door, life, made, core, latch, ask, text, texts, backlog, answer, fate, slips>>
  PROVE  ToolsInv'
<1>0. /\ place \in [T!Threads -> T!Places] /\ text \in [T!Threads -> T!Texts \cup {Nothing}]
      /\ hidden \subseteq T!Texts /\ place' = [place EXCEPT ![x] = p]
      /\ ToolsLatched /\ ToolsHolding /\ ToolsApart /\ ToolsOpen
      /\ T!OneBrain /\ T!Accounted /\ T!MarkedForStored
  BY DEF ToolsInv, T!ToolsTypeOK, T!ToolsHold, T!GoTo
<1>1. text[x] \in T!Texts
  BY <1>0 DEF ToolsHolding
<1>2. T!ToolsTypeOK'
  <2>1. hidden' \subseteq T!Texts
    BY <1>0, <1>1
  <2> QED
    BY <1>0, <2>1 DEF ToolsInv, T!ToolsTypeOK
<1>3. ToolsLatched' /\ ToolsHolding'
  BY <1>0 DEF ToolsLatched, ToolsHolding
<1>4. ToolsApart' /\ ToolsOpen'
  BY <1>0 DEF ToolsApart, ToolsOpen
<1>5. T!OneBrain' /\ T!Accounted'
  BY <1>0 DEF T!OneBrain, T!Accounted
<1>6. T!MarkedForStored'
  <2>1. \A y \in T!Threads : place[y] = "add" => place'[y] = "add"
    BY <1>0
  <2>2. \A t \in hidden' : t \in hidden \/ (text[x] = t /\ place'[x] = "add")
    BY <1>0
  <2> QED
    BY <1>0, <2>1, <2>2 DEF T!MarkedForStored
<1> QED
  BY <1>2, <1>3, <1>4, <1>5, <1>6 DEF ToolsInv, T!ToolsHold

\* A text that is kept is dealt with once.
LEMMA ToolsKeeps ==
  ASSUME ToolsInv, NEW x \in T!Threads, T!KeepStep(x)
  PROVE  ToolsInv'
<1>0. slips \in 0 .. MaxBreaks
  BY DEF ToolsInv, T!ToolsTypeOK
<1>1. CASE T!Bucket(x)
  <2>1. CASE \E f \in {"limited", "quarantined"} : T!Ended(x, f)
    <3>1. PICK f \in {"limited", "quarantined"} : T!Ended(x, f)
      BY <2>1
    <3> QED
      BY <1>0, <1>1, <3>1, ToolsEnded DEF T!Bucket
  <2>2. CASE T!GoTo(x, "mark") /\ UNCHANGED <<ask, text, answer, fate>>
    BY <1>1, <2>2, ToolsOnward DEF T!Bucket
  <2> QED
    BY <1>1, <2>1, <2>2 DEF T!Bucket
<1>2. CASE T!Mark(x)
  <2>1. CASE /\ hidden' = hidden \cup {text[x]}
             /\ T!GoTo(x, "add") /\ UNCHANGED <<ask, text, answer, fate, slips>>
    BY <1>2, <2>1, ToolsOnward DEF T!Mark
  <2>2. CASE /\ IF life = "up" THEN T!Break ELSE UNCHANGED slips
             /\ T!Ended(x, "raised") /\ UNCHANGED hidden
    <3>1. slips' \in 0 .. MaxBreaks /\ (slips' = 0 => slips = 0 /\ life # "up")
      BY <1>0, <2>2 DEF T!Break
    <3> QED
      BY <1>2, <2>2, <3>1, ToolsEnded DEF T!Mark
  <2> QED
    BY <1>2, <2>1, <2>2 DEF T!Mark
<1>3. CASE T!Add(x)
  <2>1. CASE life = "up" /\ T!Ended(x, "stored") /\ UNCHANGED slips
    BY <1>0, <1>3, <2>1, ToolsEnded DEF T!Add
  <2>2. CASE life = "up" /\ T!Break /\ T!Ended(x, "raised")
    <3>1. slips' \in 0 .. MaxBreaks /\ slips' # 0
      BY <1>0, <2>2 DEF T!Break
    <3> QED
      BY <1>3, <2>2, <3>1, ToolsEnded DEF T!Add
  <2>3. CASE life = "leaving" /\ T!Ended(x, "raised") /\ UNCHANGED slips
    BY <1>0, <1>3, <2>3, ToolsEnded DEF T!Add
  <2> QED
    BY <1>3, <2>1, <2>2, <2>3 DEF T!Add
<1> QED
  BY <1>1, <1>2, <1>3 DEF T!KeepStep

\* The process begins to leave.
LEMMA ToolsLeave ==
  ASSUME ToolsInv, T!Leave
  PROVE  ToolsInv'
<1>0. /\ life' = "leaving"
      /\ UNCHANGED <<door, made, core, latch, place, ask, text, texts, backlog, answer, fate, hidden, slips>>
      /\ life = "up"
  BY DEF T!Leave
<1>1. T!ToolsTypeOK'
  BY <1>0 DEF ToolsInv, T!ToolsTypeOK
<1>2. ToolsLatched' /\ ToolsHolding' /\ ToolsApart' /\ ToolsOpen'
  BY <1>0 DEF ToolsInv, ToolsLatched, ToolsHolding, ToolsApart, ToolsOpen
<1>3. T!ToolsHold'
  BY <1>0 DEF ToolsInv, T!ToolsHold, T!OneBrain, T!Accounted, T!MarkedForStored
<1> QED
  BY <1>1, <1>2, <1>3 DEF ToolsInv

\* One that ends leaves nothing that was answered "queued", unless killed.
LEMMA ToolsEnds ==
  ASSUME ToolsInv, NEW how \in {"gone", "killed"}, T!Ends(how), life # "killed",
         how = "gone" => backlog = <<>> /\ \A x \in T!Threads : place[x] = "idle"
  PROVE  ToolsInv'
<1>0. /\ life' = how /\ core' = FALSE /\ made' = 0 /\ latch' = Nothing
      /\ place' = [x \in T!Threads |-> "idle"] /\ text' = [x \in T!Threads |-> Nothing]
      /\ ask' = [c \in Callers |-> T!NoCall] /\ backlog' = <<>>
      /\ UNCHANGED <<door, texts, answer, fate, hidden, slips>>
  BY DEF T!Ends
<1>1. T!ToolsTypeOK'
  <2>1. T!NoCall \in [tool : T!Kinds \cup {"none", "done"}, direct : BOOLEAN]
    BY DEF T!NoCall
  <2>2. /\ place' \in [T!Threads -> T!Places] /\ text' \in [T!Threads -> T!Texts \cup {Nothing}]
        /\ ask' \in [Callers -> [tool : T!Kinds \cup {"none", "done"}, direct : BOOLEAN]]
        /\ backlog' \in Seq(T!Texts)
    BY <1>0, <2>1
  <2> QED
    BY <1>0, <2>2 DEF ToolsInv, T!ToolsTypeOK
<1>2. ToolsLatched' /\ ToolsHolding' /\ ToolsApart'
  BY <1>0 DEF ToolsLatched, ToolsHolding, ToolsApart
<1>3. ToolsOpen'
  BY <1>0 DEF ToolsInv, ToolsOpen
<1>4. T!OneBrain' /\ T!MarkedForStored'
  BY <1>0 DEF T!OneBrain, T!MarkedForStored
<1>5. T!Accounted'
  <2>1. how = "gone" => \A x \in T!Threads : text[x] = Nothing
    BY DEF ToolsInv, ToolsHolding
  <2>2. how = "gone" => \A t \in T!Texts : answer[t] = "queued" => fate[t] # "none"
    BY <2>1 DEF ToolsInv, T!ToolsHold, T!Accounted
  <2>3. \A t \in T!Texts : answer[t] \notin {"none", "queued"} =>
          fate[t] = (IF answer[t] = "error" THEN "raised" ELSE answer[t])
    BY DEF ToolsInv, T!ToolsHold, T!Accounted
  <2> QED
    BY <1>0, <2>2, <2>3 DEF T!Accounted
<1> QED
  BY <1>1, <1>2, <1>3, <1>4, <1>5 DEF ToolsInv, T!ToolsHold

\* Every step keeps it.
LEMMA ToolsStep == ToolsInv /\ [T!ToolsNext]_toolsVars => ToolsInv'
<1> SUFFICES ASSUME ToolsInv, [T!ToolsNext]_toolsVars PROVE ToolsInv'
  OBVIOUS
<1>1. ASSUME NEW c \in Callers, T!Call(c) \/ T!ToolStep(c) PROVE ToolsInv'
  <2>1. CASE T!KeepNow(c)
    BY <2>1, ToolsKeep DEF T!KeepNow
  <2> QED
    BY <1>1, <2>1, ToolsAsks, ToolsQueue DEF T!ToolStep
<1>2. ASSUME T!Gone PROVE ToolsInv'
  BY <1>2, ToolsEnds DEF T!Gone
<1>3. ASSUME T!Killed PROVE ToolsInv'
  BY <1>3, ToolsEnds DEF T!Killed, T!Alive
<1>4. CASE UNCHANGED toolsVars
  <2>1. T!ToolsTypeOK'
    BY <1>4 DEF toolsVars, ToolsInv, T!ToolsTypeOK
  <2>2. ToolsLatched' /\ ToolsHolding' /\ ToolsApart' /\ ToolsOpen'
    BY <1>4 DEF toolsVars, ToolsInv, ToolsLatched, ToolsHolding, ToolsApart, ToolsOpen
  <2>3. T!ToolsHold'
    BY <1>4 DEF toolsVars, ToolsInv, T!ToolsHold, T!OneBrain, T!Accounted, T!MarkedForStored
  <2> QED
    BY <2>1, <2>2, <2>3 DEF ToolsInv
<1> QED
  BY <1>1, <1>2, <1>3, <1>4, ToolsTake, ToolsKeeps, ToolsLeave DEF T!ToolsNext

HIDE ToolsAssumption DEF T!Threads, T!Texts, T!Keeping, T!Doors, T!Kinds, T!Places, T!brainVars, T!textVars
-----------------------------------------------------------------------------
(* Reranker. *)

RerankInv == R!RerankTypeOK /\ R!RanksByOwnScore

\* Whatever hits score, there is an order of them by score, and by place among
\* equals: each comes at the place that counts those not after it.
LEMMA SortedExists ==
  ASSUME NEW n \in Nat, NEW F \in [1 .. n -> Int]
  PROVE  \E o \in [1 .. n -> 1 .. n] :
           /\ \A i, j \in 1 .. n : i # j => o[i] # o[j]
           /\ \A i, j \in 1 .. n : i < j => F[o[i]] > F[o[j]] \/ (F[o[i]] = F[o[j]] /\ o[i] < o[j])
<1> DEFINE before(i, j) == F[i] > F[j] \/ (F[i] = F[j] /\ i < j)
           upto(i) == {j \in 1 .. n : before(j, i) \/ j = i}
           rank == [i \in 1 .. n |-> Cardinality(upto(i))]
           o == [k \in 1 .. n |-> CHOOSE i \in 1 .. n : rank[i] = k]
<1>1. IsFiniteSet(1 .. n) /\ Cardinality(1 .. n) = n
  BY FS_Interval
<1>2. \A i \in 1 .. n : IsFiniteSet(upto(i)) /\ Cardinality(upto(i)) \in 1 .. n
  <2> SUFFICES ASSUME NEW i \in 1 .. n
               PROVE  IsFiniteSet(upto(i)) /\ Cardinality(upto(i)) \in 1 .. n
    OBVIOUS
  <2>1. upto(i) \in SUBSET (1 .. n) /\ i \in upto(i)
    OBVIOUS
  <2> HIDE DEF upto
  <2>2. IsFiniteSet(upto(i)) /\ Cardinality(upto(i)) <= n
    BY <1>1, <2>1, FS_Subset
  <2>3. Cardinality(upto(i)) \in Nat /\ Cardinality(upto(i)) # 0
    BY <2>1, <2>2, FS_CardinalityType, FS_EmptySet
  <2> QED
    BY <2>2, <2>3
<1>3. \A i, j \in 1 .. n : before(i, j) => rank[i] < rank[j]
  <2> SUFFICES ASSUME NEW i \in 1 .. n, NEW j \in 1 .. n, before(i, j)
               PROVE  Cardinality(upto(i)) < Cardinality(upto(j))
    OBVIOUS
  <2>1. upto(i) \in SUBSET upto(j)
    OBVIOUS
  <2>2. j \in upto(j) /\ j \notin upto(i)
    OBVIOUS
  <2> HIDE DEF upto
  <2>3. Cardinality(upto(i)) <= Cardinality(upto(j)) /\ Cardinality(upto(i)) # Cardinality(upto(j))
    BY <1>2, <2>1, <2>2, FS_Subset
  <2> QED
    BY <1>2, <2>3
<1>4. \A i, j \in 1 .. n : i # j => before(i, j) \/ before(j, i)
  OBVIOUS
<1>5. rank \in [1 .. n -> 1 .. n]
  BY <1>2
<1> HIDE DEF before, upto, rank
<1>6. \A i, j \in 1 .. n : rank[i] = rank[j] => i = j
  <2> SUFFICES ASSUME NEW i \in 1 .. n, NEW j \in 1 .. n, i # j PROVE rank[i] # rank[j]
    OBVIOUS
  <2>1. rank[i] \in Int /\ rank[j] \in Int /\ (rank[i] < rank[j] \/ rank[j] < rank[i])
    BY <1>3, <1>4, <1>5
  <2> QED
    BY <2>1
<1>7. rank \in Surjection(1 .. n, 1 .. n)
  <2>1. rank \in Injection(1 .. n, 1 .. n)
    BY <1>5, <1>6 DEF Injection, IsInjective
  <2> QED
    BY <1>1, <2>1, FS_Injection
<1>8. \A k \in 1 .. n : o[k] \in 1 .. n /\ rank[o[k]] = k
  BY <1>7 DEF Surjection
<1>9. \A i, j \in 1 .. n : i < j => before(o[i], o[j])
  <2> SUFFICES ASSUME NEW i \in 1 .. n, NEW j \in 1 .. n, i < j PROVE before(o[i], o[j])
    OBVIOUS
  <2> HIDE DEF o
  <2>1. o[i] \in 1 .. n /\ o[j] \in 1 .. n /\ rank[o[i]] = i /\ rank[o[j]] = j
    BY <1>8
  <2>2. o[i] # o[j] /\ ~ before(o[j], o[i])
    BY <1>3, <2>1
  <2> QED
    BY <1>4, <2>1, <2>2
<1> HIDE DEF o
<1>10. o \in [1 .. n -> 1 .. n]
  BY <1>8 DEF o
<1>11. \A i, j \in 1 .. n : i # j => o[i] # o[j]
  BY <1>8
<1> QED
  <2>1. \A i, j \in 1 .. n : i < j => F[o[i]] > F[o[j]] \/ (F[o[i]] = F[o[j]] /\ o[i] < o[j])
    BY <1>9 DEF before
  <2> QED
    BY <1>10, <1>11, <2>1

\* The final scores are numbers, and the order chosen is one by them.
LEMMA FinalNumber ==
  ASSUME NEW sc \in [1 .. Hits -> Nat], NEW i \in 1 .. Hits
  PROVE  R!Final(sc, i) \in Int
<1>1. \A a, b \in Int : a * b \in Int
  OBVIOUS
<1> QED
  BY <1>1, RerankAssumption DEF R!Final

\* The order by score is an order, and by score.
LEMMA SortedSorts ==
  ASSUME NEW sc \in [1 .. Hits -> Nat]
  PROVE  /\ R!Sorted(sc) \in R!Orders
         /\ \A i, j \in 1 .. Hits : i < j => R!Final(sc, R!Sorted(sc)[i]) >= R!Final(sc, R!Sorted(sc)[j])
<1> DEFINE F == [i \in 1 .. Hits |-> R!Final(sc, i)]
<1>0. Hits \in Nat /\ \A i \in 1 .. Hits : R!Final(sc, i) \in Int
  BY RerankAssumption, FinalNumber
<1>1. F \in [1 .. Hits -> Int]
  BY <1>0
<1>2. \E o \in R!Orders : \A i, j \in 1 .. Hits : i < j =>
         R!Final(sc, o[i]) > R!Final(sc, o[j]) \/ (R!Final(sc, o[i]) = R!Final(sc, o[j]) /\ o[i] < o[j])
  <2>1. PICK o \in [1 .. Hits -> 1 .. Hits] :
           /\ \A i, j \in 1 .. Hits : i # j => o[i] # o[j]
           /\ \A i, j \in 1 .. Hits : i < j => F[o[i]] > F[o[j]] \/ (F[o[i]] = F[o[j]] /\ o[i] < o[j])
    <3> HIDE DEF F
    <3> QED
      BY <1>0, <1>1, SortedExists
  <2>2. o \in R!Orders
    BY <2>1 DEF R!Orders
  <2>3. \A i \in 1 .. Hits : F[o[i]] = R!Final(sc, o[i])
    BY <2>1
  <2>4. \A i \in 1 .. Hits : o[i] \in 1 .. Hits
    BY <2>1
  <2> HIDE DEF F
  <2>5. \A i, j \in 1 .. Hits : i < j =>
          R!Final(sc, o[i]) > R!Final(sc, o[j]) \/ (R!Final(sc, o[i]) = R!Final(sc, o[j]) /\ o[i] < o[j])
    BY <2>1, <2>3
  <2> QED
    BY <2>2, <2>5
<1> DEFINE sorts(o) == \A i, j \in 1 .. Hits : i < j =>
         R!Final(sc, o[i]) > R!Final(sc, o[j]) \/ (R!Final(sc, o[i]) = R!Final(sc, o[j]) /\ o[i] < o[j])
<1>3. R!Sorted(sc) = CHOOSE o \in R!Orders : sorts(o)
  BY DEF R!Sorted
<1>4. R!Sorted(sc) \in R!Orders /\ sorts(R!Sorted(sc))
  <2> HIDE DEF sorts
  <2>1. \E o \in R!Orders : sorts(o)
    BY <1>2 DEF sorts
  <2> QED
    BY <1>3, <2>1
<1>5. \A i \in 1 .. Hits : R!Sorted(sc)[i] \in 1 .. Hits
  BY <1>4 DEF R!Orders
<1> DEFINE q == R!Sorted(sc)
<1>6. \A i, j \in 1 .. Hits : i < j => R!Final(sc, q[i]) >= R!Final(sc, q[j])
  <2> HIDE DEF q
  <2> SUFFICES ASSUME NEW i \in 1 .. Hits, NEW j \in 1 .. Hits, i < j
               PROVE  R!Final(sc, q[i]) >= R!Final(sc, q[j])
    OBVIOUS
  <2>1. R!Final(sc, q[i]) \in Int /\ R!Final(sc, q[j]) \in Int
    BY <1>0, <1>5 DEF q
  <2>2. R!Final(sc, q[i]) > R!Final(sc, q[j]) \/ R!Final(sc, q[i]) = R!Final(sc, q[j])
    BY <1>4 DEF q
  <2> QED
    BY <2>1, <2>2
<1> QED
  BY <1>4, <1>6

\* The module counts with its own copy of Cardinality.
LEMMA RerankCounts ==
  ASSUME NEW D
  PROVE  R!Cardinality(D) = Cardinality(D)
BY Zenon DEF R!Cardinality, Cardinality

\* However a server orders its entries, each hit gets the score meant for it.
LEMMA ParsedIsGiven ==
  ASSUME NEW g \in [1 .. Hits -> Nat], NEW D \in SUBSET (1 .. Hits), NEW a \in R!Answers(g, D)
  PROVE  R!Parsed(a) = [i \in 1 .. Hits |-> IF i \in D THEN g[i] ELSE 0]
<1> DEFINE n == Cardinality(D)
           at1 == [e \in 1 .. n |-> a[e].index]
<1>1. /\ a \in [1 .. n -> {[index |-> i, score |-> g[i]] : i \in D}]
      /\ \A e, f \in DOMAIN a : e # f => a[e].index # a[f].index
  <2> DEFINE entries == {[index |-> i, score |-> g[i]] : i \in D}
  <2>0. a \in {b \in [1 .. Cardinality(D) -> entries] :
                 /\ \A e, f \in DOMAIN b : e < f => b[e].score >= b[f].score
                 /\ \A e, f \in DOMAIN b : e # f => b[e].index # b[f].index}
    BY Zenon, RerankCounts DEF R!Answers
  <2> HIDE DEF entries, n, at1
  <2>1. a \in [1 .. Cardinality(D) -> entries]
    BY <2>0
  <2>2. \A e, f \in DOMAIN a : e # f => a[e].index # a[f].index
    BY <2>0
  <2> USE DEF entries, n
  <2> QED
    BY <2>1, <2>2
<1>2. DOMAIN a = 1 .. n /\ \A e \in 1 .. n : a[e].index \in D /\ a[e].score = g[a[e].index]
  <2> HIDE DEF n
  <2> SUFFICES ASSUME NEW e \in 1 .. n PROVE a[e].index \in D /\ a[e].score = g[a[e].index]
    BY <1>1
  <2>1. PICK i \in D : a[e] = [index |-> i, score |-> g[i]]
    BY <1>1
  <2> QED
    BY <2>1
<1>3. IsFiniteSet(D) /\ n \in Nat
  <2>1. IsFiniteSet(1 .. Hits)
    BY RerankAssumption, FS_Interval
  <2>2. IsFiniteSet(D)
    BY <2>1, FS_Subset
  <2> QED
    BY <2>2, FS_CardinalityType
<1>4. IsFiniteSet(1 .. n) /\ Cardinality(1 .. n) = n
  BY <1>3, FS_Interval
<1>5. at1 \in Injection(1 .. n, D)
  <2> HIDE DEF n
  <2> QED
    BY <1>1, <1>2 DEF Injection, IsInjective
<1>6. at1 \in Surjection(1 .. n, D)
  <2> HIDE DEF at1
  <2> QED
    BY <1>3, <1>4, <1>5, FS_Injection
<1>7. \A i \in D : \E e \in DOMAIN a : a[e].index = i
  <2> HIDE DEF n
  <2> QED
    BY <1>2, <1>6 DEF Surjection
<1>8. \A i \in 1 .. Hits : R!Parsed(a)[i] = IF i \in D THEN g[i] ELSE 0
  <2> HIDE DEF n
  <2> SUFFICES ASSUME NEW i \in 1 .. Hits PROVE R!Parsed(a)[i] = IF i \in D THEN g[i] ELSE 0
    OBVIOUS
  <2>1. CASE i \in D
    <3> DEFINE e == CHOOSE x \in DOMAIN a : a[x].index = i
    <3>1. e \in DOMAIN a /\ a[e].index = i
      BY <1>7, <2>1
    <3>2. R!Parsed(a)[i] = a[e].score
      BY <1>7, <2>1 DEF R!Parsed
    <3> QED
      BY <1>2, <2>1, <3>1, <3>2
  <2>2. CASE i \notin D
    BY <1>2, <2>2 DEF R!Parsed
  <2> QED
    BY <2>1, <2>2
<1> QED
  BY <1>8 DEF R!Parsed

USE RerankAssumption

\* The invariant holds in the first states.
LEMMA RerankStart == R!RerankInit => RerankInv
<1> SUFFICES ASSUME R!RerankInit PROVE RerankInv
  OBVIOUS
<1>1. R!AsGiven \in R!Orders
  BY DEF R!AsGiven, R!Orders
<1>2. /\ ranked \in [Searches -> R!Orders]
      /\ given \in [Searches -> [1 .. Hits -> Scores \cup {0}]]
  BY <1>1 DEF R!RerankInit
<1>3. /\ phase \in [Searches -> {"new", "probe", "submit", "wait", "done"}]
      /\ probing \in [Searches -> 0 .. Len(Backends) + 1]
      /\ line \in Seq(Searches)
      /\ rerankThread \in [RerankThreads -> Searches \cup {None0, "hung"}]
      /\ rerankFaults \in 0 .. MaxRerankFaults
  BY DEF R!RerankInit
<1>4. R!RerankTypeOK
  BY <1>2, <1>3 DEF R!RerankInit, R!RerankTypeOK
<1>5. R!RanksByOwnScore
  BY DEF R!RerankInit, R!RanksByOwnScore
<1> QED
  BY <1>4, <1>5 DEF RerankInv

\* A step that gives no scores keeps the order of every search.
LEMMA RerankQuiet ==
  ASSUME RerankInv, UNCHANGED <<given, ranked>>,
         up' \subseteq {Backends[i] : i \in DOMAIN Backends},
         backend' \in {Backends[i] : i \in DOMAIN Backends} \cup {None0},
         phase' \in [Searches -> {"new", "probe", "submit", "wait", "done"}],
         probing' \in [Searches -> 0 .. Len(Backends) + 1],
         line' \in Seq(Searches),
         rerankThread' \in [RerankThreads -> Searches \cup {None0, "hung"}],
         rerankFaults' \in 0 .. MaxRerankFaults
  PROVE  RerankInv'
<1>1. R!RerankTypeOK'
  BY DEF RerankInv, R!RerankTypeOK
<1>2. R!RanksByOwnScore'
  BY DEF RerankInv, R!RanksByOwnScore
<1> QED
  BY <1>1, <1>2 DEF RerankInv

\* A score that comes back goes to its own search.
LEMMA RerankScores ==
  ASSUME RerankInv, NEW t \in RerankThreads, R!Score(t)
  PROVE  RerankInv'
<1>0. /\ up \subseteq {Backends[i] : i \in DOMAIN Backends}
      /\ backend \in {Backends[i] : i \in DOMAIN Backends} \cup {None0}
      /\ phase \in [Searches -> {"new", "probe", "submit", "wait", "done"}]
      /\ probing \in [Searches -> 0 .. Len(Backends) + 1]
      /\ line \in Seq(Searches)
      /\ rerankThread \in [RerankThreads -> Searches \cup {None0, "hung"}]
      /\ rerankFaults \in 0 .. MaxRerankFaults
      /\ given \in [Searches -> [1 .. Hits -> Scores \cup {0}]]
      /\ ranked \in [Searches -> R!Orders]
  BY DEF RerankInv, R!RerankTypeOK
<1> DEFINE s == rerankThread[t]
<1>1. /\ s \in Searches /\ rerankThread' = [rerankThread EXCEPT ![t] = None0]
      /\ UNCHANGED <<up, backend, probing, line, rerankFaults>>
  BY DEF R!Score
<1>2. rerankThread' \in [RerankThreads -> Searches \cup {None0, "hung"}]
  BY <1>0, <1>1
<1> HIDE DEF s
<1>3. CASE UNCHANGED <<given, ranked, phase>>
  BY <1>0, <1>1, <1>2, <1>3, RerankQuiet
<1>4. CASE phase[s] = "wait"
  <2>1. PICK g \in [1 .. Hits -> Scores], D \in SUBSET (1 .. Hits) : \E a \in R!Answers(g, D) :
              /\ given' = [given EXCEPT ![s] = [i \in 1 .. Hits |-> IF i \in D THEN g[i] ELSE 0]]
              /\ ranked' = [ranked EXCEPT ![s] = R!Sorted(R!Parsed(a))]
              /\ R!To(s, "done")
    BY <1>4 DEF R!Score, s
  <2>2. PICK a \in R!Answers(g, D) :
              /\ given' = [given EXCEPT ![s] = [i \in 1 .. Hits |-> IF i \in D THEN g[i] ELSE 0]]
              /\ ranked' = [ranked EXCEPT ![s] = R!Sorted(R!Parsed(a))]
              /\ R!To(s, "done")
    BY <2>1
  <2> DEFINE sc == [i \in 1 .. Hits |-> IF i \in D THEN g[i] ELSE 0]
  <2>3. g \in [1 .. Hits -> Nat]
    OBVIOUS
  <2>4. R!Parsed(a) = sc
    BY <2>3, ParsedIsGiven
  <2>5. sc \in [1 .. Hits -> Nat] /\ sc \in [1 .. Hits -> Scores \cup {0}]
    BY <2>3
  <2>6. given' = [given EXCEPT ![s] = sc] /\ ranked' = [ranked EXCEPT ![s] = R!Sorted(sc)]
    BY <2>2, <2>4
  <2> HIDE DEF sc
  <2>7. /\ R!Sorted(sc) \in R!Orders
        /\ \A i, j \in 1 .. Hits : i < j => R!Final(sc, R!Sorted(sc)[i]) >= R!Final(sc, R!Sorted(sc)[j])
    BY <2>5, SortedSorts
  <2>8. /\ given'[s] = sc /\ ranked'[s] = R!Sorted(sc)
        /\ \A q \in Searches \ {s} : given'[q] = given[q] /\ ranked'[q] = ranked[q]
        /\ given' \in [Searches -> [1 .. Hits -> Scores \cup {0}]]
        /\ ranked' \in [Searches -> R!Orders]
    BY <1>0, <1>1, <2>5, <2>6, <2>7
  <2>9. phase' \in [Searches -> {"new", "probe", "submit", "wait", "done"}]
    BY <1>0, <2>2 DEF R!To
  <2>10. R!RerankTypeOK'
    BY <1>0, <1>1, <1>2, <2>8, <2>9 DEF R!RerankTypeOK
  <2>11. R!RanksByOwnScore'
    <3> SUFFICES ASSUME NEW q \in Searches, given'[q] # [i \in 1 .. Hits |-> 0],
                        NEW i \in 1 .. Hits, NEW j \in 1 .. Hits, i < j
                 PROVE  R!Final(given'[q], ranked'[q][i]) >= R!Final(given'[q], ranked'[q][j])
      BY DEF R!RanksByOwnScore, R!Final
    <3>1. CASE q = s
      BY <2>7, <2>8, <3>1
    <3>2. CASE q # s
      BY <2>8, <3>2 DEF RerankInv, R!RanksByOwnScore
    <3> QED
      BY <3>1, <3>2
  <2> QED
    BY <2>10, <2>11 DEF RerankInv
<1> QED
  BY <1>3, <1>4 DEF R!Score, s

\* Every step keeps it.
LEMMA RerankStep == RerankInv /\ [R!RerankNext]_rerankVars => RerankInv'
<1> SUFFICES ASSUME RerankInv, [R!RerankNext]_rerankVars PROVE RerankInv'
  OBVIOUS
<1>0. /\ up \subseteq {Backends[i] : i \in DOMAIN Backends}
      /\ backend \in {Backends[i] : i \in DOMAIN Backends} \cup {None0}
      /\ phase \in [Searches -> {"new", "probe", "submit", "wait", "done"}]
      /\ probing \in [Searches -> 0 .. Len(Backends) + 1]
      /\ line \in Seq(Searches)
      /\ rerankThread \in [RerankThreads -> Searches \cup {None0, "hung"}]
      /\ rerankFaults \in 0 .. MaxRerankFaults
  BY DEF RerankInv, R!RerankTypeOK
<1>1. ASSUME NEW i \in DOMAIN Backends, R!Flip(Backends[i]) PROVE RerankInv'
  BY <1>0, <1>1, RerankQuiet DEF R!Flip, R!Fails
<1>2. ASSUME NEW s \in Searches, R!Ask(s) PROVE RerankInv'
  <2>1. phase' \in [Searches -> {"new", "probe", "submit", "wait", "done"}]
    BY <1>0, <1>2 DEF R!Ask, R!To
  <2>2. probing' \in [Searches -> 0 .. Len(Backends) + 1]
    <3>1. CASE UNCHANGED probing
      BY <1>0, <3>1
    <3>2. CASE probing' = [probing EXCEPT ![s] = 1]
      BY <1>0, <3>2
    <3> QED
      BY <1>2, <3>1, <3>2 DEF R!Ask
  <2> QED
    BY <1>0, <1>2, <2>1, <2>2, RerankQuiet DEF R!Ask
<1>3. ASSUME NEW s \in Searches, R!RerankTurn(s) PROVE RerankInv'
  <2>1. CASE R!Resolve(s)
    <3>1. phase' \in [Searches -> {"new", "probe", "submit", "wait", "done"}]
      BY <1>0, <2>1 DEF R!Resolve, R!To
    <3>2. probing' \in [Searches -> 0 .. Len(Backends) + 1]
      <4>1. CASE UNCHANGED probing
        BY <1>0, <4>1
      <4>2. CASE probing[s] \in DOMAIN Backends /\ probing' = [probing EXCEPT ![s] = @ + 1]
        BY <1>0, <4>2
      <4> QED
        BY <2>1, <4>1, <4>2 DEF R!Resolve
    <3>3. backend' \in {Backends[i] : i \in DOMAIN Backends} \cup {None0}
      BY <1>0, <2>1 DEF R!Resolve
    <3> QED
      BY <1>0, <2>1, <3>1, <3>2, <3>3, RerankQuiet DEF R!Resolve
  <2>2. CASE R!Submit(s)
    BY <1>0, <2>2, RerankQuiet DEF R!Submit, R!To
  <2>3. CASE R!GiveUp(s)
    BY <1>0, <2>3, RerankQuiet DEF R!GiveUp, R!To
  <2> QED
    BY <1>3, <2>1, <2>2, <2>3 DEF R!RerankTurn
<1>4. ASSUME NEW t \in RerankThreads, R!TakeUp(t) \/ R!ScoreFails(t) \/ R!Hang(t) PROVE RerankInv'
  <2>1. CASE R!TakeUp(t)
    BY <1>0, <2>1, RerankQuiet DEF R!TakeUp
  <2>2. CASE R!ScoreFails(t)
    BY <1>0, <2>2, RerankQuiet DEF R!ScoreFails, R!Fails
  <2>3. CASE R!Hang(t)
    BY <1>0, <2>3, RerankQuiet DEF R!Hang, R!Fails
  <2> QED
    BY <1>4, <2>1, <2>2, <2>3
<1>5. CASE UNCHANGED rerankVars
  BY <1>0, <1>5, RerankQuiet DEF rerankVars
<1> QED
  BY <1>1, <1>2, <1>3, <1>4, <1>5, RerankScores DEF R!RerankNext

HIDE RerankAssumption
-----------------------------------------------------------------------------
(* StdioRpc: what a stream is made of. *)

\* The line of id starts at the i-th token of s.
LineAt(s, id, i) ==
  /\ i + 2 <= Len(s) /\ s[i] = <<id, 1>> /\ s[i + 1] = <<id, 2>> /\ s[i + 2] = P!NL
  /\ i = 1 \/ s[i - 1] = P!NL
\* No line of s is empty.
Tidy(s) == \A i \in 1 .. Len(s) : s[i] = P!NL => i > 1 /\ s[i - 1] # P!NL
\* The last line of s has its end.
Closed(s) == s # <<>> => s[Len(s)] = P!NL
\* The messages of s are whole, each on a line of its own.
Framed(s) ==
  /\ Tidy(s) /\ Closed(s)
  /\ \A i \in 1 .. Len(s), id \in 0 .. MaxRequests :
       /\ s[i] = <<id, 1>> => LineAt(s, id, i)
       /\ s[i] = <<id, 2>> => i > 1 /\ s[i - 1] = <<id, 1>>

USE RpcAssumption DEF P!Parts, P!NL, P!Junk, P!Tokens, P!Ids, P!stream, P!history

\* Where the elements of two sequences are when they are joined.
LEMMA ConcatAt ==
  ASSUME NEW S, NEW s \in Seq(S), NEW t \in Seq(S)
  PROVE  /\ s \o t \in Seq(S) /\ Len(s \o t) = Len(s) + Len(t)
         /\ Len(s) \in Nat /\ Len(t) \in Nat
         /\ \A i \in 1 .. Len(s) : i \in 1 .. Len(s \o t) /\ (s \o t)[i] = s[i]
         /\ \A i \in 1 .. Len(t) : Len(s) + i \in 1 .. Len(s \o t) /\ (s \o t)[Len(s) + i] = t[i]
         /\ \A i \in 1 .. Len(s \o t) : i \in 1 .. Len(s) \/ (i - Len(s) \in 1 .. Len(t) /\ (s \o t)[i] = t[i - Len(s)])
<1>1. Len(s) \in Nat /\ Len(t) \in Nat
  OBVIOUS
<1>2. /\ s \o t \in Seq(S) /\ Len(s \o t) = Len(s) + Len(t)
      /\ \A i \in 1 .. Len(s) + Len(t) : (s \o t)[i] = IF i <= Len(s) THEN s[i] ELSE t[i - Len(s)]
  BY ConcatProperties
<1> QED
  BY <1>1, <1>2

\* A stream is cut after its n-th token.
LEMMA CutAt ==
  ASSUME NEW S, NEW s \in Seq(S), NEW n \in 1 .. Len(s)
  PROVE  /\ SubSeq(s, 1, n) \in Seq(S) /\ Len(SubSeq(s, 1, n)) = n
         /\ SubSeq(s, n + 1, Len(s)) \in Seq(S) /\ Len(SubSeq(s, n + 1, Len(s))) = Len(s) - n
         /\ \A i \in 1 .. n : SubSeq(s, 1, n)[i] = s[i]
         /\ \A i \in 1 .. Len(s) - n : SubSeq(s, n + 1, Len(s))[i] = s[n + i]
         /\ s = SubSeq(s, 1, n) \o SubSeq(s, n + 1, Len(s))
<1>0. Len(s) \in Nat /\ n \in Nat /\ n <= Len(s) /\ \A i \in 1 .. Len(s) : s[i] \in S
  OBVIOUS
<1>1. /\ SubSeq(s, 1, n) \in Seq(S) /\ Len(SubSeq(s, 1, n)) = n
      /\ \A i \in 1 .. n : SubSeq(s, 1, n)[i] = s[i]
  <2>1. \A i \in 1 .. n : s[i] \in S
    BY <1>0
  <2>2. /\ SubSeq(s, 1, n) \in Seq(S) /\ Len(SubSeq(s, 1, n)) = IF 1 <= n THEN n - 1 + 1 ELSE 0
        /\ \A i \in 1 .. n - 1 + 1 : SubSeq(s, 1, n)[i] = s[1 + i - 1]
    BY <1>0, <2>1, SubSeqProperties
  <2> QED
    BY <1>0, <2>2
<1>2. /\ SubSeq(s, n + 1, Len(s)) \in Seq(S) /\ Len(SubSeq(s, n + 1, Len(s))) = Len(s) - n
      /\ \A i \in 1 .. Len(s) - n : SubSeq(s, n + 1, Len(s))[i] = s[n + i]
  <2> DEFINE m == n + 1
  <2>1. m \in Int /\ \A i \in m .. Len(s) : s[i] \in S
    BY <1>0
  <2> HIDE DEF m
  <2>2. /\ SubSeq(s, m, Len(s)) \in Seq(S)
        /\ Len(SubSeq(s, m, Len(s))) = IF m <= Len(s) THEN Len(s) - m + 1 ELSE 0
        /\ \A i \in 1 .. Len(s) - m + 1 : SubSeq(s, m, Len(s))[i] = s[m + i - 1]
    BY <1>0, <2>1, SubSeqProperties
  <2>3. SubSeq(s, m, Len(s)) = SubSeq(s, n + 1, Len(s))
    BY DEF m
  <2>4. Len(s) - m + 1 = Len(s) - n /\ \A i \in 1 .. Len(s) - n : m + i - 1 = n + i
    BY <1>0 DEF m
  <2>5. (IF m <= Len(s) THEN Len(s) - m + 1 ELSE 0) = Len(s) - n
    BY <1>0 DEF m
  <2> QED
    BY <2>2, <2>3, <2>4, <2>5
<1> DEFINE x == SubSeq(s, 1, n)
           y == SubSeq(s, n + 1, Len(s))
<1>3. s = x \o y
  <2>1. /\ x \in Seq(S) /\ y \in Seq(S) /\ Len(x) = n /\ Len(y) = Len(s) - n
        /\ \A i \in 1 .. n : x[i] = s[i]
        /\ \A i \in 1 .. Len(s) - n : y[i] = s[n + i]
    BY <1>1, <1>2
  <2> HIDE DEF x, y
  <2>a. Len(x) + Len(y) = Len(s)
    BY <1>0, <2>1
  <2>b. /\ x \o y \in Seq(S) /\ Len(x \o y) = Len(x) + Len(y)
        /\ \A i \in 1 .. Len(x) + Len(y) : (x \o y)[i] = IF i <= Len(x) THEN x[i] ELSE y[i - Len(x)]
    BY <2>1, ConcatProperties
  <2>2. /\ x \o y \in Seq(S) /\ Len(x \o y) = Len(s)
        /\ \A i \in 1 .. Len(s) : (x \o y)[i] = IF i <= n THEN x[i] ELSE y[i - n]
    BY <2>1, <2>a, <2>b
  <2>3. \A i \in 1 .. Len(s) : s[i] = (x \o y)[i]
    <3> SUFFICES ASSUME NEW i \in 1 .. Len(s) PROVE s[i] = (x \o y)[i]
      OBVIOUS
    <3>1. CASE i <= n
      BY <1>0, <2>1, <2>2, <3>1
    <3>2. CASE i > n
      <4>1. i - n \in 1 .. Len(s) - n /\ n + (i - n) = i
        BY <1>0, <3>2
      <4>2. (x \o y)[i] = y[i - n]
        BY <1>0, <2>1, <2>2, <3>2
      <4> QED
        BY <2>1, <4>1, <4>2
    <3>3. i <= n \/ i > n
      BY <1>0
    <3> QED
      BY <3>1, <3>2, <3>3
  <2> QED
    BY <2>1, <2>2, <2>3, SeqEqual
<1> QED
  BY <1>1, <1>2, <1>3

\* A pair with a third element.
LEMMA Append3 ==
  ASSUME NEW a, NEW b, NEW c
  PROVE  Append(<<a, b>>, c) = <<a, b, c>>
<1> DEFINE S == {a, b, c}
           s == <<a, b>>
<1>1. s \in Seq(S) /\ c \in S /\ Len(s) = 2 /\ s[1] = a /\ s[2] = b
  OBVIOUS
<1> HIDE DEF S, s
<1> DEFINE q == Append(s, c)
<1>2. q \in Seq(S) /\ Len(q) = 3 /\ q[1] = a /\ q[2] = b /\ q[3] = c
  <2>0. s \in Seq(S) /\ c \in S
    BY <1>1
  <2>1. q \in Seq(S) /\ Len(q) = Len(s) + 1
    BY <2>0, AppendProperties
  <2>2. q[Len(s) + 1] = c /\ \A i \in 1 .. Len(s) : q[i] = s[i]
    BY <2>0, AppendProperties
  <2> HIDE DEF q
  <2> QED
    BY <1>1, <2>1, <2>2
<1> HIDE DEF q
<1>3. q = <<q[1], q[2], q[3]>>
  BY <1>2
<1> QED
  BY <1>2, <1>3 DEF q, s

\* A line in the stream, token by token.
LEMMA CarriesAt ==
  ASSUME NEW s \in Seq(P!Tokens), NEW id \in P!Ids
  PROVE  P!Carries(s, id) <=> \E i \in 1 .. Len(s) : LineAt(s, id, i)
<1>0. P!Line(id) = <<<<id, 1>>, <<id, 2>>, <<0, 0>>>>
  BY Append3 DEF P!Line, P!Message
<1>1. \A i \in 1 .. Len(s) : i + 2 <= Len(s) =>
        (SubSeq(s, i, i + 2) = P!Line(id) <=> s[i] = <<id, 1>> /\ s[i + 1] = <<id, 2>> /\ s[i + 2] = P!NL)
  <2> SUFFICES ASSUME NEW i \in 1 .. Len(s), i + 2 <= Len(s)
               PROVE  SubSeq(s, i, i + 2) = P!Line(id)
                        <=> s[i] = <<id, 1>> /\ s[i + 1] = <<id, 2>> /\ s[i + 2] = P!NL
    OBVIOUS
  <2> DEFINE q == SubSeq(s, i, i + 2)
  <2>1. Len(s) \in Nat /\ i \in Int /\ i + 2 \in Int /\ \A j \in i .. i + 2 : s[j] \in P!Tokens
    OBVIOUS
  <2>2. /\ q \in Seq(P!Tokens) /\ Len(q) = 3 /\ q[1] = s[i] /\ q[2] = s[i + 1] /\ q[3] = s[i + 2]
    BY <2>1, SubSeqProperties
  <2>3. q = <<q[1], q[2], q[3]>>
    <3> HIDE DEF q
    <3> QED
      BY <2>2
  <2> HIDE DEF q
  <2>4. q = P!Line(id) <=> q[1] = <<id, 1>> /\ q[2] = <<id, 2>> /\ q[3] = <<0, 0>>
    <3> DEFINE x == <<id, 1>>
               y == <<id, 2>>
               z == <<0, 0>>
               l == P!Line(id)
    <3>1. l = <<x, y, z>>
      BY <1>0
    <3>2. q = <<q[1], q[2], q[3]>>
      BY <2>3
    <3> HIDE DEF x, y, z, l
    <3>3. l[1] = x /\ l[2] = y /\ l[3] = z
      BY <3>1
    <3>4. q = l <=> q[1] = x /\ q[2] = y /\ q[3] = z
      BY <3>1, <3>2, <3>3
    <3> QED
      BY <3>4 DEF x, y, z, l
  <2> QED
    BY <2>2, <2>4 DEF q
<1> QED
  BY <1>1 DEF P!Carries, LineAt

\* An answer is a framed line.
LEMMA LinesAreFramed ==
  /\ <<P!Junk, P!NL>> \in Seq(P!Tokens) /\ Framed(<<P!Junk, P!NL>>)
  /\ \A id \in 0 .. MaxRequests : /\ P!Line(id) \in Seq(P!Tokens) /\ Framed(P!Line(id))
                                  /\ Len(P!Line(id)) = 3 /\ LineAt(P!Line(id), id, 1)
<1>1. <<P!Junk, P!NL>> \in Seq(P!Tokens) /\ Framed(<<P!Junk, P!NL>>)
  <2> DEFINE s == <<P!Junk, P!NL>>
  <2>1. s \in Seq(P!Tokens) /\ Len(s) = 2 /\ s[1] = <<1, 0>> /\ s[2] = <<0, 0>>
    OBVIOUS
  <2> HIDE DEF s
  <2>2. Tidy(s) /\ Closed(s)
    BY <2>1 DEF Tidy, Closed
  <2>3. \A i \in 1 .. Len(s), id \in 0 .. MaxRequests : s[i] # <<id, 1>> /\ s[i] # <<id, 2>>
    BY <2>1
  <2>4. Framed(s)
    BY <2>2, <2>3 DEF Framed
  <2> QED
    BY <2>1, <2>4 DEF s
<1>2. ASSUME NEW id \in 0 .. MaxRequests
      PROVE  /\ P!Line(id) \in Seq(P!Tokens) /\ Framed(P!Line(id))
             /\ Len(P!Line(id)) = 3 /\ LineAt(P!Line(id), id, 1)
  <2> DEFINE s == <<<<id, 1>>, <<id, 2>>, <<0, 0>>>>
  <2>0. P!Line(id) = s
    BY Append3 DEF P!Line, P!Message
  <2>1. s \in Seq(P!Tokens) /\ Len(s) = 3 /\ s[1] = <<id, 1>> /\ s[2] = <<id, 2>> /\ s[3] = <<0, 0>>
    OBVIOUS
  <2> HIDE DEF s
  <2>2. Tidy(s) /\ Closed(s)
    BY <2>1 DEF Tidy, Closed
  <2>3. LineAt(s, id, 1)
    BY <2>1 DEF LineAt
  <2>4. \A i \in 1 .. Len(s), k \in 0 .. MaxRequests :
           /\ s[i] = <<k, 1>> => k = id /\ i = 1
           /\ s[i] = <<k, 2>> => k = id /\ i = 2
    BY <2>1
  <2>5. Framed(s)
    BY <2>1, <2>2, <2>3, <2>4 DEF Framed
  <2> QED
    BY <2>0, <2>1, <2>3, <2>5
<1> QED
  BY <1>1, <1>2

\* A line stays where it is when something follows, and moves when something
\* comes before.
LEMMA LineAtConcat ==
  ASSUME NEW s \in Seq(P!Tokens), NEW t \in Seq(P!Tokens), NEW id \in 0 .. MaxRequests
  PROVE  /\ \A i \in 1 .. Len(s) : LineAt(s, id, i) => LineAt(s \o t, id, i)
         /\ Closed(s) => \A i \in 1 .. Len(t) : LineAt(t, id, i) => LineAt(s \o t, id, Len(s) + i)
         /\ Framed(s) => \A i \in 1 .. Len(s) : LineAt(s \o t, id, i) => LineAt(s, id, i)
         /\ \A i \in 1 .. Len(t) : LineAt(s \o t, id, Len(s) + i) => LineAt(t, id, i)
<1> DEFINE u == s \o t
           m == Len(s)
<1>1. m \in Nat /\ Len(t) \in Nat /\ Len(u) = m + Len(t)
  BY ConcatAt
<1>2. \A i \in 1 .. m : u[i] = s[i]
  BY ConcatAt
<1>3. \A i \in 1 .. Len(t) : u[m + i] = t[i]
  BY ConcatAt
<1> HIDE DEF u, m, P!NL, P!Tokens
<1>4. ASSUME NEW i \in 1 .. m, i + 2 <= m
      PROVE  /\ u[i] = s[i] /\ u[i + 1] = s[i + 1] /\ u[i + 2] = s[i + 2] /\ i + 2 <= Len(u)
             /\ i = 1 \/ u[i - 1] = s[i - 1]
  <2>1. i + 1 \in 1 .. m /\ i + 2 \in 1 .. m /\ (i = 1 \/ i - 1 \in 1 .. m) /\ i + 2 <= Len(u)
    BY <1>1, <1>4
  <2> QED
    BY <1>2, <2>1
<1>5. ASSUME NEW i \in 1 .. Len(t), i + 2 <= Len(t)
      PROVE  /\ u[m + i] = t[i] /\ u[m + i + 1] = t[i + 1] /\ u[m + i + 2] = t[i + 2] /\ m + i + 2 <= Len(u)
             /\ i = 1 \/ u[m + i - 1] = t[i - 1]
  <2>1. /\ i + 1 \in 1 .. Len(t) /\ i + 2 \in 1 .. Len(t) /\ (i = 1 \/ i - 1 \in 1 .. Len(t))
        /\ m + i + 2 <= Len(u)
    BY <1>1, <1>5
  <2>2. m + (i + 1) = m + i + 1 /\ m + (i + 2) = m + i + 2 /\ m + (i - 1) = m + i - 1
    BY <1>1
  <2>3. u[m + (i + 1)] = t[i + 1] /\ u[m + (i + 2)] = t[i + 2] /\ (i = 1 \/ u[m + (i - 1)] = t[i - 1])
    BY <1>3, <2>1
  <2>4. u[m + i] = t[i]
    BY <1>3
  <2> QED
    BY <2>1, <2>2, <2>3, <2>4
<1>6. ASSUME NEW i \in 1 .. m, LineAt(s, id, i) PROVE LineAt(u, id, i)
  <2>1. i + 2 <= m
    BY <1>6 DEF LineAt, m
  <2> QED
    BY <1>4, <1>6, <2>1 DEF LineAt
<1>7. ASSUME Closed(s), NEW i \in 1 .. Len(t), LineAt(t, id, i) PROVE LineAt(u, id, m + i)
  <2>1. i + 2 <= Len(t)
    BY <1>7 DEF LineAt
  <2>2. m + i = 1 \/ u[m + i - 1] = P!NL
    <3>1. CASE i = 1 /\ m = 0
      BY <3>1
    <3>2. CASE i = 1 /\ m # 0
      <4>1. m \in 1 .. m /\ m + i - 1 = m
        BY <1>1, <3>2
      <4>2. s[m] = P!NL
        BY <1>7, <3>2 DEF Closed, m
      <4> QED
        BY <1>2, <4>1, <4>2
    <3>3. CASE i # 1
      BY <1>5, <1>7, <2>1, <3>3 DEF LineAt
    <3> QED
      BY <3>1, <3>2, <3>3
  <2> QED
    BY <1>1, <1>5, <1>7, <2>1, <2>2 DEF LineAt
<1>8. ASSUME Framed(s), NEW i \in 1 .. m, LineAt(u, id, i) PROVE LineAt(s, id, i)
  <2>1. s[i] = <<id, 1>>
    BY <1>2, <1>8 DEF LineAt
  <2> QED
    BY <1>8, <2>1 DEF Framed, m
<1>9. ASSUME NEW i \in 1 .. Len(t), LineAt(u, id, m + i) PROVE LineAt(t, id, i)
  <2> DEFINE k == m + i
  <2>a. LineAt(u, id, k)
    BY <1>9
  <2> HIDE DEF k
  <2>b. k + 2 <= Len(u) /\ u[k] = <<id, 1>> /\ u[k + 1] = <<id, 2>> /\ u[k + 2] = P!NL /\ (k = 1 \/ u[k - 1] = P!NL)
    BY <2>a DEF LineAt
  <2>c. k = m + i /\ k - 1 = m + i - 1
    BY <1>1 DEF k
  <2>1. m + i + 2 <= Len(u) /\ (m + i = 1 \/ u[m + i - 1] = P!NL)
    BY <2>b, <2>c
  <2>2. i + 2 <= Len(t) /\ (m + i = 1 => i = 1)
    BY <1>1, <2>1
  <2>3. i = 1 \/ t[i - 1] = P!NL
    BY <1>5, <2>1, <2>2
  <2> QED
    BY <1>5, <2>b, <2>c, <2>2, <2>3 DEF LineAt
<1> QED
  BY <1>6, <1>7, <1>8, <1>9 DEF u, m

\* Tidy streams joined are tidy.
LEMMA TidyConcat ==
  ASSUME NEW s \in Seq(P!Tokens), NEW t \in Seq(P!Tokens), Tidy(s), Tidy(t)
  PROVE  Tidy(s \o t)
<1> DEFINE u == s \o t
<1>1. /\ u \in Seq(P!Tokens) /\ Len(s) \in Nat /\ Len(t) \in Nat
      /\ \A i \in 1 .. Len(s) : u[i] = s[i]
      /\ \A i \in 1 .. Len(t) : u[Len(s) + i] = t[i]
      /\ \A i \in 1 .. Len(u) : i \in 1 .. Len(s) \/ (i - Len(s) \in 1 .. Len(t) /\ u[i] = t[i - Len(s)])
  BY ConcatAt
<1> HIDE DEF u
<1> SUFFICES ASSUME NEW i \in 1 .. Len(u), u[i] = P!NL PROVE i > 1 /\ u[i - 1] # P!NL
  BY DEF Tidy, u
<1>2. CASE i \in 1 .. Len(s)
  <2>1. i > 1 /\ s[i - 1] # P!NL
    BY <1>1, <1>2 DEF Tidy
  <2>2. i - 1 \in 1 .. Len(s)
    BY <1>1, <1>2, <2>1
  <2> QED
    BY <1>1, <2>1, <2>2
<1>3. CASE i - Len(s) \in 1 .. Len(t) /\ u[i] = t[i - Len(s)]
  <2>1. i - Len(s) > 1 /\ t[i - Len(s) - 1] # P!NL
    BY <1>3 DEF Tidy
  <2>2. i - Len(s) - 1 \in 1 .. Len(t) /\ Len(s) + (i - Len(s) - 1) = i - 1 /\ i > 1
    BY <1>1, <1>3, <2>1
  <2>3. u[i - 1] = t[i - Len(s) - 1]
    <3> DEFINE j == i - Len(s) - 1
    <3>1. j \in 1 .. Len(t) /\ Len(s) + j = i - 1
      BY <2>2
    <3> HIDE DEF j
    <3>2. u[i - 1] = t[j]
      BY <1>1, <3>1
    <3> QED
      BY <3>2 DEF j
  <2> QED
    BY <2>1, <2>2, <2>3
<1> QED
  BY <1>1, <1>2, <1>3

\* Closed streams joined are closed.
LEMMA ClosedConcat ==
  ASSUME NEW s \in Seq(P!Tokens), NEW t \in Seq(P!Tokens), Closed(s), Closed(t)
  PROVE  Closed(s \o t)
<1>1. CASE t = <<>>
  BY <1>1, ConcatEmptySeq
<1>2. CASE t # <<>>
  <2>1. Len(t) \in 1 .. Len(t)
    BY <1>2
  <2>2. Len(s \o t) = Len(s) + Len(t) /\ (s \o t)[Len(s) + Len(t)] = t[Len(t)]
    BY <2>1, ConcatAt
  <2> QED
    BY <1>2, <2>2 DEF Closed
<1> QED
  BY <1>1, <1>2

\* Framed streams joined are framed.
LEMMA FramedConcat ==
  ASSUME NEW s \in Seq(P!Tokens), NEW t \in Seq(P!Tokens), Framed(s), Framed(t)
  PROVE  Framed(s \o t)
<1> DEFINE u == s \o t
<1>1. /\ u \in Seq(P!Tokens) /\ Len(s) \in Nat /\ Len(t) \in Nat
      /\ \A i \in 1 .. Len(s) : u[i] = s[i]
      /\ \A i \in 1 .. Len(t) : u[Len(s) + i] = t[i]
      /\ \A i \in 1 .. Len(u) : i \in 1 .. Len(s) \/ (i - Len(s) \in 1 .. Len(t) /\ u[i] = t[i - Len(s)])
  BY ConcatAt
<1>2. Tidy(u) /\ Closed(u)
  BY TidyConcat, ClosedConcat DEF Framed
<1>3. ASSUME NEW id \in 0 .. MaxRequests
      PROVE  /\ \A i \in 1 .. Len(s) : LineAt(s, id, i) => LineAt(u, id, i)
             /\ \A i \in 1 .. Len(t) : LineAt(t, id, i) => LineAt(u, id, Len(s) + i)
  BY <1>3, LineAtConcat DEF Framed
<1> HIDE DEF u
<1>4. ASSUME NEW i \in 1 .. Len(u), NEW id \in 0 .. MaxRequests
      PROVE  /\ u[i] = <<id, 1>> => LineAt(u, id, i)
             /\ u[i] = <<id, 2>> => i > 1 /\ u[i - 1] = <<id, 1>>
  <2>1. CASE i \in 1 .. Len(s)
    <3>1. u[i] = <<id, 1>> => LineAt(u, id, i)
      BY <1>1, <1>3, <2>1 DEF Framed
    <3>2. u[i] = <<id, 2>> => i > 1 /\ s[i - 1] = <<id, 1>>
      BY <1>1, <2>1 DEF Framed
    <3>3. i > 1 => i - 1 \in 1 .. Len(s)
      BY <1>1, <2>1
    <3> QED
      BY <1>1, <3>1, <3>2, <3>3
  <2>2. CASE i - Len(s) \in 1 .. Len(t) /\ u[i] = t[i - Len(s)]
    <3> DEFINE j == i - Len(s)
    <3>1. j \in 1 .. Len(t) /\ u[i] = t[j] /\ Len(s) + j = i /\ Len(s) + (j - 1) = i - 1
      BY <1>1, <2>2
    <3> HIDE DEF j
    <3>2. u[i] = <<id, 1>> => LineAt(u, id, i)
      BY <1>3, <3>1 DEF Framed
    <3>3. u[i] = <<id, 2>> => j > 1 /\ t[j - 1] = <<id, 1>>
      BY <3>1 DEF Framed
    <3>4. j > 1 => j - 1 \in 1 .. Len(t) /\ i > 1
      BY <1>1, <3>1
    <3> QED
      BY <1>1, <3>1, <3>2, <3>3, <3>4
  <2> QED
    BY <1>1, <2>1, <2>2
<1> QED
  BY <1>2, <1>4 DEF Framed, u

\* A stream that is cut at a line end is framed on both sides.
LEMMA FramedCut ==
  ASSUME NEW s \in Seq(P!Tokens), Framed(s), NEW n \in 1 .. Len(s), s[n] = P!NL
  PROVE  Framed(SubSeq(s, 1, n)) /\ Framed(SubSeq(s, n + 1, Len(s)))
<1> DEFINE x == SubSeq(s, 1, n)
           y == SubSeq(s, n + 1, Len(s))
<1>1. /\ x \in Seq(P!Tokens) /\ Len(x) = n /\ y \in Seq(P!Tokens) /\ Len(y) = Len(s) - n
      /\ \A i \in 1 .. n : x[i] = s[i]
      /\ \A i \in 1 .. Len(s) - n : y[i] = s[n + i]
      /\ s = x \o y
  <2>1. x \in Seq(P!Tokens)
    BY CutAt
  <2>7. Len(x) = n
    BY CutAt
  <2>5. y \in Seq(P!Tokens)
    BY CutAt
  <2>6. Len(y) = Len(s) - n
    BY CutAt
  <2>2. \A i \in 1 .. n : x[i] = s[i]
    BY CutAt
  <2>3. \A i \in 1 .. Len(s) - n : y[i] = s[n + i]
    BY CutAt
  <2>4. s = x \o y
    BY CutAt
  <2> QED
    BY <2>1, <2>2, <2>3, <2>4, <2>5, <2>6, <2>7
<1>2. /\ Len(s) \in Nat /\ n \in Nat /\ n <= Len(s) /\ s # <<>>
      /\ \A i \in 1 .. n : i \in 1 .. Len(s)
      /\ \A i \in 1 .. Len(s) - n : n + i \in 1 .. Len(s)
  OBVIOUS
<1> HIDE DEF x, y
<1>3. Tidy(x) /\ Closed(x)
  <2>1. ASSUME NEW i \in 1 .. n, x[i] = P!NL PROVE i > 1 /\ x[i - 1] # P!NL
    <3>1. i > 1 /\ s[i - 1] # P!NL
      BY <1>1, <1>2, <2>1 DEF Framed, Tidy
    <3>2. i - 1 \in 1 .. n
      BY <1>2, <3>1
    <3> QED
      BY <1>1, <3>1, <3>2
  <2>2. x[n] = P!NL
    BY <1>1, <1>2
  <2> QED
    BY <1>1, <2>1, <2>2 DEF Tidy, Closed
<1>4. ASSUME NEW i \in 1 .. n, NEW id \in 0 .. MaxRequests
      PROVE  /\ x[i] = <<id, 1>> => LineAt(x, id, i)
             /\ x[i] = <<id, 2>> => i > 1 /\ x[i - 1] = <<id, 1>>
  <2>1. ASSUME x[i] = <<id, 1>> PROVE LineAt(x, id, i)
    <3>0. i \in 1 .. Len(s) /\ s[i] = <<id, 1>>
      BY <1>1, <1>2, <2>1
    <3>1. LineAt(s, id, i)
      BY <3>0 DEF Framed
    <3>2. i # n /\ i + 1 # n
      BY <3>1 DEF LineAt
    <3>3. i + 2 <= n
      BY <1>2, <3>2
    <3>4. i \in 1 .. n /\ i + 1 \in 1 .. n /\ i + 2 \in 1 .. n /\ (i = 1 \/ i - 1 \in 1 .. n)
      BY <1>2, <3>3
    <3> QED
      BY <1>1, <3>1, <3>3, <3>4 DEF LineAt
  <2>2. ASSUME x[i] = <<id, 2>> PROVE i > 1 /\ x[i - 1] = <<id, 1>>
    <3>1. i \in 1 .. Len(s) /\ s[i] = <<id, 2>>
      BY <1>1, <1>2, <2>2
    <3>2. i > 1 /\ s[i - 1] = <<id, 1>>
      BY <3>1 DEF Framed
    <3>3. i - 1 \in 1 .. n
      BY <1>2, <3>2
    <3> QED
      BY <1>1, <3>2, <3>3
  <2> QED
    BY <2>1, <2>2
<1>5. Tidy(y)
  <2> SUFFICES ASSUME NEW i \in 1 .. Len(y), y[i] = P!NL PROVE i > 1 /\ y[i - 1] # P!NL
    BY DEF Tidy
  <2>1. n + i \in 1 .. Len(s) /\ s[n + i] = P!NL /\ n + i - 1 = n + (i - 1)
    BY <1>1, <1>2
  <2>2. s[n + (i - 1)] # P!NL
    BY <2>1 DEF Framed, Tidy
  <2>3. i # 1
    BY <2>2
  <2> QED
    BY <1>1, <1>2, <2>2, <2>3
<1>6. Closed(y)
  <2> SUFFICES ASSUME y # <<>> PROVE y[Len(y)] = P!NL
    BY DEF Closed
  <2>1. Len(y) \in 1 .. Len(s) - n /\ n + Len(y) = Len(s)
    BY <1>1, <1>2
  <2>2. s[Len(s)] = P!NL
    BY <1>2 DEF Framed, Closed
  <2> QED
    BY <1>1, <2>1, <2>2
<1>7. ASSUME NEW i \in 1 .. Len(y), NEW id \in 0 .. MaxRequests
      PROVE  /\ y[i] = <<id, 1>> => LineAt(y, id, i)
             /\ y[i] = <<id, 2>> => i > 1 /\ y[i - 1] = <<id, 1>>
  <2>0. n + i \in 1 .. Len(s) /\ s[n + i] = y[i] /\ n + i - 1 = n + (i - 1)
    BY <1>1, <1>2
  <2>1. ASSUME y[i] = <<id, 1>> PROVE LineAt(y, id, i)
    <3>1. LineAt(x \o y, id, Len(x) + i)
      <4>1. LineAt(s, id, n + i)
        BY <2>0, <2>1 DEF Framed
      <4> QED
        BY <1>1, <4>1
    <3> QED
      BY <1>1, <3>1, LineAtConcat
  <2>2. ASSUME y[i] = <<id, 2>> PROVE i > 1 /\ y[i - 1] = <<id, 1>>
    <3>1. s[n + (i - 1)] = <<id, 1>>
      BY <2>0, <2>2 DEF Framed
    <3>2. i # 1
      BY <1>2, <3>1
    <3>3. i > 1 /\ i - 1 \in 1 .. Len(s) - n
      BY <1>1, <1>2, <3>2
    <3> QED
      BY <1>1, <3>1, <3>3
  <2> QED
    BY <2>1, <2>2
<1>8. Framed(x)
  BY <1>1, <1>3, <1>4 DEF Framed
<1>9. Framed(y)
  BY <1>5, <1>6, <1>7 DEF Framed
<1> QED
  BY <1>8, <1>9 DEF x, y

-----------------------------------------------------------------------------
(* StdioRpc: the buffer. *)

\* The Cardinality of StdioRpc is that of the theorems.
LEMMA RpcCounts ==
  ASSUME NEW D
  PROVE  P!Cardinality(D) = Cardinality(D)
BY Zenon DEF P!Cardinality, Cardinality

\* Counting the kept places up to each of them meets every number up to their
\* own.
LEMMA RankOnto ==
  ASSUME NEW n \in Nat, NEW K \in SUBSET (1 .. n)
  PROVE  /\ IsFiniteSet(K) /\ Cardinality(K) \in Nat
         /\ \A j \in 1 .. Cardinality(K) : \E i \in K : Cardinality({h \in K : h <= i}) = j
<1> DEFINE upto(i) == {h \in K : h <= i}
           rank == [i \in K |-> Cardinality(upto(i))]
           m == Cardinality(K)
<1>1. IsFiniteSet(K) /\ m \in Nat
  <2>1. IsFiniteSet(1 .. n)
    BY FS_Interval
  <2>2. IsFiniteSet(K)
    BY <2>1, FS_Subset
  <2> QED
    BY <2>2, FS_CardinalityType
<1>2. \A i \in K : IsFiniteSet(upto(i)) /\ Cardinality(upto(i)) \in 1 .. m
  <2> SUFFICES ASSUME NEW i \in K PROVE IsFiniteSet(upto(i)) /\ Cardinality(upto(i)) \in 1 .. m
    OBVIOUS
  <2>1. upto(i) \in SUBSET K /\ i \in upto(i)
    OBVIOUS
  <2> HIDE DEF upto
  <2>2. IsFiniteSet(upto(i)) /\ Cardinality(upto(i)) <= m
    BY <1>1, <2>1, FS_Subset
  <2>3. Cardinality(upto(i)) \in Nat /\ Cardinality(upto(i)) # 0
    BY <2>1, <2>2, FS_CardinalityType, FS_EmptySet
  <2> QED
    BY <1>1, <2>2, <2>3
<1>3. \A i, j \in K : i < j => rank[i] < rank[j]
  <2> SUFFICES ASSUME NEW i \in K, NEW j \in K, i < j
               PROVE  Cardinality(upto(i)) < Cardinality(upto(j))
    OBVIOUS
  <2>0. \A h \in K : h \in Int
    OBVIOUS
  <2>a. upto(i) \in SUBSET upto(j)
    <3> SUFFICES ASSUME NEW h \in K, h <= i PROVE h <= j
      OBVIOUS
    <3>1. h \in Int /\ i \in Int /\ j \in Int
      BY <2>0
    <3> QED
      BY <3>1
  <2>b. j \in upto(j) /\ j \notin upto(i)
    BY <2>0
  <2>1. upto(i) \in SUBSET upto(j) /\ j \in upto(j) /\ j \notin upto(i)
    BY <2>a, <2>b
  <2> HIDE DEF upto
  <2>2. Cardinality(upto(i)) <= Cardinality(upto(j)) /\ Cardinality(upto(i)) # Cardinality(upto(j))
    BY <1>2, <2>1, FS_Subset
  <2>3. Cardinality(upto(i)) \in Int /\ Cardinality(upto(j)) \in Int
    BY <1>1, <1>2
  <2> QED
    BY <2>2, <2>3
<1>4. rank \in [K -> 1 .. m]
  BY <1>2
<1> HIDE DEF upto, rank
<1>5. \A i, j \in K : rank[i] = rank[j] => i = j
  <2> SUFFICES ASSUME NEW i \in K, NEW j \in K, i # j PROVE rank[i] # rank[j]
    OBVIOUS
  <2>1. rank[i] \in Int /\ rank[j] \in Int /\ (i < j \/ j < i)
    BY <1>1, <1>4
  <2> QED
    BY <1>3, <2>1
<1>6. IsFiniteSet(1 .. m) /\ Cardinality(1 .. m) = m
  BY <1>1, FS_Interval
<1>7. rank \in Surjection(K, 1 .. m)
  <2>1. rank \in Injection(K, 1 .. m)
    BY <1>4, <1>5 DEF Injection, IsInjective
  <2> HIDE DEF m
  <2>2. Cardinality(K) = Cardinality(1 .. m)
    BY <1>6 DEF m
  <2> QED
    BY <1>6, <2>1, <2>2, FS_Injection
<1>8. \A j \in 1 .. m : \E i \in K : rank[i] = j
  BY <1>7 DEF Surjection
<1> QED
  BY <1>1, <1>8 DEF rank, upto

\* A buffer without an empty line is put together again as it was.
LEMMA RejoinedTidy ==
  ASSUME NEW b \in Seq(P!Tokens), Tidy(b)
  PROVE  P!Rejoined(b) = b
<1>1. {i \in 1 .. Len(b) : b[i] = P!NL => i > 1 /\ b[i - 1] # P!NL} = 1 .. Len(b)
  BY DEF Tidy
<1>2. Cardinality(1 .. Len(b)) = Len(b)
  <2>1. Len(b) \in Nat
    OBVIOUS
  <2>2. Cardinality(1 .. Len(b)) = IF 1 > Len(b) THEN 0 ELSE Len(b) - 1 + 1
    BY <2>1, FS_Interval
  <2> QED
    BY <2>1, <2>2
<1>3. P!Cardinality({i \in 1 .. Len(b) : b[i] = P!NL => i > 1 /\ b[i - 1] # P!NL}) = Len(b)
  BY <1>1, <1>2, RpcCounts
<1> QED
  BY <1>3, Zenon DEF P!Rejoined

\* Put together, it is a stream still.
LEMMA RejoinedTyped ==
  ASSUME NEW b \in Seq(P!Tokens)
  PROVE  P!Rejoined(b) \in Seq(P!Tokens)
<1> DEFINE kept == {i \in 1 .. Len(b) : b[i] = P!NL => i > 1 /\ b[i - 1] # P!NL}
           rank(i) == P!Cardinality({h \in kept : h <= i})
           joined == [j \in 1 .. P!Cardinality(kept) |-> b[CHOOSE i \in kept : rank(i) = j]]
<1>1. P!Rejoined(b) = IF P!Cardinality(kept) = Len(b) THEN b
                      ELSE IF kept # {} /\ P!Last(joined) = P!NL THEN joined
                      ELSE Append(joined, P!NL)
  BY Zenon DEF P!Rejoined
<1>2. Len(b) \in Nat /\ kept \in SUBSET (1 .. Len(b))
  OBVIOUS
<1>3. \A i : rank(i) = Cardinality({h \in kept : h <= i})
  BY RpcCounts
<1>4. P!Cardinality(kept) = Cardinality(kept)
  BY RpcCounts
<1> HIDE DEF kept
<1>5. /\ Cardinality(kept) \in Nat
      /\ \A j \in 1 .. Cardinality(kept) : \E i \in kept : Cardinality({h \in kept : h <= i}) = j
  BY <1>2, RankOnto
<1>6. \A j \in 1 .. P!Cardinality(kept) : \E i \in kept : rank(i) = j
  BY <1>3, <1>4, <1>5
<1> HIDE DEF rank
<1> DEFINE m == P!Cardinality(kept)
           pick(j) == CHOOSE i \in kept : rank(i) = j
<1>7. \A j \in 1 .. m : pick(j) \in 1 .. Len(b)
  BY <1>2, <1>6
<1>8. joined = [j \in 1 .. m |-> b[pick(j)]]
  OBVIOUS
<1> HIDE DEF joined, pick
<1>a. \A j \in 1 .. m : b[pick(j)] \in P!Tokens
  BY <1>7
<1>b. m \in Nat
  BY <1>4, <1>5
<1> HIDE DEF m
<1>9. joined \in Seq(P!Tokens)
  BY <1>8, <1>a, <1>b, IsASeq
<1>10. Append(joined, P!NL) \in Seq(P!Tokens)
  BY <1>9
<1> QED
  BY <1>1, <1>9, <1>10

\* What is left in the buffer are tokens.
LEMMA LeftTyped ==
  ASSUME NEW b \in Seq(P!Tokens)
  PROVE  P!Left(b) \in Seq(P!Tokens)
<1>1. CASE ~ P!HasLine(b)
  BY <1>1 DEF P!Left
<1>2. CASE P!HasLine(b) /\ P!Parsed(b) = {}
  BY <1>2, RejoinedTyped DEF P!Left
<1>3. CASE P!HasLine(b) /\ P!Parsed(b) # {}
  BY <1>3 DEF P!Left
<1> QED
  BY <1>1, <1>2, <1>3

\* A buffer without an empty line, none of whose lines is a message, stays.
LEMMA LeftTidy ==
  ASSUME NEW b \in Seq(P!Tokens), Tidy(b), ~ P!HasLine(b) \/ P!Parsed(b) = {}
  PROVE  P!Left(b) = b
<1>1. CASE ~ P!HasLine(b)
  BY <1>1 DEF P!Left
<1>2. CASE P!HasLine(b) /\ P!Parsed(b) = {}
  BY <1>2, RejoinedTidy DEF P!Left
<1> QED
  BY <1>1, <1>2

\* What comes first of a tidy stream is tidy.
LEMMA TidyPrefix ==
  ASSUME NEW s \in Seq(P!Tokens), NEW t \in Seq(P!Tokens), Tidy(s \o t)
  PROVE  Tidy(s)
<1> SUFFICES ASSUME NEW i \in 1 .. Len(s), s[i] = P!NL PROVE i > 1 /\ s[i - 1] # P!NL
  BY DEF Tidy
<1> DEFINE u == s \o t
<1>1. /\ \A j \in 1 .. Len(s) : j \in 1 .. Len(u) /\ u[j] = s[j]
      /\ Len(s) \in Nat
  BY ConcatAt
<1>2. i > 1 /\ u[i - 1] # P!NL
  BY <1>1 DEF Tidy
<1> HIDE DEF u
<1>3. i - 1 \in 1 .. Len(s)
  BY <1>1, <1>2
<1> QED
  BY <1>1, <1>2, <1>3

\* The line of id is parsed, if it is in the buffer, and only then.
LEMMA ParsedAt ==
  ASSUME NEW b \in Seq(P!Tokens), NEW id \in 0 .. MaxRequests
  PROVE  /\ \A i \in 1 .. Len(b) : LineAt(b, id, i) => id \in P!Parsed(b) /\ P!HasLine(b)
         /\ id \in P!Parsed(b) => \E i \in 1 .. Len(b) : b[i] = <<id, 1>>
<1>1. ASSUME NEW i \in 1 .. Len(b), LineAt(b, id, i) PROVE id \in P!Parsed(b) /\ P!HasLine(b)
  <2>1. P!Whole(b, id, i)
    BY <1>1 DEF LineAt, P!Whole
  <2>2. i + 2 \in 1 .. Len(b) /\ b[i + 2] = P!NL
    BY <1>1 DEF LineAt
  <2> QED
    BY <2>1, <2>2 DEF P!Parsed, P!HasLine
<1>2. ASSUME id \in P!Parsed(b) PROVE \E i \in 1 .. Len(b) : b[i] = <<id, 1>>
  BY <1>2 DEF P!Parsed, P!Whole
<1> QED
  BY <1>1, <1>2

-----------------------------------------------------------------------------
(* StdioRpc: the steps. *)

RpcStream == buffer \o pipe
\* As long as no data event has ended inside a line, everything is framed.
RpcFramed == ~ cut => Framed(buffer) /\ Framed(pipe)
\* The requests whose answer is to come, and carries their id.
RpcOpen == {id \in P!Ids \ unnamed : outcome[id] = "pending"}
RpcUp == attached /\ server = "up"
\* Then each of them is in the server's stdin, or its answer on the way.
RpcFound ==
  ~ cut /\ RpcUp => \A id \in RpcOpen :
    \/ \E i \in 1 .. Len(rpcInbox) : rpcInbox[i] = id
    \/ \E i \in 1 .. Len(RpcStream) : LineAt(RpcStream, id, i)
\* With nothing else under way there is one, and no line that could damage it.
RpcSingle ==
  ~ crowded /\ RpcUp => \A id \in RpcOpen :
    /\ Tidy(RpcStream)
    /\ \A i \in 1 .. Len(RpcStream), k \in 0 .. MaxRequests : RpcStream[i] = <<k, 1>> => k = id
    /\ \/ rpcInbox = <<id>> /\ Closed(RpcStream)
       \/ rpcInbox = <<>> /\ \E i \in 1 .. Len(RpcStream) : LineAt(RpcStream, id, i)
RpcInv == P!TypeOK /\ RpcFramed /\ RpcFound /\ RpcSingle

RpcOutcomes == {"none", "pending", "answered", "failed", "timeout"}

\* A request that is settled has an outcome, the others keep theirs.
LEMMA RpcSettled ==
  ASSUME P!TypeOK, NEW ids, NEW how \in {"answered", "failed", "timeout"}, P!Settle(ids, how)
  PROVE  /\ outcome' \in [P!Ids -> RpcOutcomes]
         /\ \A id \in P!Ids : outcome'[id] = "none" <=> outcome[id] = "none"
         /\ \A id \in P!Ids : outcome'[id] = "pending" <=> outcome[id] = "pending" /\ id \notin ids
BY DEF P!TypeOK, P!Settle, RpcOutcomes

\* A step of the connection keeps the types.
LEMMA RpcTyped ==
  ASSUME P!TypeOK, P!Next
  PROVE  P!TypeOK'
<1>0. /\ sent \in 0 .. MaxRequests /\ outcome \in [P!Ids -> RpcOutcomes]
      /\ \A id \in P!Ids : outcome[id] = "none" <=> id > sent
      /\ attached \in BOOLEAN /\ server \in {"up", "gone", "exited"}
      /\ rpcInbox \in Seq(P!Ids) /\ pipe \in Seq(P!Tokens) /\ buffer \in Seq(P!Tokens)
      /\ junk \in 0 .. MaxJunk /\ cut \in BOOLEAN /\ crowded \in BOOLEAN /\ unnamed \subseteq P!Ids
  BY DEF P!TypeOK, RpcOutcomes
<1>1. CASE P!Send
  <2>1. sent + 1 \in P!Ids /\ sent' = sent + 1 /\ sent' \in 0 .. MaxRequests
    BY <1>0, <1>1 DEF P!Send
  <2>2. outcome' \in [P!Ids -> RpcOutcomes] /\ \A id \in P!Ids : outcome'[id] = "none" <=> id > sent + 1
    BY <1>0, <1>1, <2>1 DEF P!Send, RpcOutcomes
  <2>a. Append(rpcInbox, sent + 1) \in Seq(P!Ids)
    BY <1>0, <2>1, AppendProperties
  <2>3. rpcInbox' \in Seq(P!Ids)
    BY <1>0, <1>1, <2>a DEF P!Send
  <2> QED
    BY <1>0, <1>1, <2>1, <2>2, <2>3 DEF P!Send, P!TypeOK, RpcOutcomes
<1>2. CASE P!SendThrows
  <2>1. sent + 1 \in P!Ids /\ sent' = sent + 1 /\ sent' \in 0 .. MaxRequests
    BY <1>0, <1>2 DEF P!SendThrows
  <2>2. outcome' \in [P!Ids -> RpcOutcomes] /\ \A id \in P!Ids : outcome'[id] = "none" <=> id > sent + 1
    BY <1>0, <1>2, <2>1 DEF P!SendThrows, RpcOutcomes
  <2> QED
    BY <1>0, <1>2, <2>1, <2>2 DEF P!SendThrows, P!TypeOK, RpcOutcomes
<1>3. ASSUME NEW id \in P!Ids, P!Timeout(id) PROVE P!TypeOK'
  BY <1>0, <1>3, RpcSettled DEF P!Timeout, P!TypeOK, RpcOutcomes
<1>4. ASSUME NEW n \in 1 .. Len(pipe), P!Data(n) PROVE P!TypeOK'
  <2> DEFINE b == buffer \o SubSeq(pipe, 1, n)
  <2>1. SubSeq(pipe, 1, n) \in Seq(P!Tokens) /\ SubSeq(pipe, n + 1, Len(pipe)) \in Seq(P!Tokens)
    BY <1>0, CutAt
  <2>2. b \in Seq(P!Tokens)
    BY <1>0, <2>1, ConcatAt
  <2> HIDE DEF b
  <2>3. P!Left(b) \in Seq(P!Tokens)
    BY <2>2, LeftTyped
  <2>4. /\ pipe' = SubSeq(pipe, n + 1, Len(pipe)) /\ buffer' = P!Left(b)
        /\ IF P!HasLine(b) THEN P!Settle(P!Parsed(b), "answered") ELSE UNCHANGED outcome
        /\ cut' = (cut \/ pipe[n] # P!NL)
        /\ UNCHANGED <<sent, attached, server, rpcInbox, junk, crowded, unnamed>>
    BY <1>4 DEF P!Data, b
  <2>5. /\ outcome' \in [P!Ids -> RpcOutcomes]
        /\ \A id \in P!Ids : outcome'[id] = "none" <=> outcome[id] = "none"
    <3>1. CASE UNCHANGED outcome
      BY <1>0, <3>1
    <3>2. CASE P!Settle(P!Parsed(b), "answered")
      BY <3>2, RpcSettled
    <3> QED
      BY <2>4, <3>1, <3>2
  <2> QED
    BY <1>0, <2>1, <2>3, <2>4, <2>5 DEF P!TypeOK, RpcOutcomes
<1>5. CASE P!Close
  BY <1>0, <1>5, RpcSettled DEF P!Close, P!TypeOK, RpcOutcomes
<1>6. CASE P!Serve
  <2>1. Head(rpcInbox) \in P!Ids /\ Tail(rpcInbox) \in Seq(P!Ids)
    BY <1>0, <1>6 DEF P!Serve
  <2>2. \A id \in 0 .. MaxRequests : pipe \o P!Line(id) \in Seq(P!Tokens)
    BY <1>0, LinesAreFramed, ConcatAt
  <2>a. pipe \o P!Line(Head(rpcInbox)) \in Seq(P!Tokens) /\ pipe \o P!Line(0) \in Seq(P!Tokens)
    BY <2>1, <2>2
  <2>b. pipe' \in Seq(P!Tokens)
    BY <1>6, <2>a DEF P!Serve
  <2>c. unnamed' \subseteq P!Ids
    BY <1>0, <1>6, <2>1 DEF P!Serve
  <2>3. pipe' \in Seq(P!Tokens) /\ unnamed' \subseteq P!Ids
    BY <2>b, <2>c
  <2> QED
    BY <1>0, <1>6, <2>1, <2>3 DEF P!Serve, P!TypeOK, RpcOutcomes
<1>7. CASE P!Chatter
  <2>1. pipe \o <<P!Junk, P!NL>> \in Seq(P!Tokens)
    BY <1>0, LinesAreFramed, ConcatAt
  <2> QED
    BY <1>0, <1>7, <2>1 DEF P!Chatter, P!TypeOK, RpcOutcomes
<1>8. CASE P!Leave
  <2>1. pipe \o P!Line(0) \in Seq(P!Tokens)
    BY <1>0, LinesAreFramed, ConcatAt
  <2>2. pipe' \in Seq(P!Tokens)
    BY <1>0, <1>8, <2>1 DEF P!Leave
  <2>3. rpcInbox' \in Seq(P!Ids) /\ server' = "gone"
    BY <1>8 DEF P!Leave
  <2> QED
    BY <1>0, <1>8, <2>2, <2>3 DEF P!Leave, P!TypeOK, RpcOutcomes
<1>9. CASE P!Exit
  <2>1. /\ outcome' \in [P!Ids -> RpcOutcomes]
        /\ \A id \in P!Ids : outcome'[id] = "none" <=> outcome[id] = "none"
    <3>1. CASE UNCHANGED outcome
      BY <1>0, <3>1
    <3>2. CASE P!Settle(P!Ids, "failed")
      BY <3>2, RpcSettled
    <3> QED
      BY <1>9, <3>1, <3>2 DEF P!Exit
  <2> QED
    BY <1>0, <1>9, <2>1 DEF P!Exit, P!TypeOK, RpcOutcomes
<1> QED
  BY <1>1, <1>2, <1>3, <1>4, <1>5, <1>6, <1>7, <1>8, <1>9 DEF P!Next

\* A step that touches no stream, and leaves no more open than was.
LEMMA RpcStill ==
  ASSUME RpcInv, P!TypeOK', UNCHANGED <<rpcInbox, pipe, buffer, cut, crowded>>,
         RpcUp' => RpcUp /\ RpcOpen' \subseteq RpcOpen
  PROVE  RpcInv'
<1>1. RpcFramed' /\ UNCHANGED RpcStream
  BY DEF RpcInv, RpcFramed, RpcStream
<1>2. RpcFound'
  BY <1>1 DEF RpcInv, RpcFound
<1>3. RpcSingle'
  BY <1>1 DEF RpcInv, RpcSingle
<1> QED
  BY <1>1, <1>2, <1>3 DEF RpcInv

\* A request that is sent is in the stdin of the server.
LEMMA RpcSends ==
  ASSUME RpcInv, P!TypeOK', P!Send
  PROVE  RpcInv'
<1>0. /\ rpcInbox \in Seq(P!Ids) /\ pipe \in Seq(P!Tokens) /\ buffer \in Seq(P!Tokens)
      /\ sent \in 0 .. MaxRequests /\ sent + 1 \in P!Ids /\ outcome \in [P!Ids -> RpcOutcomes]
      /\ crowded \in BOOLEAN /\ crowded' \in BOOLEAN
  BY DEF RpcInv, P!TypeOK, P!Send, RpcOutcomes
<1>1. /\ UNCHANGED <<attached, server, pipe, buffer, cut, unnamed>> /\ UNCHANGED RpcStream
      /\ RpcOpen' \subseteq RpcOpen \cup {sent + 1}
      /\ server = "up" => rpcInbox' = Append(rpcInbox, sent + 1)
      /\ crowded' = (crowded \/ rpcInbox # <<>> \/ pipe # <<>> \/ buffer # <<>>)
  BY <1>0 DEF P!Send, RpcStream, RpcOpen
<1>2. RpcFramed'
  BY <1>1 DEF RpcInv, RpcFramed
<1>3. server = "up" => /\ Len(rpcInbox) + 1 \in 1 .. Len(rpcInbox')
                       /\ rpcInbox'[Len(rpcInbox) + 1] = sent + 1
                       /\ \A i \in 1 .. Len(rpcInbox) : i \in 1 .. Len(rpcInbox') /\ rpcInbox'[i] = rpcInbox[i]
  <2> SUFFICES ASSUME server = "up"
               PROVE  /\ Len(rpcInbox) + 1 \in 1 .. Len(rpcInbox')
                      /\ rpcInbox'[Len(rpcInbox) + 1] = sent + 1
                      /\ \A i \in 1 .. Len(rpcInbox) : i \in 1 .. Len(rpcInbox') /\ rpcInbox'[i] = rpcInbox[i]
    OBVIOUS
  <2>1. rpcInbox' = Append(rpcInbox, sent + 1)
    BY <1>1
  <2>2. /\ Len(rpcInbox') = Len(rpcInbox) + 1 /\ Len(rpcInbox) \in Nat
        /\ rpcInbox'[Len(rpcInbox) + 1] = sent + 1
        /\ \A i \in 1 .. Len(rpcInbox) : rpcInbox'[i] = rpcInbox[i]
    BY <1>0, <2>1
  <2> QED
    BY <2>2
<1>4. RpcFound'
  <2> SUFFICES ASSUME ~ cut, RpcUp, NEW id \in RpcOpen \cup {sent + 1}
               PROVE  \/ \E i \in 1 .. Len(rpcInbox') : rpcInbox'[i] = id
                      \/ \E i \in 1 .. Len(RpcStream) : LineAt(RpcStream, id, i)
    BY <1>1 DEF RpcFound, RpcUp
  <2>1. CASE id = sent + 1
    BY <1>3, <2>1 DEF RpcUp
  <2>2. CASE id \in RpcOpen
    <3>1. \/ \E i \in 1 .. Len(rpcInbox) : rpcInbox[i] = id
          \/ \E i \in 1 .. Len(RpcStream) : LineAt(RpcStream, id, i)
      BY <2>2 DEF RpcInv, RpcFound
    <3> QED
      BY <1>3, <3>1 DEF RpcUp
  <2> QED
    BY <2>1, <2>2
<1>5. RpcSingle'
  <2> SUFFICES ASSUME ~ crowded', RpcUp, NEW id \in RpcOpen \cup {sent + 1}
               PROVE  /\ Tidy(RpcStream)
                      /\ \A i \in 1 .. Len(RpcStream), k \in 0 .. MaxRequests : RpcStream[i] = <<k, 1>> => k = id
                      /\ rpcInbox' = <<id>> /\ Closed(RpcStream)
    BY <1>1 DEF RpcSingle, RpcUp
  <2>1. ~ crowded /\ rpcInbox = <<>> /\ pipe = <<>> /\ buffer = <<>>
    BY <1>0, <1>1
  <2>2. RpcStream = <<>>
    BY <2>1 DEF RpcStream
  <2>3. \A k \in RpcOpen : FALSE
    BY <2>1, <2>2 DEF RpcInv, RpcSingle
  <2>4. id = sent + 1 /\ rpcInbox' = <<id>>
    <3>1. id = sent + 1
      BY <2>3
    <3>2. rpcInbox' = Append(<<>>, sent + 1)
      BY <1>1, <2>1 DEF RpcUp
    <3> QED
      BY <3>1, <3>2
  <2> QED
    BY <2>2, <2>4 DEF Tidy, Closed
<1> QED
  BY <1>2, <1>4, <1>5 DEF RpcInv

\* The server prints a line.
LEMMA RpcPrints ==
  ASSUME RpcInv, P!TypeOK', NEW t \in Seq(P!Tokens), Framed(t), pipe' = pipe \o t,
         UNCHANGED <<buffer, cut, crowded, attached, server>>,
         RpcOpen' \subseteq RpcOpen,
         \A id \in RpcOpen' :
           \/ /\ rpcInbox' = rpcInbox
              /\ \A i \in 1 .. Len(t), k \in 0 .. MaxRequests : t[i] # <<k, 1>>
           \/ /\ rpcInbox # <<>> /\ rpcInbox' = Tail(rpcInbox)
              /\ t = P!Line(Head(rpcInbox)) \/ Head(rpcInbox) # id
  PROVE  RpcInv'
<1>0. /\ rpcInbox \in Seq(P!Ids) /\ pipe \in Seq(P!Tokens) /\ buffer \in Seq(P!Tokens)
      /\ RpcStream \in Seq(P!Tokens) /\ RpcOpen' \subseteq P!Ids
  BY ConcatAt DEF RpcInv, P!TypeOK, RpcStream, RpcOpen
<1>1. RpcStream' = RpcStream \o t
  <2> DEFINE Piece == P!Tokens
  <2>a. buffer \in Seq(Piece) /\ pipe \in Seq(Piece) /\ t \in Seq(Piece)
    BY <1>0
  <2> HIDE DEF Piece
  <2>1. buffer \o (pipe \o t) = (buffer \o pipe) \o t
    BY <2>a, ConcatAssociative
  <2> QED
    BY <2>1 DEF RpcStream
<1>2. RpcFramed'
  BY <1>0, FramedConcat DEF RpcInv, RpcFramed
<1>3. /\ Len(RpcStream) \in Nat /\ Len(RpcStream') = Len(RpcStream) + Len(t) /\ Len(t) \in Nat
      /\ \A i \in 1 .. Len(RpcStream') :
           \/ i \in 1 .. Len(RpcStream) /\ RpcStream'[i] = RpcStream[i]
           \/ i - Len(RpcStream) \in 1 .. Len(t) /\ RpcStream'[i] = t[i - Len(RpcStream)]
  BY <1>0, <1>1, ConcatAt
<1>4. \A id \in P!Ids : (\E i \in 1 .. Len(RpcStream) : LineAt(RpcStream, id, i))
                          => \E i \in 1 .. Len(RpcStream') : LineAt(RpcStream', id, i)
  <2> SUFFICES ASSUME NEW id \in P!Ids, NEW i \in 1 .. Len(RpcStream), LineAt(RpcStream, id, i)
               PROVE  \E j \in 1 .. Len(RpcStream') : LineAt(RpcStream', id, j)
    OBVIOUS
  <2>a. id \in 0 .. MaxRequests
    OBVIOUS
  <2>1. LineAt(RpcStream \o t, id, i)
    <3> HIDE DEF RpcStream
    <3> QED
      BY <1>0, <2>a, LineAtConcat
  <2>2. i \in 1 .. Len(RpcStream')
    BY <1>3
  <2> QED
    BY <1>1, <2>1, <2>2
<1>5. \A id \in P!Ids : Closed(RpcStream) /\ t = P!Line(id)
                          => \E i \in 1 .. Len(RpcStream') : LineAt(RpcStream', id, i)
  <2> SUFFICES ASSUME NEW id \in P!Ids, Closed(RpcStream), t = P!Line(id)
               PROVE  \E j \in 1 .. Len(RpcStream') : LineAt(RpcStream', id, j)
    OBVIOUS
  <2>1. id \in 0 .. MaxRequests /\ LineAt(t, id, 1) /\ Len(t) = 3 /\ 1 \in 1 .. Len(t)
    BY LinesAreFramed
  <2>2. LineAt(RpcStream \o t, id, Len(RpcStream) + 1)
    BY <1>0, <2>1, LineAtConcat
  <2>3. Len(RpcStream) + 1 \in 1 .. Len(RpcStream')
    BY <1>3, <2>1
  <2> QED
    BY <1>1, <2>2, <2>3
<1>6. RpcFound'
  <2> SUFFICES ASSUME ~ cut, RpcUp, NEW id \in RpcOpen'
               PROVE  \/ \E i \in 1 .. Len(rpcInbox') : rpcInbox'[i] = id
                      \/ \E i \in 1 .. Len(RpcStream') : LineAt(RpcStream', id, i)
    BY DEF RpcFound, RpcUp
  <2>1. \/ \E i \in 1 .. Len(rpcInbox) : rpcInbox[i] = id
        \/ \E i \in 1 .. Len(RpcStream) : LineAt(RpcStream, id, i)
    BY DEF RpcInv, RpcFound
  <2>2. CASE \E i \in 1 .. Len(RpcStream) : LineAt(RpcStream, id, i)
    BY <1>0, <1>4, <2>2
  <2>3. ASSUME NEW i \in 1 .. Len(rpcInbox), rpcInbox[i] = id
        PROVE  \/ \E j \in 1 .. Len(rpcInbox') : rpcInbox'[j] = id
               \/ \E j \in 1 .. Len(RpcStream') : LineAt(RpcStream', id, j)
    <3>1. CASE rpcInbox' = rpcInbox
      BY <2>3, <3>1
    <3>2. CASE rpcInbox # <<>> /\ rpcInbox' = Tail(rpcInbox) /\ i # 1
      <4>1. Len(rpcInbox') = Len(rpcInbox) - 1 /\ \A j \in 1 .. Len(rpcInbox') : rpcInbox'[j] = rpcInbox[j + 1]
        BY <1>0, <3>2
      <4>a. Len(rpcInbox) \in Nat
        BY <1>0
      <4>b. i \in 1 .. Len(rpcInbox) /\ i # 1
        BY <2>3, <3>2
      <4>c. i - 1 \in 1 .. Len(rpcInbox')
        BY <4>1, <4>a, <4>b
      <4>2. i - 1 \in 1 .. Len(rpcInbox') /\ rpcInbox'[i - 1] = id
        BY <2>3, <4>1, <4>a, <4>b, <4>c
      <4> QED
        BY <4>2
    <3>3. CASE t = P!Line(Head(rpcInbox)) /\ i = 1
      <4>1. t = P!Line(id) /\ id \in P!Ids
        BY <1>0, <2>3, <3>3
      <4>2. Closed(RpcStream)
        BY <1>0, ClosedConcat DEF RpcInv, RpcFramed, Framed, RpcStream
      <4> QED
        BY <1>5, <4>1, <4>2
    <3>4. Head(rpcInbox) # id => i # 1
      BY <1>0, <2>3
    <3> QED
      BY <3>1, <3>2, <3>3, <3>4
  <2> QED
    BY <2>1, <2>2, <2>3
<1>7. RpcSingle'
  <2> SUFFICES ASSUME ~ crowded, RpcUp, NEW id \in RpcOpen'
               PROVE  /\ Tidy(RpcStream')
                      /\ \A i \in 1 .. Len(RpcStream'), k \in 0 .. MaxRequests : RpcStream'[i] = <<k, 1>> => k = id
                      /\ \/ rpcInbox' = <<id>> /\ Closed(RpcStream')
                         \/ rpcInbox' = <<>> /\ \E i \in 1 .. Len(RpcStream') : LineAt(RpcStream', id, i)
    BY DEF RpcSingle, RpcUp
  <2>0. /\ Tidy(RpcStream)
        /\ \A i \in 1 .. Len(RpcStream), k \in 0 .. MaxRequests : RpcStream[i] = <<k, 1>> => k = id
        /\ \/ rpcInbox = <<id>> /\ Closed(RpcStream)
           \/ rpcInbox = <<>> /\ \E i \in 1 .. Len(RpcStream) : LineAt(RpcStream, id, i)
    BY DEF RpcInv, RpcSingle
  <2>1. Tidy(RpcStream')
    BY <1>0, <1>1, <2>0, TidyConcat DEF Framed
  <2>2. CASE rpcInbox' = rpcInbox /\ \A i \in 1 .. Len(t), k \in 0 .. MaxRequests : t[i] # <<k, 1>>
    <3>1. \A i \in 1 .. Len(RpcStream'), k \in 0 .. MaxRequests : RpcStream'[i] = <<k, 1>> => k = id
      BY <1>3, <2>0, <2>2
    <3>2. Closed(RpcStream) => Closed(RpcStream')
      BY <1>0, <1>1, ClosedConcat DEF Framed
    <3> QED
      BY <1>0, <1>4, <2>0, <2>1, <2>2, <3>1, <3>2
  <2>3. CASE rpcInbox # <<>> /\ rpcInbox' = Tail(rpcInbox) /\ (t = P!Line(Head(rpcInbox)) \/ Head(rpcInbox) # id)
    <3>a. rpcInbox = <<id>> /\ Closed(RpcStream)
      BY <2>0, <2>3
    <3>b. Head(rpcInbox) = id /\ Tail(rpcInbox) = <<>>
      BY <3>a
    <3>1. /\ rpcInbox = <<id>> /\ Closed(RpcStream) /\ rpcInbox' = <<>> /\ t = P!Line(id)
      BY <2>3, <3>a, <3>b
    <3>2. \A i \in 1 .. Len(t), k \in 0 .. MaxRequests : t[i] = <<k, 1>> => k = id
      <4>1. t = <<<<id, 1>>, <<id, 2>>, <<0, 0>>>>
        BY <3>1, Append3 DEF P!Line, P!Message
      <4> QED
        BY <4>1
    <3>3. \A i \in 1 .. Len(RpcStream'), k \in 0 .. MaxRequests : RpcStream'[i] = <<k, 1>> => k = id
      BY <1>3, <2>0, <3>2
    <3> QED
      BY <1>0, <1>5, <2>1, <3>1, <3>3
  <2> QED
    BY <2>2, <2>3
<1> QED
  BY <1>2, <1>6, <1>7 DEF RpcInv

\* A data event: what is left and what is to come make the same stream, unless
\* a line of it was parsed, whose request is then settled.
LEMMA RpcReads ==
  ASSUME RpcInv, P!TypeOK', NEW n \in 1 .. Len(pipe), P!Data(n)
  PROVE  RpcInv'
<1> DEFINE x == SubSeq(pipe, 1, n)
           b == buffer \o x
           rest == SubSeq(pipe, n + 1, Len(pipe))
<1>0. /\ pipe \in Seq(P!Tokens) /\ buffer \in Seq(P!Tokens) /\ outcome \in [P!Ids -> RpcOutcomes]
      /\ x \in Seq(P!Tokens) /\ rest \in Seq(P!Tokens) /\ pipe = x \o rest
  BY CutAt DEF RpcInv, P!TypeOK, RpcOutcomes
<1>1. b \in Seq(P!Tokens)
  BY <1>0, ConcatAt
<1>2. RpcStream = b \o rest
  <2> DEFINE Piece == P!Tokens
  <2>1. buffer \in Seq(Piece) /\ x \in Seq(Piece) /\ rest \in Seq(Piece)
    BY <1>0
  <2> HIDE DEF x, rest, Piece
  <2>2. buffer \o (x \o rest) = (buffer \o x) \o rest
    BY <2>1, ConcatAssociative
  <2> QED
    BY <1>0, <2>2 DEF RpcStream
<1>3. /\ buffer' = P!Left(b) /\ pipe' = rest /\ RpcStream' = P!Left(b) \o rest
      /\ cut' = (cut \/ pipe[n] # P!NL)
      /\ IF P!HasLine(b) THEN P!Settle(P!Parsed(b), "answered") ELSE UNCHANGED outcome
      /\ UNCHANGED <<attached, server, rpcInbox, crowded, unnamed>>
  BY DEF P!Data, RpcStream
<1>4. /\ RpcOpen' \subseteq RpcOpen
      /\ \A id \in RpcOpen' : P!HasLine(b) => id \notin P!Parsed(b)
  <2>1. CASE P!HasLine(b)
    <3>1. \A id \in P!Ids : outcome'[id] = "pending" => outcome[id] = "pending" /\ id \notin P!Parsed(b)
      BY <1>3, <2>1, RpcSettled DEF RpcInv
    <3> QED
      BY <1>3, <3>1 DEF RpcOpen
  <2>2. CASE ~ P!HasLine(b)
    BY <1>3, <2>2 DEF RpcOpen
  <2> QED
    BY <2>1, <2>2
<1>5. ~ cut' => ~ cut /\ Framed(b) /\ Framed(rest)
  <2> SUFFICES ASSUME ~ cut' PROVE ~ cut /\ Framed(b) /\ Framed(rest)
    OBVIOUS
  <2>1. ~ cut /\ pipe[n] = P!NL
    BY <1>3 DEF RpcInv, P!TypeOK
  <2>2. Framed(buffer) /\ Framed(pipe)
    BY <2>1 DEF RpcInv, RpcFramed
  <2>3. Framed(x) /\ Framed(rest)
    BY <1>0, <2>1, <2>2, FramedCut
  <2> QED
    BY <1>0, <2>1, <2>2, <2>3, FramedConcat
<1>6. crowded' = crowded /\ rpcInbox' = rpcInbox /\ RpcUp' = RpcUp
  BY <1>3 DEF RpcUp
<1> HIDE DEF x, b, rest
<1>7. CASE P!HasLine(b) /\ P!Parsed(b) # {}
  <2>1. buffer' = <<>>
    BY <1>3, <1>7 DEF P!Left
  <2>2. RpcStream' = rest
    <3>1. <<>> \o rest = rest
      BY <1>0, ConcatSimplifications
    <3> QED
      BY <1>3, <2>1, <3>1
  <2>3. RpcFramed'
    <3>1. Framed(<<>>)
      BY DEF Framed, Tidy, Closed
    <3> QED
      BY <1>3, <1>5, <2>1, <3>1 DEF RpcFramed
  <2>4. RpcFound'
    <3> SUFFICES ASSUME ~ cut', RpcUp, NEW id \in RpcOpen'
                 PROVE  \/ \E i \in 1 .. Len(rpcInbox) : rpcInbox[i] = id
                        \/ \E i \in 1 .. Len(rest) : LineAt(rest, id, i)
      BY <1>6, <2>2 DEF RpcFound
    <3>1. /\ id \in 0 .. MaxRequests /\ Framed(b)
          /\ id \notin P!Parsed(b)
      BY <1>4, <1>5, <1>7 DEF RpcOpen
    <3>2. \/ \E i \in 1 .. Len(rpcInbox) : rpcInbox[i] = id
          \/ \E i \in 1 .. Len(RpcStream) : LineAt(RpcStream, id, i)
      BY <1>4, <1>5 DEF RpcInv, RpcFound
    <3>3. ASSUME NEW i \in 1 .. Len(b \o rest), LineAt(b \o rest, id, i)
          PROVE  \E j \in 1 .. Len(rest) : LineAt(rest, id, j)
      <4>0. Len(b) \in Nat /\ Len(rest) \in Nat /\ (i \in 1 .. Len(b) \/ i - Len(b) \in 1 .. Len(rest)) /\ i \in Int
        BY <1>0, <1>1, ConcatAt
      <4>1. i \notin 1 .. Len(b)
        <5> SUFFICES ASSUME i \in 1 .. Len(b) PROVE FALSE
          OBVIOUS
        <5>1. LineAt(b, id, i)
          BY <1>0, <1>1, <3>1, <3>3, LineAtConcat
        <5> QED
          BY <1>1, <3>1, <5>1, ParsedAt
      <4>2. Len(b) + (i - Len(b)) = i
        BY <4>0
      <4>3. i - Len(b) \in 1 .. Len(rest)
        BY <4>0, <4>1
      <4>4. LineAt(b \o rest, id, Len(b) + (i - Len(b)))
        BY <3>3, <4>2
      <4>5. LineAt(rest, id, i - Len(b))
        <5> DEFINE j == i - Len(b)
        <5>1. j \in 1 .. Len(rest) /\ LineAt(b \o rest, id, Len(b) + j)
          BY <4>3, <4>4
        <5> HIDE DEF j
        <5>2. LineAt(rest, id, j)
          BY <1>0, <1>1, <3>1, <5>1, LineAtConcat
        <5> QED
          BY <5>2 DEF j
      <4> QED
        BY <4>3, <4>5
    <3> QED
      BY <1>2, <3>2, <3>3
  <2>5. RpcSingle'
    <3> SUFFICES ASSUME ~ crowded, RpcUp, NEW id \in RpcOpen'
                 PROVE  FALSE
      BY <1>6 DEF RpcSingle
    <3>1. PICK k \in P!Parsed(b) : TRUE
      BY <1>7
    <3>2. k \in 0 .. MaxRequests
      BY DEF P!Parsed
    <3>3. PICK i \in 1 .. Len(b) : b[i] = <<k, 1>>
      BY <1>1, <3>2, ParsedAt
    <3>4. i \in 1 .. Len(RpcStream) /\ RpcStream[i] = <<k, 1>>
      BY <1>0, <1>1, <1>2, <3>3, ConcatAt
    <3>5. k = id
      BY <1>4, <3>2, <3>4 DEF RpcInv, RpcSingle
    <3> QED
      BY <1>4, <1>7, <3>5
  <2> QED
    BY <2>3, <2>4, <2>5 DEF RpcInv
<1>8. CASE ~ P!HasLine(b) \/ P!Parsed(b) = {}
  <2>1. Tidy(b) => P!Left(b) = b /\ RpcStream' = RpcStream
    BY <1>1, <1>2, <1>3, <1>8, LeftTidy
  <2>2. ~ cut' => Tidy(b)
    BY <1>5 DEF Framed
  <2>3. RpcFramed'
    BY <1>3, <1>5, <2>1, <2>2 DEF RpcFramed
  <2>4. RpcFound'
    BY <1>4, <1>5, <1>6, <2>1, <2>2 DEF RpcInv, RpcFound
  <2>5. RpcSingle'
    <3> SUFFICES ASSUME ~ crowded, RpcUp, RpcOpen' # {}
                 PROVE  RpcStream' = RpcStream
      BY <1>4, <1>6 DEF RpcInv, RpcSingle
    <3>1. Tidy(RpcStream)
      BY <1>4 DEF RpcInv, RpcSingle
    <3>2. Tidy(b)
      BY <1>0, <1>1, <1>2, <3>1, TidyPrefix
    <3> QED
      BY <2>1, <3>2
  <2> QED
    BY <2>3, <2>4, <2>5 DEF RpcInv
<1> QED
  BY <1>7, <1>8

\* One that is served has its line in the stream.
LEMMA RpcServes ==
  ASSUME RpcInv, P!TypeOK', P!Serve
  PROVE  RpcInv'
<1>0. /\ rpcInbox \in Seq(P!Ids) /\ rpcInbox # <<>> /\ rpcInbox' = Tail(rpcInbox)
      /\ UNCHANGED <<buffer, cut, crowded, attached, server, outcome>>
  BY DEF RpcInv, P!TypeOK, P!Serve
<1>1. Head(rpcInbox) \in P!Ids
  BY <1>0
<1>2. CASE pipe' = pipe \o P!Line(Head(rpcInbox)) /\ UNCHANGED unnamed
  <2> DEFINE t == P!Line(Head(rpcInbox))
  <2>1. t \in Seq(P!Tokens) /\ Framed(t)
    BY <1>1, LinesAreFramed
  <2>2. RpcOpen' \subseteq RpcOpen
    BY <1>0, <1>2 DEF RpcOpen
  <2>3. pipe' = pipe \o t
    BY <1>2
  <2> QED
    BY <1>0, <2>1, <2>2, <2>3, RpcPrints
<1>3. CASE pipe' = pipe \o P!Line(0) /\ unnamed' = unnamed \cup {Head(rpcInbox)}
  <2> DEFINE t == P!Line(0)
  <2>1. t \in Seq(P!Tokens) /\ Framed(t)
    BY LinesAreFramed
  <2>2. RpcOpen' \subseteq RpcOpen /\ \A id \in RpcOpen' : Head(rpcInbox) # id
    BY <1>0, <1>3 DEF RpcOpen
  <2>3. pipe' = pipe \o t
    BY <1>3
  <2> HIDE DEF t
  <2> QED
    BY <1>0, <2>1, <2>2, <2>3, RpcPrints
<1> QED
  BY <1>2, <1>3 DEF P!Serve

\* A line of junk is framed by itself.
LEMMA RpcChatters ==
  ASSUME RpcInv, P!TypeOK', P!Chatter
  PROVE  RpcInv'
<1> DEFINE t == <<P!Junk, P!NL>>
<1>1. t \in Seq(P!Tokens) /\ Framed(t)
  BY LinesAreFramed
<1>2. /\ pipe' = pipe \o t /\ rpcInbox' = rpcInbox
      /\ UNCHANGED <<buffer, cut, crowded, attached, server>> /\ RpcOpen' \subseteq RpcOpen
  BY DEF P!Chatter, RpcOpen
<1>3. \A i \in 1 .. Len(t), k \in 0 .. MaxRequests : t[i] # <<k, 1>>
  OBVIOUS
<1> HIDE DEF t
<1> QED
  BY <1>1, <1>2, <1>3, RpcPrints

\* A server that has gone owes no answer.
LEMMA RpcLeaves ==
  ASSUME RpcInv, P!TypeOK', P!Leave
  PROVE  RpcInv'
<1>1. ~ RpcUp' /\ UNCHANGED <<buffer, cut>> /\ pipe' \in {pipe, pipe \o P!Line(0)}
  BY DEF P!Leave, P!history, RpcUp
<1>2. RpcFramed'
  <2>1. pipe \in Seq(P!Tokens) /\ P!Line(0) \in Seq(P!Tokens) /\ Framed(P!Line(0))
    BY LinesAreFramed DEF RpcInv, P!TypeOK
  <2>2. Framed(pipe) => Framed(pipe \o P!Line(0))
    BY <2>1, FramedConcat
  <2> QED
    BY <1>1, <2>2 DEF RpcInv, RpcFramed
<1> QED
  BY <1>1, <1>2 DEF RpcInv, RpcFound, RpcSingle

\* The invariant holds in the first states.
LEMMA RpcStart == P!Init => RpcInv
<1> SUFFICES ASSUME P!Init PROVE RpcInv
  OBVIOUS
<1>1. P!TypeOK
  <2>1. \A id \in P!Ids : outcome[id] = "none" <=> id > sent
    BY DEF P!Init
  <2>2. outcome \in [P!Ids -> RpcOutcomes]
    BY DEF P!Init, RpcOutcomes
  <2>3. sent \in 0 .. MaxRequests /\ junk \in 0 .. MaxJunk
    BY DEF P!Init
  <2>4. /\ rpcInbox \in Seq(P!Ids) /\ pipe \in Seq(P!Tokens) /\ buffer \in Seq(P!Tokens)
    BY EmptySeq DEF P!Init
  <2>5. /\ attached \in BOOLEAN /\ server \in {"up", "gone", "exited"}
        /\ cut \in BOOLEAN /\ crowded \in BOOLEAN /\ unnamed \subseteq P!Ids
    BY DEF P!Init
  <2> HIDE DEF P!Ids, P!Tokens
  <2> QED
    BY <2>1, <2>2, <2>3, <2>4, <2>5 DEF P!TypeOK, RpcOutcomes
<1>2. RpcFramed
  BY DEF P!Init, RpcFramed, Framed, Tidy, Closed
<1>3. RpcOpen = {}
  BY DEF P!Init, RpcOpen
<1> QED
  BY <1>1, <1>2, <1>3 DEF RpcInv, RpcFound, RpcSingle

\* Every step keeps it.
LEMMA RpcStep == RpcInv /\ [P!Next]_rpcVars => RpcInv'
<1> SUFFICES ASSUME RpcInv, [P!Next]_rpcVars PROVE RpcInv'
  OBVIOUS
<1>1. CASE UNCHANGED rpcVars
  <2>1. P!TypeOK'
    BY <1>1 DEF RpcInv, P!TypeOK, rpcVars
  <2>2. UNCHANGED <<RpcUp, RpcOpen>>
    BY <1>1 DEF RpcUp, RpcOpen, rpcVars
  <2> QED
    BY <1>1, <2>1, <2>2, RpcStill DEF rpcVars
<1>2. CASE P!Next
  <2>0. P!TypeOK'
    BY <1>2, RpcTyped DEF RpcInv
  <2>1. CASE P!Send
    BY <2>0, <2>1, RpcSends
  <2>2. CASE P!SendThrows
    BY <2>0, <2>2, RpcStill DEF P!SendThrows, RpcUp
  <2>3. CASE P!Close
    BY <2>0, <2>3, RpcStill DEF P!Close, RpcUp
  <2>4. CASE P!Serve
    BY <2>0, <2>4, RpcServes
  <2>5. CASE P!Chatter
    BY <2>0, <2>5, RpcChatters
  <2>6. CASE P!Leave
    BY <2>0, <2>6, RpcLeaves
  <2>7. CASE P!Exit
    BY <2>0, <2>7, RpcStill DEF P!Exit, RpcUp
  <2>8. ASSUME NEW id \in P!Ids, P!Timeout(id) PROVE RpcInv'
    <3>1. RpcOpen' \subseteq RpcOpen
      <4>1. \A k \in P!Ids : outcome'[k] = "pending" => outcome[k] = "pending"
        BY <2>8, RpcSettled DEF P!Timeout, RpcInv
      <4> QED
        BY <2>8, <4>1 DEF P!Timeout, RpcOpen
    <3> QED
      BY <2>0, <2>8, <3>1, RpcStill DEF P!Timeout, RpcUp
  <2>9. ASSUME NEW n \in 1 .. Len(pipe), P!Data(n) PROVE RpcInv'
    BY <2>0, <2>9, RpcReads
  <2> QED
    BY <1>2, <2>1, <2>2, <2>3, <2>4, <2>5, <2>6, <2>7, <2>8, <2>9 DEF P!Next
<1> QED
  BY <1>1, <1>2

\* What the invariant says of answers that are lost.
LEMMA RpcNoLoss == RpcInv => P!NoAnswerLost
<1> SUFFICES ASSUME RpcInv, RpcUp, ~ cut \/ ~ crowded, NEW id \in RpcOpen
             PROVE  \/ \E i \in 1 .. Len(rpcInbox) : rpcInbox[i] = id
                    \/ P!Carries(RpcStream, id)
  BY DEF P!NoAnswerLost, P!Careful, RpcUp, RpcOpen, RpcStream
<1>1. RpcStream \in Seq(P!Tokens) /\ id \in P!Ids
  BY ConcatAt DEF RpcInv, P!TypeOK, RpcStream, RpcOpen
<1>2. P!Carries(RpcStream, id) <=> \E i \in 1 .. Len(RpcStream) : LineAt(RpcStream, id, i)
  BY <1>1, CarriesAt
<1>3. rpcInbox = <<id>> => \E i \in 1 .. Len(rpcInbox) : rpcInbox[i] = id
  OBVIOUS
<1> QED
  BY <1>2, <1>3 DEF RpcInv, RpcFound, RpcSingle

HIDE RpcAssumption DEF P!Parts, P!NL, P!Junk, P!Tokens, P!Ids, P!stream, P!history

-----------------------------------------------------------------------------
(* Admission. *)

AdmissionInv == A!AdmissionTypeOK /\ A!WakesInTime

USE AdmissionAssumption DEF A!bucketVars, A!now, A!Waiting, A!Ended

\* What the bucket lacks, rounded up to whole ticks, is a number of ticks.
LEMMA WaitTyped ==
  ASSUME NEW a \in Nat
  PROVE  A!CeilDiv(a, Capacity) \in Nat
<1> DEFINE q == (a + Capacity - 1) \div Capacity
<1>1. q \in Int /\ a + Capacity - 1 < Capacity * q + Capacity
  BY SMT
<1>2. q >= 0
  <2> SUFFICES ASSUME q <= -1 PROVE FALSE
    BY <1>1
  <2>1. Capacity * (-1 - q) >= 0
    BY <1>1
  <2>2. Capacity * (-1 - q) = -Capacity - Capacity * q
    BY <1>1
  <2> QED
    BY <1>1, <2>1, <2>2
<1> QED
  BY <1>1, <1>2 DEF A!CeilDiv

\* The bucket with its refill stays under its capacity.
LEMMA AccruedTyped ==
  ASSUME A!AdmissionTypeOK
  PROVE  /\ Capacity * Minute \in Int
         /\ A!Accrued \in Int /\ A!Accrued <= Capacity * Minute
<1>1. Capacity * Minute \in Int
  OBVIOUS
<1> DEFINE gain == Capacity * (real - back - last)
           full == Capacity * Minute
<1>2. gain \in Int /\ tokens \in Int /\ full \in Int
  BY <1>1 DEF A!AdmissionTypeOK
<1>3. A!Accrued = IF full <= tokens + gain THEN full ELSE tokens + gain
  BY DEF A!Accrued, A!Least
<1> HIDE DEF gain, full
<1>4. A!Accrued \in Int /\ A!Accrued <= full
  BY <1>2, <1>3
<1> QED
  BY <1>1, <1>4 DEF full

\* The invariant holds in the first states.
LEMMA AdmissionStart == A!AdmissionInit => AdmissionInv
<1> SUFFICES ASSUME A!AdmissionInit PROVE AdmissionInv
  OBVIOUS
<1>1. Capacity * Minute \in Int
  OBVIOUS
<1> QED
  BY <1>1 DEF A!AdmissionInit, AdmissionInv, A!AdmissionTypeOK, A!WakesInTime

\* A caller that tries takes a token, or learns how long it would wait.
LEMMA TryTyped ==
  ASSUME AdmissionInv, NEW c \in Callers, A!Try(c)
  PROVE  AdmissionInv'
<1>0. A!AdmissionTypeOK /\ UNCHANGED <<real, back, deadline, wakes, caseStatus>> /\ last' = real - back
  BY DEF A!Try, AdmissionInv
<1>1. /\ A!Accrued \in Int /\ A!Accrued <= Capacity * Minute /\ Capacity * Minute \in Int
  BY <1>0, AccruedTyped
<1>2. last' \in Int
  BY <1>0 DEF A!AdmissionTypeOK
<1>3. CASE A!Accrued >= Minute
  <2>1. /\ tokens' = A!Accrued - Minute /\ doing' = [doing EXCEPT ![c] = "through"] /\ UNCHANGED wait
    BY <1>3 DEF A!Try
  <2>2. tokens' \in Int /\ tokens' <= Capacity * Minute
    BY <1>1, <2>1
  <2>3. A!AdmissionTypeOK'
    BY <1>0, <1>2, <2>1, <2>2 DEF A!AdmissionTypeOK
  <2>4. A!WakesInTime'
    BY <1>0, <2>1 DEF AdmissionInv, A!WakesInTime, A!AdmissionTypeOK
  <2> QED
    BY <2>3, <2>4 DEF AdmissionInv
<1>4. CASE ~ (A!Accrued >= Minute)
  <2>1. /\ tokens' = A!Accrued /\ doing' = [doing EXCEPT ![c] = "decide"]
        /\ wait' = [wait EXCEPT ![c] = A!CeilDiv(Minute - A!Accrued, Capacity)]
    BY <1>4 DEF A!Try
  <2>2. A!CeilDiv(Minute - A!Accrued, Capacity) \in Nat
    <3>1. Minute - A!Accrued \in Nat
      BY <1>1, <1>4
    <3> QED
      BY <3>1, WaitTyped
  <2>3. A!AdmissionTypeOK'
    BY <1>0, <1>1, <1>2, <2>1, <2>2 DEF A!AdmissionTypeOK
  <2>4. A!WakesInTime'
    BY <1>0, <2>1 DEF AdmissionInv, A!WakesInTime, A!AdmissionTypeOK
  <2> QED
    BY <2>3, <2>4 DEF AdmissionInv
<1> QED
  BY <1>3, <1>4

\* A caller sleeps until the deadline at most, or is refused.
LEMMA DecideTyped ==
  ASSUME AdmissionInv, NEW c \in Callers, A!Decide(c)
  PROVE  AdmissionInv'
<1>0. /\ A!AdmissionTypeOK /\ UNCHANGED <<real, back, tokens, last, deadline, wait, caseStatus>>
      /\ doing \in [Callers -> {"idle", "through", "try", "decide", "asleep", "refused", "held", "stored"}]
      /\ real \in Nat /\ back \in Nat /\ wait[c] \in Nat /\ deadline[c] \in Int
      /\ wakes \in [Callers -> Nat]
  BY DEF A!Decide, AdmissionInv, A!AdmissionTypeOK
<1>1. CASE real - back + wait[c] > deadline[c]
  <2>1. doing' = [doing EXCEPT ![c] = "refused"] /\ UNCHANGED wakes
    BY <1>1 DEF A!Decide
  <2> QED
    BY <1>0, <2>1 DEF AdmissionInv, A!AdmissionTypeOK, A!WakesInTime
<1>2. CASE ~ (real - back + wait[c] > deadline[c])
  <2> DEFINE nap == A!Least(wait[c], Nap)
  <2>1. /\ doing' = [doing EXCEPT ![c] = "asleep"] /\ wakes' = [wakes EXCEPT ![c] = real + nap]
    BY <1>2 DEF A!Decide
  <2>2. nap \in Nat /\ nap <= wait[c]
    BY <1>0 DEF A!Least
  <2> HIDE DEF nap
  <2>3. real + nap \in Nat /\ (back = 0 => real + nap <= deadline[c])
    BY <1>0, <1>2, <2>2
  <2>4. A!AdmissionTypeOK'
    BY <1>0, <2>1, <2>3 DEF A!AdmissionTypeOK
  <2>5. A!WakesInTime'
    BY <1>0, <2>1, <2>3 DEF AdmissionInv, A!WakesInTime
  <2> QED
    BY <2>4, <2>5 DEF AdmissionInv
<1> QED
  BY <1>1, <1>2

\* Every step keeps it.
LEMMA AdmissionStep == AdmissionInv /\ [A!AdmissionNext]_admissionVars => AdmissionInv'
<1> SUFFICES ASSUME AdmissionInv, [A!AdmissionNext]_admissionVars PROVE AdmissionInv'
  OBVIOUS
<1>1. CASE UNCHANGED admissionVars
  BY <1>1 DEF admissionVars, AdmissionInv, A!AdmissionTypeOK, A!WakesInTime
<1>2. CASE A!Tick
  <2>1. A!AdmissionTypeOK'
    BY <1>2 DEF A!Tick, AdmissionInv, A!AdmissionTypeOK
  <2>2. A!WakesInTime'
    BY <1>2 DEF A!Tick, AdmissionInv, A!WakesInTime
  <2> QED
    BY <2>1, <2>2 DEF AdmissionInv
<1>3. CASE A!SetBack
  <2>1. PICK d \in 1 .. MaxBack - back : back' = back + d
    BY <1>3 DEF A!SetBack
  <2>2. back' \in 0 .. MaxBack /\ back' # 0
    BY <2>1 DEF AdmissionInv, A!AdmissionTypeOK
  <2> QED
    BY <1>3, <2>2 DEF A!SetBack, AdmissionInv, A!AdmissionTypeOK, A!WakesInTime
<1>4. ASSUME NEW c \in Callers, A!Ask(c) PROVE AdmissionInv'
  <2>1. real - back + Patience \in Int
    BY DEF AdmissionInv, A!AdmissionTypeOK
  <2>2. A!AdmissionTypeOK'
    BY <1>4, <2>1 DEF A!Ask, AdmissionInv, A!AdmissionTypeOK
  <2>3. A!WakesInTime'
    BY <1>4 DEF A!Ask, AdmissionInv, A!AdmissionTypeOK, A!WakesInTime
  <2> QED
    BY <2>2, <2>3 DEF AdmissionInv
<1>5. ASSUME NEW c \in Callers, A!Wake(c) PROVE AdmissionInv'
  BY <1>5 DEF A!Wake, AdmissionInv, A!AdmissionTypeOK, A!WakesInTime
<1>6. ASSUME NEW c \in Callers, A!Scan(c) PROVE AdmissionInv'
  BY <1>6 DEF A!Scan, AdmissionInv, A!AdmissionTypeOK, A!WakesInTime
<1>7. ASSUME NEW c \in Callers, A!Review(c) PROVE AdmissionInv'
  BY <1>7 DEF A!Review, AdmissionInv, A!AdmissionTypeOK, A!WakesInTime
<1> QED
  BY <1>1, <1>2, <1>3, <1>4, <1>5, <1>6, <1>7, TryTyped, DecideTyped DEF A!AdmissionNext, A!Turn

HIDE AdmissionAssumption DEF A!bucketVars, A!now, A!Waiting, A!Ended

-----------------------------------------------------------------------------
(* Hermes. *)

\* Nothing is queued before the first session.
HermesUnstarted == session = 0 => jobs = <<>> /\ \A w \in Pool : work[w] = Nothing
\* Job j stores the turn t.
Keeps(j, t) == j.kind # "warm" /\ j.turn = t
\* A turn that was taken is stored, lost with a word, refused, or under way.
TurnsAccounted ==
  \A t \in queued :
    \/ t \in lost \cup refused
    \/ \E e \in stored : e.turn = t
    \/ \E i \in 1 .. Len(jobs) : Keeps(jobs[i], t)
    \/ \E w \in Pool : work[w] # Nothing /\ Keeps(work[w].job, t)
HermesInv == H!HermesTypeOK /\ HermesUnstarted /\ TurnsAccounted /\ H!AgentNeverBuilds

USE HermesAssumption DEF H!sessionKept

\* The invariant holds in the first states.
LEMMA HermesStart == H!HermesInit => HermesInv
<1> SUFFICES ASSUME H!HermesInit PROVE HermesInv
  OBVIOUS
<1>1. /\ session \in 0 .. MaxSessions /\ primary \in [1 .. MaxSessions -> BOOLEAN]
      /\ brains \in Nat /\ breaks \in 0 .. MaxBreaks
  BY ToolsAssumption DEF H!HermesInit
<1>2. /\ brain \in Nat \cup {Nothing} /\ ready \in BOOLEAN /\ hermesAt = "free"
      /\ queued \subseteq H!Turns /\ lost \subseteq H!Turns /\ refused \subseteq H!Turns
      /\ stored \subseteq [turn : H!Turns, under : 1 .. MaxSessions]
  BY DEF H!HermesInit
<1>3. jobs \in Seq(H!Jobs) /\ work \in [Pool -> [job : H!Jobs, at : {"get", "build", "use"}] \cup {Nothing}]
  BY EmptySeq DEF H!HermesInit
<1>4. HermesUnstarted /\ TurnsAccounted
  BY DEF H!HermesInit, HermesUnstarted, TurnsAccounted
<1> QED
  BY <1>1, <1>2, <1>3, <1>4 DEF HermesInv, H!HermesTypeOK, H!AgentNeverBuilds

\* A thread's work, unless it has none.
LEMMA WorkTyped ==
  ASSUME HermesInv, NEW w \in Pool, work[w] # Nothing
  PROVE  /\ work[w] \in [job : H!Jobs, at : {"get", "build", "use"}]
         /\ work[w].job \in H!Jobs
         /\ session \in 1 .. MaxSessions
         /\ work[w].job.kind # "warm" => work[w].job.turn \in H!Turns /\ work[w].job.turn.session \in 1 .. MaxSessions
<1>1. work[w] \in [job : H!Jobs, at : {"get", "build", "use"}]
  BY DEF HermesInv, H!HermesTypeOK
<1>2. work[w].job \in H!Jobs
  BY <1>1
<1>3. session \in 1 .. MaxSessions
  BY DEF HermesInv, H!HermesTypeOK, HermesUnstarted
<1>4. work[w].job.kind # "warm" => work[w].job.turn \in H!Turns
  BY <1>2 DEF H!Jobs
<1> QED
  BY <1>1, <1>2, <1>3, <1>4 DEF H!Turns

\* The agent's thread adds a job at the end of the queue.
LEMMA Enqueued ==
  ASSUME HermesInv, NEW j \in H!Jobs, H!Enqueue(j)
  PROVE  /\ jobs' \in Seq(H!Jobs)
         /\ \A i \in 1 .. Len(jobs) : i \in 1 .. Len(jobs') /\ jobs'[i] = jobs[i]
         /\ Len(jobs) + 1 \in 1 .. Len(jobs') /\ jobs'[Len(jobs) + 1] = j
<1>1. jobs \in Seq(H!Jobs) /\ jobs' = Append(jobs, j)
  BY DEF HermesInv, H!HermesTypeOK, H!Enqueue
<1>2. /\ jobs' \in Seq(H!Jobs) /\ Len(jobs') = Len(jobs) + 1 /\ Len(jobs) \in Nat
      /\ jobs'[Len(jobs) + 1] = j /\ \A i \in 1 .. Len(jobs) : jobs'[i] = jobs[i]
  BY <1>1, AppendProperties
<1> QED
  BY <1>2

\* Initialize keeps the invariant.
LEMMA InitializeKeeps ==
  ASSUME HermesInv, H!Initialize
  PROVE  HermesInv'
<1>1. [kind |-> "warm"] \in H!Jobs
  BY DEF H!Jobs
<1>2. /\ jobs' \in Seq(H!Jobs)
      /\ \A i \in 1 .. Len(jobs) : i \in 1 .. Len(jobs') /\ jobs'[i] = jobs[i]
  BY <1>1, Enqueued DEF H!Initialize
<1>3. H!HermesTypeOK' /\ HermesUnstarted' /\ H!AgentNeverBuilds'
  <2>1. session' \in 0 .. MaxSessions /\ session' # 0 /\ brain' = Nothing /\ ready' = FALSE
    BY DEF H!Initialize, HermesInv, H!HermesTypeOK
  <2>2. UNCHANGED <<primary, brains, hermesAt, work, queued, stored, lost, refused, breaks>>
    BY DEF H!Initialize
  <2> QED
    BY <1>2, <2>1, <2>2 DEF HermesInv, H!HermesTypeOK, HermesUnstarted, H!AgentNeverBuilds
<1>4. TurnsAccounted'
  BY <1>2 DEF H!Initialize, HermesInv, TurnsAccounted, Keeps
<1> QED
  BY <1>3, <1>4 DEF HermesInv

\* SyncTurn keeps the invariant.
LEMMA SyncTurnKeeps ==
  ASSUME HermesInv, NEW kind \in {"turn", "rules"}, H!SyncTurn(kind)
  PROVE  HermesInv'
<1>1. PICK n \in 1 .. MaxTurns :
        /\ H!Enqueue([kind |-> kind, turn |-> [n |-> n, session |-> session]])
        /\ queued' = queued \cup {[n |-> n, session |-> session]}
  BY DEF H!SyncTurn
<1> DEFINE t == [n |-> n, session |-> session]
           j == [kind |-> kind, turn |-> t]
<1>2. session \in 1 .. MaxSessions
  BY DEF H!SyncTurn, HermesInv, H!HermesTypeOK
<1>3. t \in H!Turns
  BY <1>2 DEF H!Turns
<1>4. j \in H!Jobs /\ j.kind # "warm" /\ j.turn = t
  BY <1>3 DEF H!Jobs
<1>5. H!Enqueue(j) /\ queued' = queued \cup {t}
  BY <1>1
<1> HIDE DEF t, j
<1>6. /\ jobs' \in Seq(H!Jobs)
      /\ \A i \in 1 .. Len(jobs) : i \in 1 .. Len(jobs') /\ jobs'[i] = jobs[i]
      /\ Len(jobs) + 1 \in 1 .. Len(jobs') /\ jobs'[Len(jobs) + 1] = j
  BY <1>4, <1>5, Enqueued
<1>7. /\ UNCHANGED <<session, primary, brain, brains, ready, hermesAt, work, stored, lost, refused, breaks>>
  BY DEF H!SyncTurn
<1>8. H!HermesTypeOK' /\ HermesUnstarted' /\ H!AgentNeverBuilds'
  BY <1>2, <1>3, <1>5, <1>6, <1>7 DEF HermesInv, H!HermesTypeOK, HermesUnstarted, H!AgentNeverBuilds
<1>9. TurnsAccounted'
  <2> SUFFICES ASSUME NEW q \in queued \cup {t}
               PROVE  \/ q \in lost \cup refused
                      \/ \E e \in stored : e.turn = q
                      \/ \E i \in 1 .. Len(jobs') : Keeps(jobs'[i], q)
                      \/ \E w \in Pool : work[w] # Nothing /\ Keeps(work[w].job, q)
    BY <1>5, <1>7 DEF TurnsAccounted
  <2>1. CASE q \in queued
    BY <1>6, <2>1 DEF HermesInv, TurnsAccounted
  <2>2. CASE q = t
    BY <1>4, <1>6, <2>2 DEF Keeps
  <2> QED
    BY <2>1, <2>2
<1> QED
  BY <1>8, <1>9 DEF HermesInv

\* A thread takes the first job of the queue.
LEMMA TakeKeeps ==
  ASSUME HermesInv, NEW w \in Pool, H!Take(w)
  PROVE  HermesInv'
<1>1. /\ jobs \in Seq(H!Jobs) /\ jobs # <<>> /\ jobs' = Tail(jobs) /\ work[w] = Nothing
      /\ work' = [work EXCEPT ![w] = [job |-> Head(jobs), at |-> "get"]]
      /\ UNCHANGED <<session, primary, queued, brain, brains, ready, hermesAt, stored, lost, refused, breaks>>
  BY DEF H!Take, HermesInv, H!HermesTypeOK
<1>2. /\ Head(jobs) \in H!Jobs /\ jobs' \in Seq(H!Jobs) /\ Len(jobs) \in Nat /\ Len(jobs') = Len(jobs) - 1
      /\ Head(jobs) = jobs[1] /\ \A i \in 1 .. Len(jobs') : jobs'[i] = jobs[i + 1]
  BY <1>1
<1> DEFINE new == [job |-> Head(jobs), at |-> "get"]
<1>3. new \in [job : H!Jobs, at : {"get", "build", "use"}] /\ new.job = Head(jobs)
  BY <1>2
<1> HIDE DEF new
<1>4. /\ work' = [work EXCEPT ![w] = new]
      /\ work \in [Pool -> [job : H!Jobs, at : {"get", "build", "use"}] \cup {Nothing}]
      /\ work' \in [Pool -> [job : H!Jobs, at : {"get", "build", "use"}] \cup {Nothing}]
      /\ work'[w] = new /\ \A v \in Pool \ {w} : work'[v] = work[v]
  BY <1>1, <1>3 DEF new, HermesInv, H!HermesTypeOK
<1>5. session # 0
  BY <1>1 DEF HermesInv, HermesUnstarted
<1>6. H!HermesTypeOK' /\ HermesUnstarted' /\ H!AgentNeverBuilds'
  BY <1>1, <1>2, <1>4, <1>5 DEF HermesInv, H!HermesTypeOK, HermesUnstarted, H!AgentNeverBuilds
<1>7. new # Nothing
  BY <1>3
<1>8. TurnsAccounted'
  <2> SUFFICES ASSUME NEW q \in queued
               PROVE  \/ q \in lost \cup refused
                      \/ \E e \in stored : e.turn = q
                      \/ \E i \in 1 .. Len(jobs') : Keeps(jobs'[i], q)
                      \/ \E v \in Pool : work'[v] # Nothing /\ Keeps(work'[v].job, q)
    BY <1>1 DEF TurnsAccounted
  <2>1. ASSUME NEW v \in Pool, work[v] # Nothing /\ Keeps(work[v].job, q)
        PROVE  \E u \in Pool : work'[u] # Nothing /\ Keeps(work'[u].job, q)
    BY <1>1, <1>4, <2>1
  <2>2. ASSUME NEW i \in 1 .. Len(jobs), Keeps(jobs[i], q)
        PROVE  \/ \E k \in 1 .. Len(jobs') : Keeps(jobs'[k], q)
               \/ \E u \in Pool : work'[u] # Nothing /\ Keeps(work'[u].job, q)
    <3>1. CASE i = 1
      BY <1>2, <1>3, <1>4, <1>7, <2>2, <3>1
    <3>2. CASE i # 1
      <4>1. i - 1 \in 1 .. Len(jobs') /\ i - 1 + 1 = i
        BY <1>2, <3>2
      <4>2. jobs'[i - 1] = jobs[i]
        BY <1>2, <4>1
      <4> QED
        BY <2>2, <4>1, <4>2
    <3> QED
      BY <3>1, <3>2
  <2> QED
    BY <2>1, <2>2 DEF HermesInv, TurnsAccounted
<1> QED
  BY <1>6, <1>8 DEF HermesInv

\* A thread goes on with its job.
LEMMA GoKeeps ==
  ASSUME HermesInv, NEW w \in Pool, work[w] # Nothing, NEW p \in {"get", "build", "use"}, H!Go(w, p),
         UNCHANGED <<session, queued, hermesAt, jobs, stored, lost, refused>>,
         UNCHANGED primary, UNCHANGED breaks,
         brain' \in Nat \cup {Nothing}, brains' \in Nat, ready' \in BOOLEAN
  PROVE  HermesInv'
<1>1. /\ work \in [Pool -> [job : H!Jobs, at : {"get", "build", "use"}] \cup {Nothing}]
      /\ work[w] \in [job : H!Jobs, at : {"get", "build", "use"}]
      /\ work' = [work EXCEPT ![w].at = p]
  BY WorkTyped DEF HermesInv, H!HermesTypeOK, H!Go
<1> DEFINE new == [work[w] EXCEPT !.at = p]
<1>2. new \in [job : H!Jobs, at : {"get", "build", "use"}] /\ new.job = work[w].job
  BY <1>1
<1> HIDE DEF new
<1>3. work' = [work EXCEPT ![w] = new]
  BY <1>1 DEF new
<1>4. /\ work' \in [Pool -> [job : H!Jobs, at : {"get", "build", "use"}] \cup {Nothing}]
      /\ \A v \in Pool : work[v] # Nothing => work'[v] # Nothing /\ work'[v].job = work[v].job
  BY <1>1, <1>2, <1>3
<1>5. session # 0
  BY WorkTyped
<1>6. H!HermesTypeOK' /\ HermesUnstarted' /\ H!AgentNeverBuilds'
  BY <1>4, <1>5 DEF HermesInv, H!HermesTypeOK, HermesUnstarted, H!AgentNeverBuilds
<1>7. TurnsAccounted'
  BY <1>4 DEF HermesInv, TurnsAccounted
<1> QED
  BY <1>6, <1>7 DEF HermesInv

\* A thread is done with its job, which has been lost, refused or stored.
LEMMA EndKeeps ==
  ASSUME HermesInv, NEW w \in Pool, work[w] # Nothing, H!End(w),
         UNCHANGED <<session, primary, queued, brain, brains, hermesAt, jobs>>, ready' \in BOOLEAN,
         breaks' \in 0 .. MaxBreaks,
         stored \subseteq stored', lost \subseteq lost', refused \subseteq refused',
         stored' \subseteq [turn : H!Turns, under : 1 .. MaxSessions], lost' \subseteq H!Turns,
         refused' \subseteq H!Turns,
         \A t \in queued : Keeps(work[w].job, t) => t \in lost' \cup refused' \/ \E e \in stored' : e.turn = t
  PROVE  HermesInv'
<1>1. /\ work' \in [Pool -> [job : H!Jobs, at : {"get", "build", "use"}] \cup {Nothing}]
      /\ \A v \in Pool \ {w} : work'[v] = work[v]
  BY DEF HermesInv, H!HermesTypeOK, H!End
<1>2. session # 0
  BY WorkTyped
<1>3. H!HermesTypeOK' /\ HermesUnstarted' /\ H!AgentNeverBuilds'
  BY <1>1, <1>2 DEF HermesInv, H!HermesTypeOK, HermesUnstarted, H!AgentNeverBuilds
<1>4. TurnsAccounted'
  <2> SUFFICES ASSUME NEW t \in queued
               PROVE  \/ t \in lost' \cup refused'
                      \/ \E e \in stored' : e.turn = t
                      \/ \E i \in 1 .. Len(jobs) : Keeps(jobs[i], t)
                      \/ \E v \in Pool : work'[v] # Nothing /\ Keeps(work'[v].job, t)
    BY DEF TurnsAccounted
  <2>1. ASSUME NEW v \in Pool, work[v] # Nothing /\ Keeps(work[v].job, t)
        PROVE  \/ t \in lost' \cup refused'
               \/ \E e \in stored' : e.turn = t
               \/ \E u \in Pool : work'[u] # Nothing /\ Keeps(work'[u].job, t)
    <3>1. CASE v = w
      BY <2>1, <3>1
    <3>2. CASE v # w
      BY <1>1, <2>1, <3>2
    <3> QED
      BY <3>1, <3>2
  <2> QED
    BY <2>1 DEF HermesInv, TurnsAccounted
<1> QED
  BY <1>3, <1>4 DEF HermesInv

\* Fails keeps the invariant.
LEMMA FailsKeeps ==
  ASSUME HermesInv, NEW w \in Pool, H!Fails(w)
  PROVE  HermesInv'
<1>1. /\ work[w] # Nothing /\ H!End(w) /\ breaks' \in 0 .. MaxBreaks
      /\ UNCHANGED <<session, primary, queued, brain, brains, hermesAt, jobs, ready, stored, refused>>
      /\ lost' = IF work[w].job.kind = "warm" THEN lost ELSE lost \cup {work[w].job.turn}
  BY ToolsAssumption DEF H!Fails, H!Lost, HermesInv, H!HermesTypeOK
<1>2. /\ lost \subseteq H!Turns /\ refused \subseteq H!Turns
      /\ stored \subseteq [turn : H!Turns, under : 1 .. MaxSessions] /\ ready \in BOOLEAN
  BY DEF HermesInv, H!HermesTypeOK
<1>3. lost \subseteq lost' /\ lost' \subseteq H!Turns
  BY <1>1, <1>2, WorkTyped
<1>4. \A t \in queued : Keeps(work[w].job, t) => t \in lost'
  BY <1>1 DEF Keeps
<1> QED
  BY <1>1, <1>2, <1>3, <1>4, EndKeeps

\* Store keeps the invariant.
LEMMA StoreKeeps ==
  ASSUME HermesInv, NEW w \in Pool, H!Store(w)
  PROVE  HermesInv'
<1> DEFINE j == work[w].job
           e == [turn |-> j.turn, under |-> IF j.kind = "turn" THEN session ELSE j.turn.session]
<1>1. /\ work[w] # Nothing /\ H!End(w) /\ j.kind # "warm"
      /\ \/ stored' = stored \cup {e} /\ UNCHANGED refused
         \/ refused' = refused \cup {j.turn} /\ UNCHANGED stored
      /\ UNCHANGED <<session, primary, queued, brain, brains, hermesAt, jobs, ready, lost, breaks>>
  BY DEF H!Store
<1>2. /\ lost \subseteq H!Turns /\ stored \subseteq [turn : H!Turns, under : 1 .. MaxSessions] /\ ready \in BOOLEAN
      /\ refused \subseteq H!Turns /\ breaks \in 0 .. MaxBreaks
  BY DEF HermesInv, H!HermesTypeOK
<1>3. j.turn \in H!Turns /\ j.turn.session \in 1 .. MaxSessions /\ session \in 1 .. MaxSessions
  BY <1>1, WorkTyped
<1>4. e \in [turn : H!Turns, under : 1 .. MaxSessions] /\ e.turn = j.turn
  BY <1>3
<1>5. \A t \in queued : Keeps(work[w].job, t) => t \in refused' \/ \E f \in stored' : f.turn = t
  BY <1>1, <1>4 DEF Keeps
<1> HIDE DEF e
<1>6. /\ stored \subseteq stored' /\ stored' \subseteq [turn : H!Turns, under : 1 .. MaxSessions]
      /\ refused \subseteq refused' /\ refused' \subseteq H!Turns
  BY <1>1, <1>2, <1>3, <1>4
<1> QED
  BY <1>1, <1>2, <1>5, <1>6, EndKeeps

\* Warm keeps the invariant.
LEMMA WarmKeeps ==
  ASSUME HermesInv, NEW w \in Pool, H!Warm(w)
  PROVE  HermesInv'
<1>1. /\ work[w] # Nothing /\ H!End(w) /\ work[w].job.kind = "warm" /\ ready' = TRUE
      /\ UNCHANGED <<session, primary, queued, brain, brains, hermesAt, jobs, stored, lost, refused, breaks>>
  BY DEF H!Warm
<1>2. /\ lost \subseteq H!Turns /\ stored \subseteq [turn : H!Turns, under : 1 .. MaxSessions]
      /\ refused \subseteq H!Turns /\ breaks \in 0 .. MaxBreaks
  BY DEF HermesInv, H!HermesTypeOK
<1>3. \A t \in queued : ~ Keeps(work[w].job, t)
  BY <1>1 DEF Keeps
<1> QED
  BY <1>1, <1>2, <1>3, EndKeeps

\* Thread keeps the invariant.
LEMMA ThreadKeeps ==
  ASSUME HermesInv, NEW w \in Pool, H!Thread(w)
  PROVE  HermesInv'
<1>0. brain \in Nat \cup {Nothing} /\ brains \in Nat /\ ready \in BOOLEAN
  BY DEF HermesInv, H!HermesTypeOK
<1>1. CASE H!GetBrain(w)
  <2>1. PICK p \in {"get", "build", "use"} : H!Go(w, p)
    BY <1>1 DEF H!GetBrain
  <2> QED
    BY <1>0, <1>1, <2>1, GoKeeps DEF H!GetBrain
<1>2. CASE H!Built(w)
  <2>1. brains' \in Nat /\ brain' \in Nat \cup {Nothing} /\ ready' \in BOOLEAN
    BY <1>0, <1>2 DEF H!Built
  <2> QED
    BY <1>2, <2>1, GoKeeps DEF H!Built
<1> QED
  BY <1>1, <1>2, TakeKeeps, WarmKeeps, StoreKeeps DEF H!Thread

\* Every step keeps it.
LEMMA HermesStep == HermesInv /\ [H!HermesNext]_hermesVars => HermesInv'
<1> SUFFICES ASSUME HermesInv, [H!HermesNext]_hermesVars PROVE HermesInv'
  OBVIOUS
<1>1. CASE UNCHANGED hermesVars
  <2>1. H!HermesTypeOK' /\ HermesUnstarted' /\ H!AgentNeverBuilds'
    BY <1>1 DEF hermesVars, HermesInv, H!HermesTypeOK, HermesUnstarted, H!AgentNeverBuilds
  <2>2. TurnsAccounted'
    BY <1>1 DEF hermesVars, HermesInv, TurnsAccounted
  <2> QED
    BY <2>1, <2>2 DEF HermesInv
<1>2. ASSUME UNCHANGED <<session, primary, brain, brains, ready, jobs, work, queued, stored, lost, refused, breaks>>,
             hermesAt' \in {"free", "starting", "leaving", "gone"}
      PROVE  HermesInv'
  <2>1. H!HermesTypeOK' /\ HermesUnstarted' /\ H!AgentNeverBuilds'
    BY <1>2 DEF HermesInv, H!HermesTypeOK, HermesUnstarted, H!AgentNeverBuilds
  <2>2. TurnsAccounted'
    BY <1>2 DEF HermesInv, TurnsAccounted
  <2> QED
    BY <2>1, <2>2 DEF HermesInv
<1>3. CASE H!Prefetch
  BY <1>2, <1>3 DEF H!Prefetch, H!Warmed
<1>4. CASE H!SessionStart
  BY <1>2, <1>4 DEF H!SessionStart
<1>5. CASE H!Started
  BY <1>2, <1>5 DEF H!Started
<1>6. CASE H!Leave
  BY <1>2, <1>6 DEF H!Leave
<1>7. CASE H!Left
  BY <1>2, <1>7 DEF H!Left
<1> QED
  BY <1>1, <1>3, <1>4, <1>5, <1>6, <1>7, InitializeKeeps, SyncTurnKeeps, ThreadKeeps, FailsKeeps DEF H!HermesNext

HIDE HermesAssumption DEF H!sessionKept

-----------------------------------------------------------------------------
(* All parts together. *)

\* What holds in each part, whichever of them runs.
CallsInv ==
  /\ IndInv /\ BridgeInv /\ ToolsInv /\ RpcInv /\ AdmissionInv /\ RerankInv /\ HermesInv

\* A step of the whole is a step of each part, or leaves it as it is.
LEMMA PartsStep ==
  ASSUME [CallsNext]_callsVars
  PROVE  /\ [Next]_vars /\ [BridgeNext]_bridgeVars /\ [T!ToolsNext]_toolsVars /\ [P!Next]_rpcVars
         /\ [A!AdmissionNext]_admissionVars /\ [R!RerankNext]_rerankVars /\ [H!HermesNext]_hermesVars
<1>1. UNCHANGED daemonVars => UNCHANGED vars
  BY DEF vars, daemonVars
<1>2. UNCHANGED callsVars => UNCHANGED <<daemonVars, bridgeVars, rpcVars, admissionVars, rerankVars, hermesVars, toolsVars>>
  BY Zenon DEF callsVars
<1>3. CASE UNCHANGED callsVars
  <2>1. UNCHANGED vars
    BY <1>1, <1>2, <1>3
  <2> QED
    BY <1>2, <1>3, <2>1
<1>4. CASE CallsNext
  BY <1>1, <1>4, Zenon DEF CallsNext
<1> QED
  BY <1>3, <1>4

\* It holds in every behaviour.
LEMMA CallsInductive == CallsSpec => []CallsInv
<1>1. CallsInit => CallsInv
  <2> SUFFICES ASSUME CallsInit PROVE CallsInv
    OBVIOUS
  <2>1. Init /\ BridgeInit /\ P!Init /\ A!AdmissionInit /\ R!RerankInit /\ H!HermesInit /\ T!ToolsInit
    BY DEF CallsInit
  <2> QED
    BY <2>1, DaemonStart, IndInit, ToolsStart, RpcStart, AdmissionStart, RerankStart, HermesStart DEF CallsInv
<1>2. CallsInv /\ [CallsNext]_callsVars => CallsInv'
  <2> SUFFICES ASSUME CallsInv, [CallsNext]_callsVars PROVE CallsInv'
    OBVIOUS
  <2> QED
    BY PartsStep, DaemonStep, IndStep, ToolsStep, RpcStep, AdmissionStep, RerankStep, HermesStep DEF CallsInv
<1> QED
  BY <1>1, <1>2, PTL DEF CallsSpec

(* Every variable of every part keeps its type, whatever hangs, dies or is     *)
(* refused: the reranker's scores are those of its hits, a thread of Hermes'   *)
(* executor has a job of a session, the bucket never holds more than its       *)
(* capacity (base.py:112).                                                     *)
THEOREM AllTypesAlways == CallsSpec => []AllTypesOK
<1>1. CallsInv => AllTypesOK
  BY DEF CallsInv, AllTypesOK, IndInv, BridgeInv, ToolsInv, RpcInv, AdmissionInv, RerankInv, HermesInv
<1> QED
  BY <1>1, CallsInductive, PTL

(* An answer of the server that carries its id is not lost between its stdout  *)
(* and _drainBuffer (stdio-rpc.js:124) while no data event ends inside a line, *)
(* or requests come one at a time; and a text that brain_remember has answered *)
(* "queued" is in the queue, with a thread, or was tried (tools.py:528).       *)
THEOREM NoAnswerLostAlways == CallsSpec => []NoAnswerLost
<1>1. CallsInv => NoAnswerLost
  BY RpcNoLoss DEF CallsInv, ToolsInv, NoAnswerLost
<1> QED
  BY <1>1, CallsInductive, PTL

(* Hits come back in the order of the scores their own texts were given,       *)
(* whatever lines the worker printed and whichever backend answered            *)
(* (rerank.py:371).                                                            *)
THEOREM RanksByOwnScoreAlways == CallsSpec => []RanksByOwnScore
<1>1. CallsInv => RanksByOwnScore
  BY DEF CallsInv, RerankInv, RanksByOwnScore
<1> QED
  BY <1>1, CallsInductive, PTL

(* The watcher's record and the bridge's lock do their work in the whole too.  *)
THEOREM ProcessesApart == CallsSpec => [](OneWatcher /\ NoDesync /\ OneWorker)
<1>1. CallsInv => OneWatcher /\ NoDesync /\ OneWorker
  BY DEF CallsInv, IndInv, Recorded, OneWatcher, BridgeInv, Known, OneWorker
<1> QED
  BY <1>1, CallsInductive, PTL

(* A caller of Brain.remember() wakes by its deadline as long as nobody sets   *)
(* the clock back: it is refused before a nap that would be too long           *)
(* (base.py:125).                                                              *)
THEOREM NapsEndInTime == CallsSpec => [][A!WakesInTime']_admissionVars
<1>1. CallsInv => A!WakesInTime
  BY DEF CallsInv, AdmissionInv
<1> QED
  BY <1>1, CallsInductive, PTL

(* Hermes' agent builds no brain in a prefetch, and each turn that sync_turn() *)
(* has taken is in the executor's queue, in the hands of a thread, stored,     *)
(* logged as lost or refused by remember() (duckbot_brain/__init__.py:549).    *)
THEOREM TurnsAccountedAlways == CallsSpec => [](H!AgentNeverBuilds /\ TurnsAccounted)
<1>1. CallsInv => H!AgentNeverBuilds /\ TurnsAccounted
  BY DEF CallsInv, HermesInv
<1> QED
  BY <1>1, CallsInductive, PTL
==============================================================================
