-------------------------------- MODULE Bridge --------------------------------
(***************************************************************************)
(* Bridge mode of the Hermes memory provider                               *)
(* (src/src/plugins/memory/duckbot_brain/__init__.py): the agent's process *)
(* cannot host the memory, so _WorkerClient keeps one brain worker process *)
(* (src/src/brain_worker.py) and exchanges lines with it over its pipes.   *)
(*                                                                         *)
(* Three threads use the client: the agent's, the provider's executor of   *)
(* one thread, which stores finished turns, and the scratch thread of the  *)
(* probe, the only call with a timeout.  A call holds the client's lock    *)
(* from its request to its answer; close() takes no lock.  A line is the   *)
(* id it carries, or Noise for anything else that reaches stdout.          *)
(***************************************************************************)
EXTENDS Naturals, Sequences

CONSTANTS
  MaxCalls,    \* bound: requests made by the agent and the executor
  MaxWorkers,  \* bound: worker processes
  MaxFaults    \* bound: faults of each kind

FaultKinds == {"die", "wedge", "noise"}
ASSUME BoundsAssumption ==
  MaxCalls \in Nat /\ MaxWorkers \in Nat /\ MaxFaults \in [FaultKinds -> Nat]

Threads == {"agent", "sync", "probe"}
Workers == 1 .. MaxWorkers
NoWorker == 0      \* no worker
Nobody == "nobody" \* no thread
Noise == 0         \* the line that answers nothing: ids start at 1

VARIABLES
  mode,      \* what is_available() knows: fresh, probing, bridged, unavailable
  shut,      \* shutdown(): no, closing, draining, done
  queue,     \* the executor's pending jobs
  calls,     \* requests made so far
  pc,        \* where each thread is in _call_blocking
  req,       \* its request id
  reader,    \* the worker it waits for
  result,    \* how its last call ended
  lock,      \* the thread that holds _lock
  seq,       \* _seq
  proc,      \* _proc
  closing,   \* the worker close() has taken
  spawned,   \* the number of workers started
  status,    \* each worker: up, wedged, dying (not reaped yet), dead
  inbox,     \* the lines in its stdin
  outbox,    \* the lines in its stdout
  faults     \* the faults that have happened

agent == <<mode, shut, queue, calls>>
thread == <<pc, req, reader, result, lock>>
client == <<seq, proc, closing>>
worker == <<spawned, status, inbox, outbox>>
bridgeVars == <<agent, thread, client, worker, faults>>

BridgeInit ==
  /\ mode = "fresh" /\ shut = "no" /\ queue = 0 /\ calls = 0
  /\ pc = [t \in Threads |-> "idle"]
  /\ req = [t \in Threads |-> 0]
  /\ reader = [t \in Threads |-> NoWorker]
  /\ result = [t \in Threads |-> "none"]
  /\ lock = Nobody
  /\ seq = 0 /\ proc = NoWorker /\ closing = NoWorker
  /\ spawned = 0
  /\ status = [w \in Workers |-> "dead"]
  /\ inbox = [w \in Workers |-> <<>>] /\ outbox = [w \in Workers |-> <<>>]
  /\ faults = [k \in FaultKinds |-> 0]

Live(w) == status[w] \in {"up", "wedged"}
Running(w) == status[w] # "dead"       \* poll() is None
Fault(k) == faults[k] < MaxFaults[k] /\ faults' = [faults EXCEPT ![k] = @ + 1]

-----------------------------------------------------------------------------
(* _call_blocking, in each thread. *)

MoveTo(t, place) == pc' = [pc EXCEPT ![t] = place]

\* Leave the locked section with a result or an exception.
Return(t, r) ==
  /\ MoveTo(t, "idle")
  /\ req' = [req EXCEPT ![t] = 0]
  /\ reader' = [reader EXCEPT ![t] = NoWorker]
  /\ result' = [result EXCEPT ![t] = r]
  /\ lock' = Nobody

\* Mutant of Acquire: no lock.
AcquireFreely(t) ==
  /\ pc[t] = "acquire"
  /\ lock' = t
  /\ MoveTo(t, "start")
  /\ UNCHANGED <<agent, req, reader, result, client, worker, faults>>

Acquire(t) ==
  /\ pc[t] = "acquire"
  /\ lock = Nobody
  /\ lock' = t
  /\ MoveTo(t, "start")
  /\ UNCHANGED <<agent, req, reader, result, client, worker, faults>>

Spawn ==
  /\ spawned < MaxWorkers
  /\ spawned' = spawned + 1
  /\ proc' = spawned + 1
  /\ status' = [status EXCEPT ![spawned + 1] = "up"]

\* Mutant of Start: poll() is not consulted.
StartAnew(t) ==
  /\ pc[t] = "start"
  /\ Spawn
  /\ MoveTo(t, "send")
  /\ UNCHANGED <<agent, req, reader, result, lock, seq, closing, inbox, outbox, faults>>

\* start(): a worker is spawned unless there is one that has not exited.
Start(t) ==
  /\ pc[t] = "start"
  /\ IF proc # NoWorker /\ Running(proc) THEN UNCHANGED <<proc, spawned, status>> ELSE Spawn
  /\ MoveTo(t, "send")
  /\ UNCHANGED <<agent, req, reader, result, lock, seq, closing, inbox, outbox, faults>>

\* The request is written, and the thread waits for a line of this worker.
Send(t) ==
  /\ pc[t] = "send"
  /\ proc # NoWorker /\ Live(proc)
  /\ seq' = seq + 1
  /\ inbox' = [inbox EXCEPT ![proc] = Append(@, seq + 1)]
  /\ req' = [req EXCEPT ![t] = seq + 1]
  /\ reader' = [reader EXCEPT ![t] = proc]
  /\ MoveTo(t, "read")
  /\ UNCHANGED <<agent, result, lock, proc, closing, spawned, status, outbox, faults>>

\* close() came between, or the worker is gone and the pipe is broken.
SendFails(t) ==
  /\ pc[t] = "send"
  /\ \/ proc = NoWorker /\ UNCHANGED seq
     \/ proc # NoWorker /\ ~Live(proc) /\ seq' = seq + 1
  /\ Return(t, "broken")
  /\ UNCHANGED <<agent, proc, closing, worker, faults>>

\* One line is read.  The answer to this request is returned, or raised when
\* the worker reports an error; any other line raises.
ReadLine(t) ==
  LET w == reader[t] IN
  /\ pc[t] = "read"
  /\ outbox[w] # <<>>
  /\ outbox' = [outbox EXCEPT ![w] = Tail(@)]
  /\ \/ Head(outbox[w]) = req[t] /\ (Return(t, "ok") \/ Return(t, "raised"))
     \/ Head(outbox[w]) = Noise /\ Return(t, "garbled")
     \/ Head(outbox[w]) \notin {req[t], Noise} /\ Return(t, "desync")
  /\ UNCHANGED <<agent, client, spawned, status, inbox, faults>>

\* Mutant of ReadNothing: readline is retried at the end of the file.
ReadAgain(t) ==
  /\ pc[t] = "read"
  /\ proc = NoWorker
  /\ Return(t, "broken")
  /\ UNCHANGED <<agent, client, worker, faults>>

\* The end of the file, or close() came before readline.
ReadNothing(t) ==
  /\ pc[t] = "read"
  /\ \/ outbox[reader[t]] = <<>> /\ ~Live(reader[t])
     \/ proc = NoWorker
  /\ Return(t, "broken")
  /\ UNCHANGED <<agent, client, worker, faults>>

CallStep(t) ==
  \/ Acquire(t) \/ Start(t) \/ Send(t) \/ SendFails(t) \/ ReadLine(t) \/ ReadNothing(t)

-----------------------------------------------------------------------------
(* The provider. *)

Begin(t) ==
  /\ pc[t] = "idle"
  /\ MoveTo(t, "acquire")
  /\ UNCHANGED <<req, reader, result, lock, client, worker, faults>>

\* The agent's thread is in none of the provider's methods.
Free == shut = "no" /\ pc["agent"] = "idle"

\* is_available(): a ping on a scratch thread, joined for 60 seconds.
Ping ==
  /\ mode = "fresh" /\ Free
  /\ Begin("probe")
  /\ mode' = "probing"
  /\ UNCHANGED <<shut, queue, calls>>

ProbeEnds ==
  /\ mode = "probing"
  /\ pc["probe"] = "idle"
  /\ mode' = IF result["probe"] = "ok" THEN "bridged" ELSE "unavailable"
  /\ UNCHANGED <<shut, queue, calls, thread, client, worker, faults>>

\* The scratch thread is left behind, and with it the lock it may hold.
ProbeTimeout ==
  /\ mode = "probing"
  /\ pc["probe"] # "idle"
  /\ mode' = "unavailable"
  /\ UNCHANGED <<shut, queue, calls, thread, client, worker, faults>>

\* prefetch, on_session_start or a tool call: a request from the agent's thread.
Request ==
  /\ mode = "bridged" /\ Free
  /\ calls < MaxCalls /\ calls' = calls + 1
  /\ Begin("agent")
  /\ UNCHANGED <<mode, shut, queue>>

\* sync_turn, on_session_end: a job for the executor.
Submit ==
  /\ mode = "bridged" /\ Free
  /\ calls < MaxCalls /\ calls' = calls + 1
  /\ queue' = queue + 1
  /\ UNCHANGED <<mode, shut, thread, client, worker, faults>>

Sync ==
  /\ queue > 0
  /\ Begin("sync")
  /\ queue' = queue - 1
  /\ UNCHANGED <<mode, shut, calls>>

\* shutdown(): close() takes the worker and then kills it; then the executor
\* is shut down, which waits for its jobs.
Shutdown ==
  /\ mode \in {"bridged", "unavailable"} /\ Free
  /\ shut' = "closing"
  /\ closing' = proc
  /\ proc' = NoWorker
  /\ UNCHANGED <<mode, queue, calls, thread, seq, worker, faults>>

Kill ==
  /\ shut = "closing"
  /\ shut' = "draining"
  /\ closing' = NoWorker
  /\ status' = [w \in Workers |-> IF w = closing THEN "dead" ELSE status[w]]
  /\ UNCHANGED <<mode, queue, calls, thread, seq, proc, spawned, inbox, outbox, faults>>

Drained ==
  /\ shut = "draining"
  /\ queue = 0 /\ pc["sync"] = "idle"
  /\ shut' = "done"
  /\ UNCHANGED <<mode, queue, calls, thread, client, worker, faults>>

Provider == ProbeEnds \/ ProbeTimeout \/ Sync \/ Kill \/ Drained
Use == Ping \/ Request \/ Submit \/ Shutdown

-----------------------------------------------------------------------------
(* The worker process. *)

\* A request is handled and answered with its id, whatever it is.
Serve(w) ==
  /\ status[w] = "up"
  /\ inbox[w] # <<>>
  /\ inbox' = [inbox EXCEPT ![w] = Tail(@)]
  /\ outbox' = [outbox EXCEPT ![w] = Append(@, Head(inbox[w]))]
  /\ UNCHANGED <<agent, thread, client, spawned, status, faults>>

\* A library prints to stdout while it handles one.
Babble(w) ==
  /\ status[w] = "up"
  /\ inbox[w] # <<>>
  /\ Fault("noise")
  /\ outbox' = [outbox EXCEPT ![w] = Append(@, Noise)]
  /\ UNCHANGED <<agent, thread, client, spawned, status, inbox>>

\* It never comes back from one (the embedder or the store hangs).
Wedge(w) ==
  /\ status[w] = "up"
  /\ inbox[w] # <<>>
  /\ Fault("wedge")
  /\ status' = [status EXCEPT ![w] = "wedged"]
  /\ UNCHANGED <<agent, thread, client, spawned, inbox, outbox>>

Die(w) ==
  /\ Live(w)
  /\ Fault("die")
  /\ status' = [status EXCEPT ![w] = "dying"]
  /\ UNCHANGED <<agent, thread, client, spawned, inbox, outbox>>

Reap(w) ==
  /\ status[w] = "dying"
  /\ status' = [status EXCEPT ![w] = "dead"]
  /\ UNCHANGED <<agent, thread, client, spawned, inbox, outbox, faults>>

-----------------------------------------------------------------------------

BridgeNext ==
  \/ Use \/ Provider
  \/ \E t \in Threads : CallStep(t)
  \/ \E w \in Workers : Serve(w) \/ Babble(w) \/ Wedge(w) \/ Die(w) \/ Reap(w)

BridgeSpec == BridgeInit /\ [][BridgeNext]_bridgeVars

\* Threads and processes run; the agent need not call anything, and no fault
\* need happen.  The lock is not fair, but the calls that compete for it are
\* finitely many.
BridgeFairSpec ==
  /\ BridgeSpec
  /\ WF_bridgeVars(Provider)
  /\ \A t \in Threads : WF_bridgeVars(CallStep(t))
  /\ \A w \in Workers : WF_bridgeVars(Serve(w)) /\ WF_bridgeVars(Reap(w))

-----------------------------------------------------------------------------

\* Every variable has its type.
BridgeTypeOK ==
  /\ mode \in {"fresh", "probing", "bridged", "unavailable"}
  /\ shut \in {"no", "closing", "draining", "done"}
  /\ queue \in Nat /\ calls \in Nat
  /\ pc \in [Threads -> {"idle", "acquire", "start", "send", "read"}]
  /\ req \in [Threads -> Nat]
  /\ reader \in [Threads -> Workers \cup {NoWorker}]
  /\ result \in [Threads -> {"none", "ok", "raised", "garbled", "desync", "broken"}]
  /\ lock \in Threads \cup {Nobody}
  /\ seq \in Nat
  /\ proc \in Workers \cup {NoWorker}
  /\ closing \in Workers \cup {NoWorker}
  /\ spawned \in 0 .. MaxWorkers
  /\ status \in [Workers -> {"up", "wedged", "dying", "dead"}]
  /\ inbox \in [Workers -> Seq(Nat)]
  /\ outbox \in [Workers -> Seq(Nat)]
  /\ faults \in [FaultKinds -> Nat]

(* What the safety properties rest on. *)

\* A call is past the lock only while it holds it.
Holder == \A t \in Threads : pc[t] \in {"start", "send", "read"} => lock = t

\* Processes and pipes appear with Spawn.
Unspawned ==
  /\ proc <= spawned
  /\ \A t \in Threads : pc[t] = "read" => reader[t] \in 1 .. spawned
  /\ \A w \in Workers : w > spawned => inbox[w] = <<>> /\ outbox[w] = <<>> /\ ~Running(w)

\* The only processes are the one calls go to and the one being killed.
Known ==
  /\ shut # "closing" => closing = NoWorker
  /\ \A w \in Workers : Running(w) => w \in {proc, closing}

\* Between a worker and the thread that waits for it there is one line, its
\* own request or the answer to it; a worker nobody waits for owes nothing.
OneLine(w, id) ==
  \/ inbox[w] = <<id>> /\ outbox[w] = <<>>
  \/ inbox[w] = <<>> /\ outbox[w] = <<id>>
InStep ==
  faults["noise"] = 0 =>
    /\ \A t \in Threads : pc[t] = "read" => OneLine(reader[t], req[t])
    /\ proc # NoWorker /\ Live(proc) =>
         \/ \E t \in Threads : pc[t] = "read" /\ reader[t] = proc
         \/ inbox[proc] = <<>> /\ outbox[proc] = <<>>

\* Requests and answers stay in step: unless something else than an answer was
\* printed, no call ever reads the answer to another one, through timeouts,
\* worker deaths and restarts, and a close() in the middle of a call.
NoDesync == \A t \in Threads : result[t] = "desync" => faults["noise"] > 0

\* One process at a time works on the store, except the one close() is killing.
OneWorker ==
  \A v, w \in Workers : Running(v) /\ Running(w) /\ v # w => closing \in {v, w}

\* The inductive invariant behind NoDesync and OneWorker.
BridgeInv == BridgeTypeOK /\ Holder /\ Unspawned /\ Known /\ InStep /\ NoDesync

\* is_available() returns, whatever the worker does.
ProbeReturns == []<>(mode # "probing")
\* A request of the agent comes back, with a result or an exception ...
AgentReturns == []<>(pc["agent"] = "idle" \/ faults["wedge"] > 0)
\* ... and shutting down ends, after the jobs already queued ...
ShutdownEnds == []<>(shut \in {"no", "done"} \/ faults["wedge"] > 0)
\* ... unless a worker has hung, for which only the probe has a timeout.
EveryWaitEnds == ProbeReturns /\ AgentReturns /\ ShutdownEnds
===============================================================================
