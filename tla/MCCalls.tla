------------------------------- MODULE MCCalls -------------------------------
(***************************************************************************)
(* What waits for something else, checked in one run: the commands of the   *)
(* watcher's process (Daemon), the provider's bridge to its worker process  *)
(* (Bridge), the memory tools and their pool (T), the plugin's connection   *)
(* to its server (P), the bucket of Brain.remember() and the quarantine     *)
(* (A), the reranker with its pool (R) and the Hermes plugin with its       *)
(* executor (H).  They share no state, so a behaviour is one of `part`, and *)
(* the others rest.                                                         *)
(***************************************************************************)
EXTENDS Daemon, Bridge, Naturals, Sequences

CONSTANTS MaxRequests, MaxJunk,
          Callers, Suspicious, Capacity, Minute, Patience, Nap, MaxTime, MaxBack,
          Searches, RerankThreads, Backends, Hits, Scores, None0, MaxRerankFaults,
          Pool, MaxSessions, MaxTurns, MaxBreaks, Nothing,
          MaxTexts, Helpers

ASSUME ToolsAssumption ==
  /\ MaxTexts \in Nat /\ MaxBreaks \in Nat
  /\ Nothing \notin Callers /\ Nothing \notin 1 .. MaxTexts
  /\ Callers \cap Helpers = {}
ASSUME RpcAssumption == MaxRequests \in Nat /\ MaxJunk \in Nat
ASSUME RerankAssumption ==
  /\ Hits \in Nat /\ Scores \subseteq Nat /\ MaxRerankFaults \in Nat
  /\ Len(Backends) \in Nat /\ DOMAIN Backends = 1 .. Len(Backends)
ASSUME AdmissionAssumption ==
  /\ Capacity \in Nat \ {0} /\ Minute \in Nat
  /\ Patience \in Nat /\ Nap \in Nat /\ MaxTime \in Nat /\ MaxBack \in Nat

VARIABLES part,
          sent, outcome, attached, server, rpcInbox, pipe, buffer, junk, cut, crowded, unnamed,
          real, back, tokens, last, doing, deadline, wait, wakes, caseStatus,
          up, backend, phase, probing, given, ranked, line, rerankThread, rerankFaults,
          session, primary, brain, brains, ready, hermesAt, jobs, work, queued, stored, lost, refused, breaks,
          door, life, made, core, latch, place, ask, text, texts, backlog, answer, fate, hidden, slips

P == INSTANCE StdioRpc WITH inbox <- rpcInbox, MaxCalls <- MaxRequests
A == INSTANCE Admission WITH Timeout <- Patience, status <- caseStatus
R == INSTANCE Reranker WITH None <- None0, thread <- rerankThread, faults <- rerankFaults,
                            Threads <- RerankThreads, MaxFaults <- MaxRerankFaults
H == INSTANCE Hermes WITH agent <- hermesAt
T == INSTANCE Tools WITH Nobody <- Nothing

ASSUME HermesAssumption ==
  MaxSessions \in Nat /\ Nothing \notin [job : H!Jobs, at : {"get", "build", "use"}]

daemonVars    == <<file, role, at, seen, trouble>>
rpcVars       == <<sent, outcome, attached, server, rpcInbox, pipe, buffer, junk, cut, crowded, unnamed>>
admissionVars == <<real, back, tokens, last, doing, deadline, wait, wakes, caseStatus>>
rerankVars    == <<up, backend, phase, probing, given, ranked, line, rerankThread, rerankFaults>>
hermesVars    == <<session, primary, brain, brains, ready, hermesAt, jobs, work, queued, stored, lost, refused, breaks>>
toolsVars     == <<door, life, made, core, latch, place, ask, text, texts, backlog, answer, fate, hidden, slips>>
callsVars     == <<part, daemonVars, bridgeVars, rpcVars, admissionVars, rerankVars, hermesVars, toolsVars>>

Parts == {"daemon", "bridge", "tools", "rpc", "admission", "rerank", "hermes"}

CallsInit ==
  /\ part \in Parts
  /\ Init /\ BridgeInit /\ P!Init /\ A!AdmissionInit /\ R!RerankInit /\ H!HermesInit /\ T!ToolsInit
  /\ part # "rerank" => up = {}
  /\ part # "hermes" => primary = [s \in 1 .. MaxSessions |-> TRUE]
  /\ part # "tools" => door = "verb"

CallsNext ==
  /\ UNCHANGED part
  /\ \/ part = "daemon" /\ Next
        /\ UNCHANGED <<bridgeVars, rpcVars, admissionVars, rerankVars, hermesVars, toolsVars>>
     \/ part = "bridge" /\ BridgeNext
        /\ UNCHANGED <<daemonVars, rpcVars, admissionVars, rerankVars, hermesVars, toolsVars>>
     \/ part = "tools" /\ T!ToolsNext
        /\ UNCHANGED <<daemonVars, bridgeVars, rpcVars, admissionVars, rerankVars, hermesVars>>
     \/ part = "rpc" /\ P!Next
        /\ UNCHANGED <<daemonVars, bridgeVars, admissionVars, rerankVars, hermesVars, toolsVars>>
     \/ part = "admission" /\ A!AdmissionNext
        /\ UNCHANGED <<daemonVars, bridgeVars, rpcVars, rerankVars, hermesVars, toolsVars>>
     \/ part = "rerank" /\ R!RerankNext
        /\ UNCHANGED <<daemonVars, bridgeVars, rpcVars, admissionVars, hermesVars, toolsVars>>
     \/ part = "hermes" /\ H!HermesNext
        /\ UNCHANGED <<daemonVars, bridgeVars, rpcVars, admissionVars, rerankVars, toolsVars>>

\* The fairness of each module, of the part that runs.
CallsFairness ==
  /\ \A p \in Pids : WF_daemonVars(part = "daemon" /\ Step(p))
  /\ WF_bridgeVars(part = "bridge" /\ Provider)
  /\ \A t \in Threads : WF_bridgeVars(part = "bridge" /\ CallStep(t))
  /\ \A w \in Workers : /\ WF_bridgeVars(part = "bridge" /\ Serve(w))
                        /\ WF_bridgeVars(part = "bridge" /\ Reap(w))
  /\ \A c \in Callers : WF_toolsVars(part = "tools" /\ T!ToolStep(c))
  /\ \A h \in Helpers : WF_toolsVars(part = "tools" /\ T!Take(h))
  /\ \A x \in T!Threads : WF_toolsVars(part = "tools" /\ T!KeepStep(x))
  /\ \A id \in 1 .. MaxRequests : WF_rpcVars(part = "rpc" /\ P!Timeout(id))
  /\ WF_admissionVars(part = "admission" /\ A!Tick)
  /\ \A c \in Callers : WF_admissionVars(part = "admission" /\ A!Turn(c))
  /\ \A s \in Searches : WF_rerankVars(part = "rerank" /\ R!RerankTurn(s))
  /\ WF_hermesVars(part = "hermes" /\ H!Started)
  /\ \A w \in Pool : WF_hermesVars(part = "hermes" /\ H!Thread(w))

CallsSpec == CallsInit /\ [][CallsNext]_callsVars /\ CallsFairness

-----------------------------------------------------------------------------
(* The properties of the parts, by their names there.  OneWatcher and       *)
(* DaemonStarts are those of Daemon, NoDesync and OneWorker those of Bridge. *)

\* Every variable of a part is of its type.
AllTypesOK == /\ TypeOK /\ BridgeTypeOK /\ T!ToolsTypeOK
              /\ P!TypeOK /\ A!AdmissionTypeOK /\ R!RerankTypeOK /\ H!HermesTypeOK
\* No answer of the server is lost on the way (stdio-rpc.js:124), and no text
\* that brain_remember has queued; and callers share one brain (tools.py:325).
NoAnswerLost == P!NoAnswerLost /\ T!ToolsHold
\* Hits come in the order of scores that are their own (rerank.py:371).
RanksByOwnScore == R!RanksByOwnScore
\* Whatever hangs, a request of the plugin, a call of Brain.remember(), a search
\* and a text of the pool's queue end (stdio-rpc.js:64, base.py:112,
\* rerank.py:596, tools.py:528), the second within the time its caller gave it;
\* and so do the probe, a request and the shutdown of the bridge.
EveryCallEnds == /\ P!Settles /\ [][A!WakesInTime']_admissionVars /\ A!RememberReturns
                 /\ R!RerankReturns /\ T!QueuedEnds
\* The Hermes agent is never held up by the brain that is being made, and no
\* turn it hands over is lost without a word, unless remember() refuses it
\* (duckbot_brain/__init__.py:459).
AgentKeepsGoing == [][H!AgentNeverBuilds']_hermesVars /\ H!SessionStarts /\ H!TurnsKept
\* What brain_remember has queued is in the memory when the process has ended,
\* unless it was kept out or a write raised (openclaw_shim.py:27).
QueuedIsStored == T!QueuedIsStored
-----------------------------------------------------------------------------
MCBackends == <<"qwen", "local">>
EveryFault == [k \in FaultKinds |-> 1]
=============================================================================
