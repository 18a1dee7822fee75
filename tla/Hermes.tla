-------------------------------- MODULE Hermes --------------------------------
(***************************************************************************)
(* The memory provider of hermes/plugins/duckbot_brain: hooks that Hermes   *)
(* calls on the agent's thread, and an executor of two threads that warms   *)
(* up the brain and stores turns.  Both read and write _brain, _brain_ready *)
(* and _session_id, without a lock.                                         *)
(*                                                                          *)
(* Sessions and brains are numbers; what a turn says is left out.           *)
(***************************************************************************)
EXTENDS Naturals, Sequences

CONSTANTS Pool,         \* threads of _executor
          MaxSessions,  \* bound: calls of initialize()
          MaxTurns,     \* bound: turns of all sessions
          MaxBreaks,    \* bound: brains that cannot be made, memories not kept
          Nothing

VARIABLES session,      \* _session_id
          primary,      \* session -> its _agent_context is "primary"
          brain,        \* _brain: the number of a brain, or Nothing
          brains,       \* brains made so far
          ready,        \* _brain_ready
          agent,        \* where the agent's thread is
          jobs,         \* the queue of the executor
          work,         \* thread -> [job, at], or Nothing
          queued,       \* turns given to sync_turn() that it has queued
          stored,       \* [turn, under]: turns in memory, and their session there
          lost,         \* turns whose storing failed, which is logged
          refused,      \* turns that remember() answered it has not stored
          breaks

hermesVars == <<session, primary, brain, brains, ready, agent, jobs, work, queued, stored, lost, refused, breaks>>
sessionKept == <<session, primary, queued>>

Turns == [n : 1 .. MaxTurns, session : 1 .. MaxSessions]
Jobs  == [kind : {"warm"}] \cup [kind : {"turn", "rules"}, turn : Turns]

HermesTypeOK ==
  /\ session \in 0 .. MaxSessions /\ primary \in [1 .. MaxSessions -> BOOLEAN]
  /\ brain \in Nat \cup {Nothing} /\ brains \in Nat /\ ready \in BOOLEAN
  /\ agent \in {"free", "starting", "builds", "leaving", "gone"}
  /\ jobs \in Seq(Jobs)
  /\ work \in [Pool -> [job : Jobs, at : {"get", "build", "use"}] \cup {Nothing}]
  /\ queued \subseteq Turns /\ lost \subseteq Turns /\ refused \subseteq Turns
  /\ stored \subseteq [turn : Turns, under : 1 .. MaxSessions]
  /\ breaks \in 0 .. MaxBreaks

HermesInit ==
  /\ session = 0 /\ primary \in [1 .. MaxSessions -> BOOLEAN]
  /\ brain = Nothing /\ brains = 0 /\ ready = FALSE
  /\ agent = "free"
  /\ jobs = <<>> /\ work = [w \in Pool |-> Nothing]
  /\ queued = {} /\ stored = {} /\ lost = {} /\ refused = {}
  /\ breaks = 0

-----------------------------------------------------------------------------
(* The agent's thread.                                                     *)

Enqueue(j) == jobs' = Append(jobs, j)

\* initialize(): of a new session, or again.
Initialize ==
  /\ agent = "free" /\ session < MaxSessions
  /\ session' = session + 1
  /\ brain' = Nothing /\ ready' = FALSE
  /\ Enqueue([kind |-> "warm"])
  /\ UNCHANGED <<primary, brains, agent, work, queued, stored, lost, refused, breaks>>

\* Mutated form of Warmed: only _brain_ready is looked at.
WarmedOnce == ready

\* What prefetch() asks before it goes on.
Warmed == ready /\ brain # Nothing

\* prefetch(): _get_brain() builds a brain if there is none.
Prefetch ==
  /\ agent = "free" /\ session > 0 /\ Warmed
  /\ agent' = IF brain = Nothing THEN "builds" ELSE "free"
  /\ UNCHANGED <<session, primary, brain, brains, ready, jobs, work, queued, stored, lost, refused, breaks>>

\* sync_turn(), and on_session_end() with rules to keep.
SyncTurn(kind) ==
  /\ agent = "free" /\ session > 0 /\ primary[session]
  /\ \E n \in 1 .. MaxTurns :
       /\ \A t \in queued : t.n < n
       /\ n = 1 \/ \E t \in queued : t.n = n - 1
       /\ LET t == [n |-> n, session |-> session] IN
          /\ Enqueue([kind |-> kind, turn |-> t])
          /\ queued' = queued \cup {t}
  /\ UNCHANGED <<session, primary, brain, brains, ready, agent, work, stored, lost, refused, breaks>>

\* on_session_start(): a brain that is not warm is waited for.
SessionStart ==
  /\ agent = "free"
  /\ agent' = IF Warmed THEN "free" ELSE "starting"
  /\ UNCHANGED <<session, primary, brain, brains, ready, jobs, work, queued, stored, lost, refused, breaks>>

\* The brain is ready or the time is up; without a brain the answer is empty.
Started ==
  /\ agent = "starting"
  /\ agent' = "free"
  /\ UNCHANGED <<session, primary, brain, brains, ready, jobs, work, queued, stored, lost, refused, breaks>>

\* shutdown(): the executor takes no more and is waited for.
Leave ==
  /\ agent = "free"
  /\ agent' = "leaving"
  /\ UNCHANGED <<session, primary, brain, brains, ready, jobs, work, queued, stored, lost, refused, breaks>>

Left ==
  /\ agent = "leaving" /\ jobs = <<>> /\ \A w \in Pool : work[w] = Nothing
  /\ agent' = "gone"
  /\ UNCHANGED <<session, primary, brain, brains, ready, jobs, work, queued, stored, lost, refused, breaks>>

-----------------------------------------------------------------------------
(* The executor.                                                           *)

Go(w, p) == work' = [work EXCEPT ![w].at = p]
End(w)   == work' = [work EXCEPT ![w] = Nothing]

Take(w) ==
  /\ work[w] = Nothing /\ jobs # <<>>
  /\ work' = [work EXCEPT ![w] = [job |-> Head(jobs), at |-> "get"]]
  /\ jobs' = Tail(jobs)
  /\ UNCHANGED <<sessionKept, brain, brains, ready, agent, stored, lost, refused, breaks>>

\* _get_brain(): looked at, then made, which another thread may do as well.
GetBrain(w) ==
  /\ work[w] # Nothing /\ work[w].at = "get"
  /\ Go(w, IF brain = Nothing THEN "build" ELSE "use")
  /\ UNCHANGED <<sessionKept, brain, brains, ready, agent, jobs, stored, lost, refused, breaks>>

Built(w) ==
  /\ work[w] # Nothing /\ work[w].at = "build"
  /\ brains' = brains + 1 /\ brain' = brains + 1
  /\ Go(w, "use")
  /\ UNCHANGED <<sessionKept, ready, agent, jobs, stored, lost, refused, breaks>>

Lost(j) == lost' = IF j.kind = "warm" THEN lost ELSE lost \cup {j.turn}

\* An exception ends the job; a warm-up leaves ready as it is.
Fails(w) ==
  /\ work[w] # Nothing /\ work[w].at \in {"build", "use"}
  /\ breaks < MaxBreaks /\ breaks' = breaks + 1
  /\ work[w].at = "build" \/ work[w].job.kind # "warm"
  /\ Lost(work[w].job)
  /\ End(w)
  /\ UNCHANGED <<sessionKept, brain, brains, ready, agent, jobs, stored, refused>>

\* _warm_brain_background(): its recall is done, or has failed.
Warm(w) ==
  /\ work[w] # Nothing /\ work[w].at = "use" /\ work[w].job.kind = "warm"
  /\ ready' = TRUE
  /\ End(w)
  /\ UNCHANGED <<sessionKept, brain, brains, agent, jobs, stored, lost, refused, breaks>>

\* _sync_turn_blocking() names the session of now, _remember_blocking() that
\* of its call.  remember() may answer that it has not stored the text, as too
\* many came or it looks like an injection; neither looks at its answer.
Store(w) ==
  /\ work[w] # Nothing /\ work[w].at = "use" /\ work[w].job.kind # "warm"
  /\ LET j == work[w].job IN
       \/ /\ stored' = stored \cup
               {[turn |-> j.turn, under |-> IF j.kind = "turn" THEN session ELSE j.turn.session]}
          /\ UNCHANGED refused
       \/ refused' = refused \cup {j.turn} /\ UNCHANGED stored
  /\ End(w)
  /\ UNCHANGED <<sessionKept, brain, brains, ready, agent, jobs, lost, breaks>>

Thread(w) == Take(w) \/ GetBrain(w) \/ Built(w) \/ Warm(w) \/ Store(w)

HermesNext ==
  \/ Initialize \/ Prefetch \/ SessionStart \/ Started \/ Leave \/ Left
  \/ \E kind \in {"turn", "rules"} : SyncTurn(kind)
  \/ \E w \in Pool : Thread(w) \/ Fails(w)

\* Threads run, and the wait of a session start has a deadline.
HermesFairness == WF_hermesVars(Started) /\ \A w \in Pool : WF_hermesVars(Thread(w))

-----------------------------------------------------------------------------
(* Properties.                                                             *)

\* The agent's thread never builds a brain for a prefetch, although a warm-up
\* of the session before may set _brain_ready when _brain was cleared again.
AgentNeverBuilds == agent # "builds"

\* A session start returns, with a brain that never becomes ready as well.
SessionStarts == []<>(agent # "starting")

\* A turn that sync_turn() has taken is stored, or its failure is logged, or
\* remember() has refused it, even when the agent leaves with the queue full.
TurnsKept ==
  []<>(\A t \in queued : t \in lost \cup refused \/ \E e \in stored : e.turn = t)

=============================================================================
