------------------------------- MODULE Sessions -------------------------------
(***************************************************************************)
(* The distillation of session logs: ingest_files() of                      *)
(* src/session_ingest.py, which remembers the facts, episodes and           *)
(* intentions a model finds in each log that has changed since the time in  *)
(* its state file.  One run at a time, which may be killed; the sessions    *)
(* go on meanwhile.  A log is the number of its turns, and each turn moves  *)
(* its modification time.                                                   *)
(***************************************************************************)
EXTENDS Naturals

CONSTANTS Logs,        \* session logs
          MaxTurns,    \* bound: turns of a log
          MaxFailures  \* bound: failures and kills

VARIABLES turns,       \* log -> turns
          saved,       \* log -> modification time in the state file
          dist,        \* the run: [step, left, log, seen, got, state]
          distilled,   \* log -> turns of which the facts are stored
          missed,      \* history: logs that a read or the model failed for
          failures

sessionVars == <<turns, saved, dist, distilled, missed, failures>>

NoState == [s \in Logs |-> 0]
NoDist  == [step |-> "idle", left |-> {}, log |-> CHOOSE s \in Logs : TRUE, seen |-> 0, got |-> 0,
            state |-> NoState]

SessionsTypeOK ==
  /\ turns \in [Logs -> 0 .. MaxTurns] /\ saved \in [Logs -> 0 .. MaxTurns]
  /\ distilled \in [Logs -> 0 .. MaxTurns] /\ missed \subseteq Logs
  /\ dist.log \in Logs /\ dist.left \subseteq Logs
  /\ failures \in 0 .. MaxFailures

SessionsInit ==
  /\ turns = NoState /\ saved = NoState /\ dist = NoDist
  /\ distilled = NoState /\ missed = {} /\ failures = 0

Calm   == UNCHANGED failures
Mishap == failures < MaxFailures /\ failures' = failures + 1

Turn(s) ==
  /\ turns[s] < MaxTurns
  /\ turns' = [turns EXCEPT ![s] = @ + 1]
  /\ UNCHANGED <<saved, dist, distilled, missed>> /\ Calm

DistStart ==
  /\ dist.step = "idle"
  /\ dist' = [NoDist EXCEPT !.step = "next", !.left = Logs, !.state = saved]
  /\ UNCHANGED <<turns, saved, distilled, missed>> /\ Calm

\* The modification time is taken, and compared ...
DistStat ==
  /\ dist.step = "next"
  /\ \E s \in dist.left :
       dist' = [dist EXCEPT !.left = @ \ {s}, !.log = s, !.seen = turns[s],
                            !.step = IF dist.state[s] = turns[s] THEN "next" ELSE "read"]
  /\ UNCHANGED <<turns, saved, distilled, missed>> /\ Calm

\* ... and then the text is read; what cannot be read is an empty log.
DistRead ==
  /\ dist.step = "read"
  /\ \/ dist' = [dist EXCEPT !.step = "distil", !.got = turns[dist.log]] /\ UNCHANGED missed /\ Calm
     \/ dist' = [dist EXCEPT !.step = "mark", !.got = 0] /\ missed' = missed \cup {dist.log} /\ Mishap
  /\ UNCHANGED <<turns, saved, distilled>>

\* Facts, episodes and intentions are remembered, none if the model does not
\* answer; if remember() raises the run is over, and nothing was saved.
DistDistil ==
  /\ dist.step = "distil"
  /\ \/ /\ distilled' = [distilled EXCEPT ![dist.log] = dist.got]
        /\ dist' = [dist EXCEPT !.step = "mark"] /\ UNCHANGED missed /\ Calm
     \/ /\ dist' = [dist EXCEPT !.step = "mark"]
        /\ missed' = missed \cup {dist.log} /\ Mishap /\ UNCHANGED distilled
     \/ dist' = NoDist /\ UNCHANGED <<distilled, missed>> /\ Mishap
  /\ UNCHANGED <<turns, saved>>

DistMark ==
  /\ dist.step = "mark"
  /\ dist' = [dist EXCEPT !.step = "next", !.state[dist.log] = dist.seen]
  /\ UNCHANGED <<turns, saved, distilled, missed>> /\ Calm

\* The state is written once, in place: killed in the middle, it is empty.
DistSave ==
  /\ dist.step = "next" /\ dist.left = {}
  /\ \/ saved' = dist.state /\ Calm
     \/ saved' = NoState /\ Mishap
  /\ dist' = NoDist
  /\ UNCHANGED <<turns, distilled, missed>>

DistKilled ==
  /\ dist.step # "idle" /\ dist' = NoDist /\ Mishap
  /\ UNCHANGED <<turns, saved, distilled, missed>>

SessionsNext ==
  \/ \E s \in Logs : Turn(s)
  \/ DistStart \/ DistStat \/ DistRead \/ DistDistil \/ DistMark \/ DistSave \/ DistKilled

-----------------------------------------------------------------------------
(* Properties.                                                             *)

\* A log that later runs would pass over has been distilled to its end,
\* whatever was written to it meanwhile and wherever a run was killed, unless
\* it could not be read or the model gave no answer (session_ingest.py:172).
SkippedIsDistilled ==
  \A s \in Logs : saved[s] = turns[s] => distilled[s] = turns[s] \/ s \in missed
=============================================================================
