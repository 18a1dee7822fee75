-------------------------------- MODULE Daemon --------------------------------
(***************************************************************************)
(* The life of the watcher process (src/src/watcher.py, POSIX branch): the *)
(* commands daemon, run, stop and status, which know of a running watcher  *)
(* only through the pid that it wrote to data/watcher.pid.                 *)
(*                                                                         *)
(* A process is its pid.  Pids are recycled: the process that gets the pid *)
(* of a dead watcher may have nothing to do with this program.  Commands   *)
(* are separate processes that take no lock, so they interleave between    *)
(* any two system calls on the file; write_text is one step.               *)
(***************************************************************************)
EXTENDS Naturals

CONSTANTS Pids, Absent

ASSUME AbsentAssumption == Absent \notin Pids

VARIABLES
  file,  \* data/watcher.pid: the pid in it, or Absent
  role,  \* what each process is
  at,    \* the next thing it does
  seen,  \* the pid a command has read
  trouble \* history: whether anything has disturbed daemon and status

vars == <<file, role, at, seen, trouble>>

Readers == {"daemon", "stop", "status"}
Commands == Readers \cup {"run"}
\* The process of `run` and the grandchild of `daemon` become watchers.
Hosts == {"run", "grandchild"}
Foreign == {"none", "stranger"}

\* What they are not written for: another command, or two at once (Misuse); a
\* command that dies, or a pid that is used again (Mishap).
None == 0
Mishap == 1
Misuse == 2
Met(event) == trouble' = IF event > trouble THEN event ELSE trouble

Init ==
  /\ file = Absent
  /\ role = [p \in Pids |-> "none"]
  /\ at = [p \in Pids |-> "end"]
  /\ seen = [p \in Pids |-> Absent]
  /\ trouble = None

Watching(p) == role[p] \in Hosts /\ at[p] = "watching"
\* A process of this program, other than a watcher that is on record.
Busy(p) == role[p] \notin Foreign /\ at[p] # "watching"

Goto(p, place) == at' = [at EXCEPT ![p] = place] /\ UNCHANGED role
Exit(p) ==
  /\ role' = [role EXCEPT ![p] = "none"]
  /\ at' = [at EXCEPT ![p] = "end"]
  /\ seen' = [seen EXCEPT ![p] = Absent]

-----------------------------------------------------------------------------

\* A command is run, perhaps while another one is at work.
Launch(p, c) ==
  /\ role[p] = "none"
  /\ role' = [role EXCEPT ![p] = c]
  /\ at' = [at EXCEPT ![p] = IF c \in Readers THEN "look" ELSE "write"]
  /\ Met(IF c \in {"run", "stop"} \/ \E q \in Pids : Busy(q) THEN Misuse
         ELSE IF p = file THEN Mishap ELSE None)
  /\ UNCHANGED <<file, seen>>

\* Mutant of Look: cmd_daemon goes ahead whatever the file says.
LookAway(p) ==
  /\ at[p] = "look"
  /\ Goto(p, IF role[p] = "daemon" THEN "fork" ELSE "read")
  /\ UNCHANGED <<file, seen, trouble>>

\* PID_PATH.exists(): without a record stop and status have nothing to do.
Look(p) ==
  /\ at[p] = "look"
  /\ \/ file # Absent /\ Goto(p, "read") /\ UNCHANGED seen
     \/ file = Absent /\ role[p] = "daemon" /\ Goto(p, "fork") /\ UNCHANGED seen
     \/ file = Absent /\ role[p] # "daemon" /\ Exit(p)
  /\ UNCHANGED <<file, trouble>>

\* read_text(): raises when the file has gone since.
Read(p) ==
  /\ at[p] = "read"
  /\ IF file = Absent
       THEN Exit(p)
       ELSE seen' = [seen EXCEPT ![p] = file] /\ Goto(p, "signal")
  /\ UNCHANGED <<file, trouble>>

\* Mutant of Probe: any record is taken for a running watcher.
ProbeRefuses(p) ==
  /\ at[p] = "signal" /\ role[p] \in {"daemon", "status"}
  /\ Exit(p)
  /\ UNCHANGED <<file, trouble>>

\* daemon and status: kill(pid, 0).  A process alive ends the command; one of
\* another user raises PermissionError, which counts as dead.
Probe(p) ==
  /\ at[p] = "signal" /\ role[p] \in {"daemon", "status"}
  /\ \/ role[seen[p]] # "none" /\ Exit(p)
     \/ role[seen[p]] \in Foreign /\ Goto(p, "unlink") /\ UNCHANGED seen
  /\ UNCHANGED <<file, trouble>>

\* stop: kill(pid, SIGTERM), which kills whatever does not ignore it: run and
\* the commands install no handler, the grandchild of daemon ignores it, and a
\* stranger may do either (or be of another user).
Terminate(p) ==
  LET target == seen[p]
      killed == {target} \ {q \in Pids : role[q] \in {"none", "grandchild"}} IN
  /\ at[p] = "signal" /\ role[p] = "stop"
  /\ \E dead \in {killed, killed \ {q \in Pids : role[q] = "stranger"}} :
       /\ role' = [q \in Pids |-> IF q \in dead THEN "none" ELSE role[q]]
       /\ at' = [q \in Pids |-> IF q \in dead THEN "end"
                                ELSE IF q = p THEN "unlink" ELSE at[q]]
       /\ seen' = [q \in Pids |-> IF q \in dead THEN Absent ELSE seen[q]]
  /\ UNCHANGED <<file, trouble>>

\* The record is removed, whatever it says by now.
Unlink(p) ==
  /\ at[p] = "unlink"
  /\ file' = Absent
  /\ IF role[p] = "daemon" THEN Goto(p, "fork") /\ UNCHANGED seen ELSE Exit(p)
  /\ UNCHANGED trouble

\* The double fork.  The command then polls the file for two seconds at most,
\* which changes nothing, and ends.
Fork(p) ==
  /\ at[p] = "fork"
  /\ \E q \in Pids :
       /\ role[q] = "none"
       /\ role' = [role EXCEPT ![p] = "none", ![q] = "grandchild"]
       /\ at' = [at EXCEPT ![p] = "end", ![q] = "write"]
       /\ seen' = [seen EXCEPT ![p] = Absent]
  /\ UNCHANGED <<file, trouble>>

\* The watcher records itself, and watches.
Write(p) ==
  /\ at[p] = "write"
  /\ file' = p
  /\ Goto(p, "watching")
  /\ UNCHANGED <<seen, trouble>>

\* The finally clauses, after an exception or SIGINT: the grandchild removes the
\* record; run looks whether there is one first (clear_pid).
Finish(p) ==
  /\ Watching(p)
  /\ IF role[p] = "run" /\ file # Absent
       THEN Goto(p, "unlink") /\ UNCHANGED <<file, seen>>
       ELSE Exit(p) /\ file' = Absent
  /\ UNCHANGED trouble

-----------------------------------------------------------------------------
(* The machine. *)

\* A process dies without its finally clauses: SIGKILL, or a crash of a library.
Crash(p) ==
  /\ role[p] \notin Foreign
  /\ Exit(p)
  /\ Met(IF Busy(p) THEN Mishap ELSE None)
  /\ UNCHANGED file

\* Another program gets the pid, and exits.
Recycle(p) ==
  /\ role[p] = "none"
  /\ role' = [role EXCEPT ![p] = "stranger"]
  /\ Met(Mishap)
  /\ UNCHANGED <<file, at, seen>>
StrangerExits(p) ==
  /\ role[p] = "stranger"
  /\ Exit(p)
  /\ UNCHANGED <<file, trouble>>

Step(p) ==
  Look(p) \/ Read(p) \/ Probe(p) \/ Terminate(p) \/ Unlink(p) \/ Fork(p) \/ Write(p)
Machine(p) == Crash(p) \/ Recycle(p) \/ StrangerExits(p)

Next ==
  \E p \in Pids : Step(p) \/ Finish(p) \/ Machine(p) \/ \E c \in Commands : Launch(p, c)

Spec == Init /\ [][Next]_vars

\* A process that has something to do next gets to do it; nothing has to be
\* run, to end or to fail.
FairSpec == Spec /\ \A p \in Pids : WF_vars(Step(p))

-----------------------------------------------------------------------------

\* Every variable has its type, and only commands are at the steps of commands.
TypeOK ==
  /\ file \in Pids \cup {Absent}
  /\ role \in [Pids -> Commands \cup Hosts \cup Foreign]
  /\ at \in [Pids -> {"end", "look", "read", "signal", "unlink", "fork", "write", "watching"}]
  /\ seen \in [Pids -> Pids \cup {Absent}]
  /\ trouble \in {None, Mishap, Misuse}
  /\ \A p \in Pids : at[p] = "signal" => role[p] \in Readers /\ seen[p] \in Pids
  /\ \A p \in Pids : at[p] \in {"look", "read"} => role[p] \in Readers

\* One watcher at a time, as long as only daemon and status are used, one
\* command at a time: through crashes that leave a record behind, recycled
\* pids, and watchers that end while a command looks for them.
OneWatcher ==
  trouble # Misuse => \A p, q \in Pids : Watching(p) /\ Watching(q) => p = q

(* What it rests on. *)

\* One process is between two steps.
OneBusy == \A p, q \in Pids : Busy(p) /\ Busy(q) => p = q
\* A running watcher is on record.
Recorded == \A p \in Pids : Watching(p) => file = p
\* A command that has seen a pid has seen the one that runs, if any.
SeenRuns == \A p, q \in Pids : at[p] = "signal" /\ Watching(q) => seen[p] = q
\* None runs once the record is to be removed or a new one to be written.
Clear == \A p, q \in Pids : at[p] \in {"unlink", "fork", "write"} => ~Watching(q)
\* No process of another command is there.
Only ==
  \A p \in Pids :
    /\ role[p] \in {"daemon", "status", "grandchild"} \cup Foreign
    /\ role[p] \in Foreign <=> at[p] = "end"

\* The inductive invariant behind OneWatcher.
IndInv == TypeOK /\ (trouble # Misuse => OneBusy /\ Recorded /\ SeenRuns /\ Clear /\ Only)

\* `watcher daemon`, run while no watcher is, ends with one running, whatever
\* record an earlier one has left, if nothing but daemon and status is run, one
\* at a time and to the end, and no recorded pid is used again.
DaemonStarts ==
  (\E p \in Pids : role[p] = "daemon" /\ at[p] = "look") /\ (\A p \in Pids : ~Watching(p))
    ~> ((\E p \in Pids : Watching(p)) \/ trouble # None)

===============================================================================
