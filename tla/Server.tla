-------------------------------- MODULE Server --------------------------------
(***************************************************************************)
(* The MCP server: the loop of mcp_stdio() in src/mcp_server.py, with the   *)
(* rate limiter it asks before a handler runs (Limits) and the event store  *)
(* of src/events.py it writes to around each call.  A step is what runs     *)
(* between two accesses to something other programs see: the input, the     *)
(* clock, the event database, the output.                                   *)
(*                                                                          *)
(* Events are best effort.  The database may refuse writes for a while      *)
(* (another process holds it), or its directory cannot be made.             *)
(***************************************************************************)
EXTENDS RateLimiter

CONSTANTS Lines,       \* what the client may send, numbered in order
          Kind,        \* line -> what it is, see Kinds
          ToolOf,      \* line -> the tool that a call names
          RestartTool, \* the tool brain_restart
          NoId, Silent,
          NoLine,
          MaxPipe,     \* bound: lines sent ahead of the server
          MaxFaults    \* bound: how often the event database changes
                       \* its mind, and how often the process is killed

Kinds == {"initialize", "notification", "list", "unknown", "call",
          "delegated",   \* a tool without a handler: tools.dispatch()
          "junk",        \* not JSON
          "malformed"}   \* JSON, but not an object, or a call whose params are none

ASSUME ServerAssumption ==
  /\ Kind \in [Lines -> Kinds]
  /\ ToolOf \in [Lines -> Limited]
  /\ Lines \subseteq Nat
  /\ NoId \notin Lines /\ Silent \notin Lines /\ NoLine \notin Lines
  /\ MaxFaults \in Nat /\ MaxPipe \in Nat

VARIABLES inbox,      \* lines in the pipe
          at,         \* where the loop is
          line,       \* the line being served
          reply,      \* id of the answer to it: the line, or NoId
          failed,     \* its handler raised
          restarting, \* _restart_requested
          session,    \* _current_session_id
          store,      \* _event_store_singleton is there
          disk,       \* "ok" | "locked" | "readonly"
          events,     \* rows of events.db: type, line, session
          taken,      \* history: lines read, less those a dead process held
          answers,    \* history: the answer to each of them
          faults

serverVars == <<inbox, at, line, reply, failed, restarting, session, store,
                disk, events, taken, answers, faults>>
limiterVars == <<timeVars, toolVars>>
serving == <<limiterVars, serverVars>>

Places == {"read", "initialize", "rate", "pre", "run", "post", "write", "leave", "gone", "dead"}

\* The process has left its loop, or was killed.
Down == at \in {"gone", "dead"}

ServerTypeOK ==
  /\ inbox \in Seq(Lines)
  /\ at \in Places
  /\ line \in Lines \cup {NoLine}
  /\ reply \in Lines \cup {NoId}
  /\ failed \in BOOLEAN /\ restarting \in BOOLEAN /\ store \in BOOLEAN
  /\ session \in Lines \cup {NoLine}
  /\ disk \in {"ok", "locked", "readonly"}
  /\ events \in Seq([type : {"session_start", "pre_tool_use", "post_tool_use", "tool_error"},
                     line : Lines, session : Lines \cup {NoLine}])
  /\ taken \in Seq(Lines)
  /\ answers \in Seq(Lines \cup {NoId, Silent})
  /\ faults \in 0 .. MaxFaults

ServerInit ==
  /\ LimiterInit
  /\ inbox = <<>> /\ at = "read" /\ line = NoLine /\ reply = NoId
  /\ failed = FALSE /\ restarting = FALSE /\ session = NoLine
  /\ disk \in {"ok", "readonly"} /\ store = (disk # "readonly")
  /\ events = <<>> /\ taken = <<>> /\ answers = <<>> /\ faults = 0

-----------------------------------------------------------------------------
(* The event store.                                                        *)

\* _get_event_store(): made once, when its directory can be made.
StoreNow == store \/ disk # "readonly"

\* record_event(): a row, or an exception when the database refuses it.
Records == disk = "ok"
Row(type) == [type |-> type, line |-> line, session |-> session]

\* The guarded call around a tool: no store and an exception are the same.
Note(type, s) ==
  events' = IF s /\ Records THEN Append(events, Row(type)) ELSE events

-----------------------------------------------------------------------------
(* The loop.                                                               *)

Send(l) ==
  /\ ~ Down /\ Len(inbox) < MaxPipe
  /\ \A i \in DOMAIN taken : taken[i] < l
  /\ \A i \in DOMAIN inbox : inbox[i] < l
  /\ inbox' = Append(inbox, l)
  /\ UNCHANGED <<limiterVars, at, line, reply, failed, restarting, session, store,
                 disk, events, taken, answers, faults>>

\* Notifications and lines that do not parse are passed over.
Skip ==
  /\ at = "read" /\ inbox # <<>>
  /\ Kind[Head(inbox)] \in {"notification", "junk"}
  /\ inbox' = Tail(inbox)
  /\ taken' = Append(taken, Head(inbox))
  /\ answers' = Append(answers, Silent)
  /\ UNCHANGED <<limiterVars, at, line, reply, failed, restarting, session, store,
                 disk, events, faults>>

\* Where a line goes, and the id its answer will have.
Read ==
  /\ at = "read" /\ inbox # <<>>
  /\ LET l == Head(inbox) IN
       /\ Kind[l] \notin {"notification", "junk"}
       /\ line' = l
       /\ inbox' = Tail(inbox)
       /\ taken' = Append(taken, l)
       /\ at' = CASE Kind[l] = "initialize" -> "initialize"
                  [] Kind[l] = "call"       -> "rate"
                  [] OTHER                  -> "write"
       /\ reply' = IF Kind[l] = "malformed" THEN NoId ELSE l
  /\ failed' = FALSE
  /\ UNCHANGED <<limiterVars, restarting, session, store, disk, events, answers, faults>>

\* The row of the new session is written without a guard: an exception is
\* answered by the loop's own handler, which does not know the id.
Initialize ==
  /\ at = "initialize"
  /\ session' = line
  /\ IF store /\ Records
       THEN events' = Append(events, [Row("session_start") EXCEPT !.session = line])
       ELSE UNCHANGED events
  /\ reply' = IF store /\ ~ Records THEN NoId ELSE line
  /\ at' = "write"
  /\ UNCHANGED <<limiterVars, inbox, line, failed, restarting, store, disk,
                 taken, answers, faults>>

\* _check_rate_limit_or_error(): a call that is refused is answered at once.
Rate ==
  /\ at = "rate"
  /\ \/ Grant(ToolOf[line]) /\ at' = "pre"
     \/ Refuse(ToolOf[line]) /\ at' = "write"
  /\ UNCHANGED <<timeVars, inbox, line, reply, failed, restarting,
                 session, store, disk, events, taken, answers, faults>>

Pre ==
  /\ at = "pre"
  /\ store' = StoreNow
  /\ Note("pre_tool_use", StoreNow)
  /\ at' = "run"
  /\ UNCHANGED <<limiterVars, inbox, line, reply, failed, restarting, session, disk,
                 taken, answers, faults>>

\* The handler returns or raises; brain_restart sets the flag.
Run ==
  /\ at = "run"
  /\ \/ /\ failed' = FALSE
        /\ restarting' = (restarting \/ ToolOf[line] = RestartTool)
     \/ failed' = TRUE /\ UNCHANGED restarting
  /\ at' = "post"
  /\ UNCHANGED <<limiterVars, inbox, line, reply, session, store, disk, events,
                 taken, answers, faults>>

\* Mutated form of Post: an event that cannot be written is an error.
PostUnguarded ==
  /\ at = "post"
  /\ Note(IF failed THEN "tool_error" ELSE "post_tool_use", store)
  /\ reply' = IF store /\ ~ Records THEN NoId ELSE reply
  /\ at' = "write"
  /\ UNCHANGED <<limiterVars, inbox, line, failed, restarting, session, store,
                 disk, taken, answers, faults>>

\* Mutated form of Post: the loop is left at once when the flag is set.
PostAndLeave ==
  /\ at = "post"
  /\ Note(IF failed THEN "tool_error" ELSE "post_tool_use", store)
  /\ at' = IF restarting THEN "leave" ELSE "write"
  /\ UNCHANGED <<limiterVars, inbox, line, reply, failed, restarting, session, store,
                 disk, taken, answers, faults>>

Post ==
  /\ at = "post"
  /\ Note(IF failed THEN "tool_error" ELSE "post_tool_use", store)
  /\ at' = "write"
  /\ UNCHANGED <<limiterVars, inbox, line, reply, failed, restarting, session, store,
                 disk, taken, answers, faults>>

\* The answer is written and flushed before the flag is looked at.
Write ==
  /\ at = "write"
  /\ answers' = Append(answers, reply)
  /\ at' = IF restarting THEN "leave" ELSE "read"
  /\ line' = NoLine
  /\ UNCHANGED <<limiterVars, inbox, reply, failed, restarting, session, store, disk,
                 events, taken, faults>>

\* The loop is left, with a farewell that answers nothing.
Leave ==
  /\ at = "leave"
  /\ at' = "gone"
  /\ UNCHANGED <<limiterVars, inbox, line, reply, failed, restarting, session, store,
                 disk, events, taken, answers, faults>>

Serve == Leave \/ Skip \/ Read \/ Initialize \/ Rate \/ Pre \/ Run \/ Post \/ Write

-----------------------------------------------------------------------------
(* What happens to it.                                                     *)

DiskChanges ==
  /\ faults < MaxFaults
  /\ \E d \in {"ok", "locked"} \ {disk} : disk' = d
  /\ faults' = faults + 1
  /\ UNCHANGED <<limiterVars, inbox, at, line, reply, failed, restarting, session,
                 store, events, taken, answers>>

\* So it ends, too, when the client closes its input.
Killed ==
  /\ ~ Down /\ faults < MaxFaults
  /\ at' = "dead"
  /\ faults' = faults + 1
  /\ UNCHANGED <<limiterVars, inbox, line, reply, failed, restarting, session,
                 store, disk, events, taken, answers>>

\* The shim spawns another process: the pipe is new, nothing is remembered,
\* and the buckets are full again.
Boot ==
  /\ Down
  /\ at' = "read" /\ inbox' = <<>> /\ line' = NoLine /\ reply' = NoId
  /\ failed' = FALSE /\ restarting' = FALSE /\ session' = NoLine
  /\ store' = (disk # "readonly")
  /\ taken' = SubSeq(taken, 1, Len(answers))
  /\ bucket' = [t \in Limited |-> Missing]
  /\ granted' = [t \in Limited |-> <<>>]
  /\ promised' = [t \in Limited |-> Never]
  /\ UNCHANGED <<timeVars, disk, events, answers, faults>>

ServerNext ==
  \/ (Tick \/ SetClock) /\ UNCHANGED serverVars
  \/ \E l \in Lines : Send(l)
  \/ Serve
  \/ DiskChanges \/ Killed \/ Boot

ServerSpec == ServerInit /\ [][ServerNext]_serving

-----------------------------------------------------------------------------
(* Properties.                                                             *)

\* The lines a server that is up has read or will read; when it is gone, what
\* it did not answer is lost.
Asked == IF Down THEN SubSeq(taken, 1, Len(answers)) ELSE taken \o inbox

Restarts == {l \in Lines : Kind[l] = "call" /\ ToolOf[l] = RestartTool}

Process ==
  CASE at = "leave" -> "leaving"
    [] at = "gone"  -> "left"
    [] at = "dead"  -> "killed"
    [] OTHER        -> "up"

S == INSTANCE Service WITH asked <- Asked, process <- Process

\* The server answers lines one at a time and in order, each once at most, and
\* never another request's.  It leaves its loop for nothing but brain_restart,
\* and not before that request, the last one served, has its answer
\* (mcp_server.py:2767); only when it is killed are answers owed.
ImplementsService == S!Spec

\* A call of a tool is answered with its own id whether the handler raises,
\* the limiter refuses it or the event store fails (mcp_server.py:2705).
CallsAnswered ==
  \A i \in DOMAIN answers :
    Kind[taken[i]] \in {"call", "delegated"} => answers[i] = taken[i]

\* A call of a tool is answered with its own id, whatever fails around it
\* (mcp_server.py:2705).
AnswersHold == ServerTypeOK /\ CallsAnswered
=============================================================================
