-------------------------------- MODULE Tools --------------------------------
(***************************************************************************)
(* The memory tools an agent calls (src/src/extensions/tools.py), through   *)
(* one of four doors: the JSON-RPC adapter and the brain worker, whose      *)
(* loops answer a line at a time, the command `openclaw <verb>`, a process  *)
(* for one call, or the plugin of a host whose threads call dispatch().     *)
(* The verb `call` goes to handle() of src/src/connectors/openclaw.py       *)
(* instead, and the worker has operations of its own: these have a Brain of *)
(* their own and keep a text while the caller waits.                        *)
(*                                                                         *)
(* brain_remember gives its text to a pool of two threads and answers       *)
(* "queued" at once.  What becomes of the text nobody is told.  When the    *)
(* process ends the interpreter lets the pool finish, but takes no new work *)
(* for any executor, and MemoryStore.add_chunks() needs one.                *)
(*                                                                         *)
(* A text is a number.  The bucket of remember() and the scan are those of  *)
(* Admission, the write path that of Remember: here each has an outcome.    *)
(***************************************************************************)
EXTENDS Naturals, Sequences

CONSTANTS Callers,    \* threads that call tools; the adapter and a verb have one
          MaxTexts,   \* bound: texts to remember
          Helpers,    \* threads of _REMEMBER_POOL
          MaxBreaks,  \* bound: brains that cannot be made, writes that raise
          Nobody      \* no thread, no text

VARIABLES door,     \* "adapter" | "worker" | "verb" | "host"
          life,     \* the process: "up" | "leaving" | "gone" | "killed"
          made,     \* brains that _get_brain() has made
          core,     \* _BRAIN is one of them
          latch,    \* who holds _BRAIN_LOCK
          place,    \* thread -> where it is
          ask,      \* caller -> the call: its tool, and whether dispatch() is passed by
          text,     \* thread -> the text it keeps, or Nobody
          texts,    \* texts given to remember so far
          backlog,  \* the queue of _REMEMBER_POOL
          answer,   \* text -> what its caller was told
          fate,     \* text -> what became of it
          hidden,   \* texts for which an older near duplicate is marked superseded
          slips     \* brains and writes that have failed

toolsVars == <<door, life, made, core, latch, place, ask, text, texts, backlog, answer, fate, hidden, slips>>
brainVars == <<made, core, latch>>
textVars  == <<text, texts, backlog, answer, fate, hidden>>

Threads == Callers \cup Helpers
Texts   == 1 .. MaxTexts
Doors   == {"adapter", "worker", "verb", "host"}
\* What is called: a tool that is not there, brain_remember, the same with
\* kind="skill_candidate", and the rest: arguments that are refused, and tools
\* that keep no text.
Kinds   == {"unknown", "remember", "candidate", "other"}
\* A thread without a call; a verb has one call and no more.
NoCall  == [tool |-> IF door = "verb" THEN "done" ELSE "none", direct |-> FALSE]
Places  == {"idle", "look", "lock", "build", "run", "bucket", "mark", "add"}
\* Where a text is on its way into the memory.
Keeping == {"bucket", "mark", "add"}

ToolsInit ==
  /\ door \in Doors /\ life = "up"
  /\ made = 0 /\ core = FALSE /\ latch = Nobody
  /\ place = [x \in Threads |-> "idle"]
  /\ ask = [c \in Callers |-> [tool |-> "none", direct |-> FALSE]]
  /\ text = [x \in Threads |-> Nobody]
  /\ texts = 0 /\ backlog = <<>>
  /\ answer = [t \in Texts |-> "none"] /\ fate = [t \in Texts |-> "none"]
  /\ hidden = {} /\ slips = 0

Alive == life \in {"up", "leaving"}
GoTo(x, p) == place' = [place EXCEPT ![x] = p]
\* A call of c is over, or thread x has kept its text.
Over(x) ==
  /\ GoTo(x, "idle")
  /\ ask' = IF x \in Callers THEN [ask EXCEPT ![x] = NoCall] ELSE ask
Break == slips < MaxBreaks /\ slips' = slips + 1

-----------------------------------------------------------------------------
(* A call, up to the brain.                                                 *)

\* A line of the adapter or of the worker, a verb with its arguments, or
\* handle_tool_call().  A call that check_rate_limit() refuses, which only the
\* adapter and the host ask, goes no further and is not one.
Call(c) ==
  /\ life = "up" /\ place[c] = "idle"
  /\ door # "host" => \A x \in Callers \ {c} : place[x] = "idle"
  /\ door = "verb" => \A x \in Callers : ask[x].tool = "none"
  /\ \E k \in Kinds, direct \in BOOLEAN :
       /\ direct => door \in {"worker", "verb"}
       /\ ask' = [ask EXCEPT ![c] = [tool |-> k, direct |-> direct]]
       /\ GoTo(c, IF direct THEN "run" ELSE "look")
  /\ UNCHANGED <<door, life, brainVars, textVars, slips>>

\* dispatch() knows its tools, but the adapter wants the brain before it asks.
\* _get_brain(): most calls find the brain without the lock.
Look(c) ==
  /\ place[c] = "look"
  /\ IF ask[c].tool = "unknown" /\ door # "adapter"
       THEN Over(c)
       ELSE GoTo(c, IF core THEN "run" ELSE "lock") /\ UNCHANGED ask
  /\ UNCHANGED <<door, life, brainVars, textVars, slips>>

\* Mutated form of Lock: the lock is thought to be enough.
LockOnly(c) ==
  /\ place[c] = "lock" /\ latch = Nobody
  /\ latch' = c /\ GoTo(c, "build")
  /\ UNCHANGED <<door, life, made, core, ask, textVars, slips>>

\* The lock is taken, and let go at once when another caller has made the brain
\* in the meantime.
Lock(c) ==
  /\ place[c] = "lock" /\ latch = Nobody
  /\ GoTo(c, IF core THEN "run" ELSE "build")
  /\ latch' = IF core THEN Nobody ELSE c
  /\ UNCHANGED <<door, life, made, core, ask, textVars, slips>>

\* Brain(): made, or an exception that becomes the answer, and the next call
\* tries again.
Build(c) ==
  /\ place[c] = "build"
  /\ latch' = Nobody
  /\ \/ made' = made + 1 /\ core' = TRUE /\ GoTo(c, "run") /\ UNCHANGED <<ask, slips>>
     \/ Break /\ Over(c) /\ UNCHANGED <<made, core>>
  /\ UNCHANGED <<door, life, textVars>>

-----------------------------------------------------------------------------
(* What the tool does.                                                      *)

\* dispatch(): arguments that are refused, a tool that keeps no text, or an
\* exception: the caller is answered and no text is touched.
Answered(c) ==
  /\ place[c] = "run" /\ ask[c].tool \in {"unknown", "other"} /\ ~ ask[c].direct
  /\ Over(c)
  /\ UNCHANGED <<door, life, brainVars, textVars, slips>>

\* handle(), which knows more tools, and the worker's own operations: the same.
Handled(c) ==
  /\ place[c] = "run" /\ ask[c].tool \in {"unknown", "other"} /\ ask[c].direct
  /\ Over(c)
  /\ UNCHANGED <<door, life, brainVars, textVars, slips>>

\* brain_remember: the text goes to the pool, which refuses it while the
\* interpreter shuts down; then the caller keeps it itself.
Queue(c) ==
  /\ place[c] = "run" /\ ask[c].tool = "remember" /\ ~ ask[c].direct
  /\ texts < MaxTexts /\ texts' = texts + 1
  /\ \/ /\ life = "up"
        /\ backlog' = Append(backlog, texts')
        /\ answer' = [answer EXCEPT ![texts'] = "queued"]
        /\ Over(c) /\ UNCHANGED text
     \/ /\ life = "leaving"
        /\ text' = [text EXCEPT ![c] = texts'] /\ GoTo(c, "bucket")
        /\ UNCHANGED <<ask, backlog, answer>>
  /\ UNCHANGED <<door, life, brainVars, fate, hidden, slips>>

\* A skill candidate, and what handle() and the worker's own operation keep, is
\* kept before the answer.
KeepNow(c) ==
  /\ place[c] = "run"
  /\ ask[c].tool = "candidate" \/ (ask[c].tool = "remember" /\ ask[c].direct)
  /\ texts < MaxTexts /\ texts' = texts + 1
  /\ text' = [text EXCEPT ![c] = texts'] /\ GoTo(c, "bucket")
  /\ UNCHANGED <<door, life, brainVars, ask, backlog, answer, fate, hidden, slips>>

\* A thread of the pool takes the oldest text.
Take(w) ==
  /\ Alive /\ place[w] = "idle" /\ backlog # <<>>
  /\ text' = [text EXCEPT ![w] = Head(backlog)] /\ backlog' = Tail(backlog)
  /\ GoTo(w, "bucket")
  /\ UNCHANGED <<door, life, brainVars, ask, texts, answer, fate, hidden, slips>>

-----------------------------------------------------------------------------
(* Brain.remember(), on any thread.                                         *)

\* What the caller is told when its text has come to f (the "stored" field of
\* the answer).  The inline fallback says "queued" whatever came of it; a helper
\* of the pool tells nobody.
Told(x, f) ==
  CASE x \in Helpers -> "queued"
    [] x \in Callers /\ ask[x].tool = "remember" /\ ~ ask[x].direct -> "queued"
    [] OTHER -> IF f = "raised" THEN "error" ELSE f

\* The call for the text of thread x ends.
Ended(x, f) ==
  /\ fate' = [fate EXCEPT ![text[x]] = f]
  /\ answer' = [answer EXCEPT ![text[x]] = Told(x, f)]
  /\ text' = [text EXCEPT ![x] = Nobody]
  /\ Over(x)

\* The bucket is empty for too long, the scan finds something, or the text goes on.
Bucket(x) ==
  /\ Alive /\ place[x] = "bucket"
  /\ \/ \E f \in {"limited", "quarantined"} : Ended(x, f)
     \/ GoTo(x, "mark") /\ UNCHANGED <<ask, text, answer, fate>>
  /\ UNCHANGED <<door, life, brainVars, texts, backlog, hidden, slips>>

\* The text is embedded, unless the embedder raises, and the older memory that
\* it is a near duplicate of (every text has one) is marked superseded by it.
\* At exit an embedder that needs an executor raises too.
Mark(x) ==
  /\ Alive /\ place[x] = "mark"
  /\ \/ /\ hidden' = hidden \cup {text[x]}
        /\ GoTo(x, "add") /\ UNCHANGED <<ask, text, answer, fate, slips>>
     \/ /\ IF life = "up" THEN Break ELSE UNCHANGED slips
        /\ Ended(x, "raised") /\ UNCHANGED hidden
  /\ UNCHANGED <<door, life, brainVars, texts, backlog>>

\* add_chunks(), twice if need be, on an executor of asyncio.  The interpreter
\* that shuts down takes no more work for one.
Add(x) ==
  /\ Alive /\ place[x] = "add"
  /\ \/ life = "up" /\ Ended(x, "stored") /\ UNCHANGED slips
     \/ life = "up" /\ Break /\ Ended(x, "raised")
     \/ life = "leaving" /\ Ended(x, "raised") /\ UNCHANGED slips
  /\ UNCHANGED <<door, life, brainVars, texts, backlog, hidden>>

-----------------------------------------------------------------------------
(* The process.                                                             *)

\* Mutated form of Leave: what is queued is cancelled.
LeaveAtOnce ==
  /\ life = "up"
  /\ door # "host" => \A c \in Callers : place[c] = "idle"
  /\ life' = "leaving" /\ backlog' = <<>>
  /\ UNCHANGED <<door, brainVars, place, ask, text, texts, answer, fate, hidden, slips>>

\* main() returns or raises: at the end of its input, at a line that is JSON but
\* no object, and of a verb when it has printed its answer.  A host ends when it
\* likes.
Leave ==
  /\ life = "up"
  /\ door # "host" => \A c \in Callers : place[c] = "idle"
  /\ life' = "leaving"
  /\ UNCHANGED <<door, brainVars, place, ask, textVars, slips>>

\* What the process had in mind is no more; what it stored is.
Ends(how) ==
  /\ life' = how
  /\ core' = FALSE /\ made' = 0 /\ latch' = Nobody
  /\ place' = [x \in Threads |-> "idle"] /\ text' = [x \in Threads |-> Nobody]
  /\ ask' = [c \in Callers |-> NoCall] /\ backlog' = <<>>
  /\ UNCHANGED <<door, texts, answer, fate, hidden, slips>>

\* The interpreter has waited for the pool.
Gone ==
  /\ life = "leaving" /\ backlog = <<>> /\ \A x \in Threads : place[x] = "idle"
  /\ Ends("gone")

\* SIGKILL, or the end of the session the process belongs to.
Killed == Alive /\ Ends("killed")

ToolStep(c) ==
  /\ Alive
  /\ Look(c) \/ Lock(c) \/ Build(c) \/ Answered(c) \/ Handled(c) \/ Queue(c) \/ KeepNow(c)

KeepStep(x) == Bucket(x) \/ Mark(x) \/ Add(x)

ToolsNext ==
  \/ \E c \in Callers : Call(c) \/ ToolStep(c)
  \/ \E w \in Helpers : Take(w)
  \/ \E x \in Threads : KeepStep(x)
  \/ Leave \/ Gone \/ Killed

\* Threads run; nobody need call, and the process need not end.
ToolsFairness ==
  /\ \A c \in Callers : WF_toolsVars(ToolStep(c))
  /\ \A w \in Helpers : WF_toolsVars(Take(w))
  /\ \A x \in Threads : WF_toolsVars(KeepStep(x))

-----------------------------------------------------------------------------
ToolsTypeOK ==
  /\ door \in Doors /\ life \in {"up", "leaving", "gone", "killed"}
  /\ made \in Nat /\ core \in BOOLEAN /\ latch \in Callers \cup {Nobody}
  /\ place \in [Threads -> Places]
  /\ ask \in [Callers -> [tool : Kinds \cup {"none", "done"}, direct : BOOLEAN]]
  /\ text \in [Threads -> Texts \cup {Nobody}]
  /\ texts \in 0 .. MaxTexts /\ backlog \in Seq(Texts)
  /\ answer \in [Texts -> {"none", "queued", "stored", "limited", "quarantined", "error"}]
  /\ fate \in [Texts -> {"none", "stored", "limited", "quarantined", "raised"}]
  /\ hidden \subseteq Texts /\ slips \in 0 .. MaxBreaks

\* Callers that find no brain make one between them, and one only
\* (tools.py:325).
OneBrain == made = (IF core THEN 1 ELSE 0)

\* A text that was answered "queued" waits, is being kept or has been dealt
\* with, through failing writes, an exit with texts in the queue and calls that
\* come during it; and one that was answered "stored" is (tools.py:528).
Accounted ==
  \A t \in Texts :
    /\ answer[t] = "queued" =>
         \/ life = "killed"
         \/ \E i \in 1 .. Len(backlog) : backlog[i] = t
         \/ \E w \in Helpers : text[w] = t
         \/ fate[t] # "none"
    /\ answer[t] \notin {"none", "queued"} =>
         fate[t] = (IF answer[t] = "error" THEN "raised" ELSE answer[t])

\* While the process runs and no write raises, an older memory is marked
\* superseded only by a text that is stored or about to be (memory.py:394).
MarkedForStored ==
  life = "up" /\ slips = 0 =>
    \A t \in hidden : fate[t] = "stored" \/ \E x \in Threads : text[x] = t /\ place[x] = "add"

ToolsHold == OneBrain /\ Accounted /\ MarkedForStored

\* Every text that was queued is dealt with in the end, or the process killed.
QueuedEnds == []<>(life = "killed" \/ \A t \in Texts : answer[t] = "queued" => fate[t] # "none")

\* What was answered "queued" is in the memory when the process has ended by
\* itself, unless the bucket or the scan kept it out or a write raised
\* ("save a memory (non-blocking)", openclaw_shim.py:27).
QueuedIsStored ==
  life = "gone" /\ slips = 0 =>
    \A t \in Texts : answer[t] = "queued" => fate[t] \in {"stored", "limited", "quarantined"}
=============================================================================
