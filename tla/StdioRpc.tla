------------------------------- MODULE StdioRpc -------------------------------
(***************************************************************************)
(* StdioJsonRpc (src/extensions/duckbot-memory/lib/stdio-rpc.js): requests  *)
(* of the OpenClaw plugin to one child, the MCP server                     *)
(* (src/src/mcp_server.py), matched to its answers by id.                  *)
(*                                                                         *)
(* The server prints one JSON object a line; the pipe delivers them in     *)
(* data events that may end anywhere.  A message is cut in two parts, so   *)
(* that an event may end inside it, and a line that is not JSON is Junk.    *)
(* Neither side of this plugin sends a Content-Length header.              *)
(***************************************************************************)
EXTENDS Naturals, FiniteSets, SequencesExt

CONSTANTS
  MaxCalls,   \* bound: requests
  MaxJunk     \* bound: lines that are not JSON

Ids == 1 .. MaxCalls
Parts == {1, 2}

\* What a stream is made of: the parts of messages (0 for one without an id),
\* line ends, and junk.
NL == <<0, 0>>
Junk == <<1, 0>>
Tokens == (0 .. MaxCalls) \X Parts \cup {NL, Junk}
Message(id) == <<<<id, 1>>, <<id, 2>>>>
Line(id) == Append(Message(id), NL)

VARIABLES
  sent,      \* _nextId - 1
  outcome,   \* of each request: none, pending, answered, failed or timeout
  attached,  \* close() has not been called
  server,    \* up, gone, or exited once the exit event has fired
  inbox,     \* the requests in its stdin
  pipe,      \* its stdout
  buffer,    \* _buffer
  junk,      \* lines of junk printed
  cut,       \* history: a data event has ended inside a line
  crowded,   \* history: a request was sent while another was under way
  unnamed    \* history: the requests whose answer carried no id

stream == <<inbox, pipe, buffer>>
history == <<junk, cut, crowded, unnamed>>
vars == <<sent, outcome, attached, server, stream, history>>

Init ==
  /\ sent = 0
  /\ outcome = [id \in Ids |-> "none"]
  /\ attached = TRUE
  /\ server = "up"
  /\ inbox = <<>> /\ pipe = <<>> /\ buffer = <<>>
  /\ junk = 0 /\ cut = FALSE /\ crowded = FALSE /\ unnamed = {}

Settle(ids, how) ==
  outcome' = [id \in Ids |-> IF id \in ids /\ outcome[id] = "pending" THEN how ELSE outcome[id]]

-----------------------------------------------------------------------------
(* The buffer, a sequence b of tokens. *)

\* One of the lines of b, from its i-th token on, is the message id.  The last
\* line counts without its end.
Whole(b, id, i) ==
  /\ i + 1 <= Len(b)
  /\ b[i] = <<id, 1>> /\ b[i + 1] = <<id, 2>>
  /\ i = 1 \/ b[i - 1] = NL
  /\ i + 1 = Len(b) \/ b[i + 2] = NL

HasLine(b) == \E i \in 1 .. Len(b) : b[i] = NL
Parsed(b) == {id \in 0 .. MaxCalls : \E i \in 1 .. Len(b) : Whole(b, id, i)}

\* lines.join('\n') + '\n' without the empty lines, cut to the length of b.
Rejoined(b) ==
  LET kept == {i \in 1 .. Len(b) : b[i] = NL => i > 1 /\ b[i - 1] # NL}
      rank(i) == Cardinality({h \in kept : h <= i})
      joined == [j \in 1 .. Cardinality(kept) |-> b[CHOOSE i \in kept : rank(i) = j]]
  IN IF Cardinality(kept) = Len(b) THEN b
     ELSE IF kept # {} /\ Last(joined) = NL THEN joined
     ELSE Append(joined, NL)

\* Mutant of Left: what an event leaves is not kept for the next one.
LeftOfEvent(b) == IF HasLine(b) /\ Parsed(b) = {} THEN Rejoined(b) ELSE <<>>

\* What _drainBuffer leaves: without a line end, b; all of it is dropped as soon
\* as one line parses.
Left(b) ==
  CASE ~HasLine(b) -> b
    [] HasLine(b) /\ Parsed(b) = {} -> Rejoined(b)
    [] HasLine(b) /\ Parsed(b) # {} -> <<>>

-----------------------------------------------------------------------------

\* send(): the timer is armed and the request is written.
Send ==
  /\ sent < MaxCalls
  /\ sent' = sent + 1
  /\ outcome' = [outcome EXCEPT ![sent + 1] = "pending"]
  /\ inbox' = IF server = "up" THEN Append(inbox, sent + 1) ELSE inbox
  /\ crowded' = (crowded \/ inbox # <<>> \/ pipe # <<>> \/ buffer # <<>>)
  /\ UNCHANGED <<attached, server, pipe, buffer, junk, cut, unnamed>>

\* stdin.write throws: every request fails, this one too.
SendThrows ==
  /\ sent < MaxCalls
  /\ server # "up"
  /\ sent' = sent + 1
  /\ outcome' = [id \in Ids |->
       IF id = sent + 1 \/ outcome[id] = "pending" THEN "failed" ELSE outcome[id]]
  /\ UNCHANGED <<attached, server, stream, history>>

\* The timer of a request: 60 seconds, for all of this plugin's.
Timeout(id) ==
  /\ outcome[id] = "pending"
  /\ Settle({id}, "timeout")
  /\ UNCHANGED <<sent, attached, server, stream, history>>

\* A data event with the first n tokens of the pipe.  The requests that the
\* parsed lines answer are resolved, or rejected with the server's error.
Data(n) ==
  LET b == buffer \o SubSeq(pipe, 1, n) IN
  /\ attached
  /\ pipe' = SubSeq(pipe, n + 1, Len(pipe))
  /\ buffer' = Left(b)
  /\ IF HasLine(b) THEN Settle(Parsed(b), "answered") ELSE UNCHANGED outcome
  /\ cut' = (cut \/ pipe[n] # NL)
  /\ UNCHANGED <<sent, attached, server, inbox, junk, crowded, unnamed>>

\* close(): called after the child was told to end.
Close ==
  /\ attached
  /\ attached' = FALSE
  /\ Settle(Ids, "failed")
  /\ UNCHANGED <<sent, server, stream, history>>

-----------------------------------------------------------------------------
(* The server. *)

\* A request is read, handled and answered: a result, or an error of the tool,
\* with its id; an exception outside the tool, without.
Serve ==
  /\ server = "up"
  /\ inbox # <<>>
  /\ inbox' = Tail(inbox)
  /\ \/ pipe' = pipe \o Line(Head(inbox)) /\ UNCHANGED unnamed
     \/ pipe' = pipe \o Line(0) /\ unnamed' = unnamed \cup {Head(inbox)}
  /\ UNCHANGED <<sent, outcome, attached, server, buffer, junk, cut, crowded>>

\* A library prints a line.
Chatter ==
  /\ server = "up"
  /\ junk < MaxJunk
  /\ junk' = junk + 1
  /\ pipe' = pipe \o <<Junk, NL>>
  /\ UNCHANGED <<sent, outcome, attached, server, inbox, buffer, cut, crowded, unnamed>>

\* The server dies, or ends its loop for brain_restart with a message that
\* carries no id.  Requests it has not read are lost.
Leave ==
  /\ server = "up"
  /\ server' = "gone"
  /\ inbox' = <<>>
  /\ pipe' \in {pipe, pipe \o Line(0)}
  /\ UNCHANGED <<sent, outcome, attached, buffer, history>>

\* The exit event, which may come before the last of the data.
Exit ==
  /\ server = "gone"
  /\ server' = "exited"
  /\ IF attached THEN Settle(Ids, "failed") ELSE UNCHANGED outcome
  /\ UNCHANGED <<sent, attached, stream, history>>

Next ==
  \/ Send \/ SendThrows \/ Close \/ Serve \/ Chatter \/ Leave \/ Exit
  \/ \E id \in Ids : Timeout(id)
  \/ \E n \in 1 .. Len(pipe) : Data(n)

Spec == Init /\ [][Next]_vars

\* Timers fire; the server may be as slow as it likes.
FairSpec == Spec /\ \A id \in Ids : WF_vars(Timeout(id))

-----------------------------------------------------------------------------

\* Every variable has its type, and requests are numbered in the order sent.
TypeOK ==
  /\ sent \in 0 .. MaxCalls
  /\ outcome \in [Ids -> {"none", "pending", "answered", "failed", "timeout"}]
  /\ \A id \in Ids : outcome[id] = "none" <=> id > sent
  /\ attached \in BOOLEAN
  /\ server \in {"up", "gone", "exited"}
  /\ inbox \in Seq(Ids)
  /\ pipe \in Seq(Tokens)
  /\ buffer \in Seq(Tokens)
  /\ junk \in 0 .. MaxJunk
  /\ cut \in BOOLEAN /\ crowded \in BOOLEAN
  /\ unnamed \subseteq Ids

\* The line of id is in the stream s, between two line ends.
Carries(s, id) ==
  \E i \in 1 .. Len(s) : i + 2 <= Len(s) /\ SubSeq(s, i, i + 2) = Line(id) /\ (i = 1 \/ s[i - 1] = NL)

\* Conditions under which the framing loses nothing: no data event ends inside
\* a line, or requests are made one at a time, with nothing else under way.
Careful == ~cut \/ ~crowded

\* No answer is lost: while the server runs, a request that is still pending is
\* in its stdin, or its answer is on the way here, undamaged.
NoAnswerLost ==
  attached /\ server = "up" /\ Careful =>
    \A id \in Ids \ unnamed : outcome[id] = "pending" =>
      \/ \E i \in 1 .. Len(inbox) : inbox[i] = id
      \/ Carries(buffer \o pipe, id)

\* Every request ends, those made after the child has gone or close() too.
Settles == []<>(\A id \in Ids : outcome[id] # "pending")
===============================================================================
