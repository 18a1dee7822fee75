------------------------------- MODULE MCServer -------------------------------
(***************************************************************************)
(* The MCP server and the plugin that spawns it, in one run: the plugin's   *)
(* child process and its tools (Shim), and the loop of the server with its  *)
(* rate limiter (Server).  What they share is the pipe between them, which  *)
(* StdioRpc models; here a behaviour is one of `part` and the other rests.  *)
(***************************************************************************)
EXTENDS Shim, Server

VARIABLE part

PartInit ==
  /\ part \in {"shim", "server"}
  /\ Init
  /\ ServerInit /\ (part = "server" \/ store)

PartNext ==
  /\ UNCHANGED part
  /\ \/ part = "shim" /\ Next /\ UNCHANGED serving
     \/ part = "server" /\ ServerNext /\ UNCHANGED vars

\* The fairness of Shim, of the part that runs.
PartSpec ==
  /\ PartInit /\ [][PartNext]_<<part, vars, serving>>
  /\ WF_vars(part = "shim" /\ Respawn)
  /\ \A k \in Children : /\ WF_vars(part = "shim" /\ Exit(k))
                         /\ WF_vars(part = "shim" /\ child[k] = "ending" /\ Die(k))

-----------------------------------------------------------------------------
\* Nothing but the limiter looks at the clock, and so it is enough that time
\* passes while the loop waits for a line.
TimeAtRest == <<real, back>>' # <<real, back>> => at \in {"read", "gone", "dead"}

-----------------------------------------------------------------------------
MCLimitOf == [t \in Limited |-> 1]
MCLines == 1 .. 6
MCKind == <<"call", "initialize", "call", "call", "malformed", "notification">>
MCToolOf == [l \in MCLines |-> "brain_restart"]
=============================================================================
