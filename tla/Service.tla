-------------------------------- MODULE Service --------------------------------
(***************************************************************************)
(* What a client of the MCP server may rely on, whatever the server does   *)
(* inside: lines are served one at a time in the order in which they were   *)
(* sent, and each of them gets at most one answer, which carries the id of  *)
(* its own request or none.  The process leaves for no other reason than a  *)
(* restart that was asked for, and only when it has answered that request   *)
(* and no other since.  What was sent and not answered when the process     *)
(* leaves or is killed is lost, and nothing answered is undone.             *)
(* Server implements this.                                                  *)
(***************************************************************************)
EXTENDS Sequences, Naturals

CONSTANTS Lines,     \* what a client may send
          Restarts,  \* those that ask for a restart
          NoId,      \* an answer without an id
          Silent     \* no answer: a notification, or a line that is not JSON

VARIABLES asked,   \* lines sent to a server that was up to take them
          answers, \* answers[i] is the answer to asked[i]
          process  \* "up" | "leaving" | "left" | "killed"

vars == <<asked, answers, process>>

Init == asked = <<>> /\ answers = <<>> /\ process = "up"

Ask ==
  /\ process \in {"up", "leaving"}
  /\ \E l \in Lines : asked' = Append(asked, l)
  /\ UNCHANGED <<answers, process>>

Answer ==
  /\ process = "up" /\ Len(answers) < Len(asked)
  /\ LET l == asked[Len(answers) + 1] IN
     \E a \in {l, NoId, Silent} :
       /\ answers' = Append(answers, a)
       /\ process' \in {"up"} \cup {p \in {"leaving"} : l \in Restarts /\ a = l}
  /\ UNCHANGED asked

Lose == asked' = SubSeq(asked, 1, Len(answers)) /\ UNCHANGED answers

Leave == process = "leaving" /\ process' = "left" /\ Lose

Kill == process \in {"up", "leaving"} /\ process' = "killed" /\ Lose

Boot ==
  /\ process \in {"left", "killed"} /\ process' = "up"
  /\ UNCHANGED <<asked, answers>>

Next == Ask \/ Answer \/ Leave \/ Kill \/ Boot

Spec == Init /\ [][Next]_vars
=============================================================================
