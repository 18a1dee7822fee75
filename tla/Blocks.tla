-------------------------------- MODULE Blocks --------------------------------
(***************************************************************************)
(* One memory block: BlockStore of src/blocks.py behind the block tools of  *)
(* src/connectors/base.py.  Every request opens a connection of its own to  *)
(* the SQLite file; what it reads it reads outside a transaction, and its   *)
(* writes and their history row are one transaction.                        *)
(*                                                                          *)
(* Request r carries one text, which is r itself, and a block's content is  *)
(* the set of the texts in it.  No tool gives a block a char_limit, so that *)
(* check never refuses.                                                     *)
(***************************************************************************)
EXTENDS Naturals, Sequences, SequencesExt

CONSTANTS Writers,     \* requests
          Absent,
          NoOne        \* what a history row tells of a block made new

ReqKinds == {"write", "append", "replace", "seed", "delete"}

VARIABLES content,     \* of the row in blocks: a set of texts, or Absent
          history,     \* block_history, oldest first
          place,       \* request -> where it is
          req,         \* request -> its kind
          plan,        \* request -> the content it will write
          read,        \* request -> content as its last get() returned it
          queue        \* instructions in the block's rethink.jsonl

blockVars == <<content, history, place, req, plan, read, queue>>

Contents == SUBSET Writers

BlocksTypeOK ==
  /\ content \in Contents \cup {Absent}
  /\ history \in Seq([old : Contents \cup {NoOne}, new : Contents])
  /\ place \in [Writers -> {"new", "look", "write", "create", "insert", "update",
                            "readback", "done", "error", "unread"}]
  /\ req \in [Writers -> ReqKinds]
  /\ plan \in [Writers -> Contents]
  /\ read \in [Writers -> Contents \cup {Absent}]
  /\ queue \in Seq(Writers)

BlocksInit ==
  /\ content = Absent /\ history = <<>> /\ queue = <<>>
  /\ place = [r \in Writers |-> "new"]
  /\ req \in [Writers -> ReqKinds]
  /\ plan = [r \in Writers |-> {r}]
  /\ read = [r \in Writers |-> Absent]

-----------------------------------------------------------------------------
Goto(r, p) == place' = [place EXCEPT ![r] = p]

Begin(r) ==
  /\ place[r] = "new"
  /\ Goto(r, "look")
  /\ UNCHANGED <<content, history, req, plan, read, queue>>

\* The first get().  A block that is not there is created by write, append
\* and seed, and is an error to replace; one that is there is left alone by
\* seed.
Look(r) ==
  /\ place[r] = "look" /\ req[r] # "delete"
  /\ read' = [read EXCEPT ![r] = content]
  /\ \/ content = Absent /\ req[r] # "replace" /\ Goto(r, "create") /\ UNCHANGED plan
     \/ content = Absent /\ req[r] = "replace" /\ Goto(r, "error") /\ UNCHANGED plan
     \/ content # Absent /\ req[r] = "seed" /\ Goto(r, "done") /\ UNCHANGED plan
     \/ content # Absent /\ req[r] = "write" /\ Goto(r, "write") /\ UNCHANGED plan
     \/ /\ content # Absent /\ req[r] = "append"
        /\ plan' = [plan EXCEPT ![r] = content \cup {r}]
        /\ Goto(r, "write")
     \/ /\ content # Absent /\ req[r] = "replace"
        /\ \/ UNCHANGED plan /\ Goto(r, "done")          \* `old` is not in it
           \/ /\ \E t \in content : plan' = [plan EXCEPT ![r] = (content \ {t}) \cup {r}]
              /\ Goto(r, "write")
  /\ UNCHANGED <<content, history, req, queue>>

\* write() reads the block again.
Reread(r) ==
  /\ place[r] = "write"
  /\ read' = [read EXCEPT ![r] = content]
  /\ Goto(r, IF content = Absent THEN "create" ELSE "update")
  /\ UNCHANGED <<content, history, req, plan, queue>>

\* And so does create().
CheckNew(r) ==
  /\ place[r] = "create"
  /\ Goto(r, IF content = Absent THEN "insert" ELSE "error")
  /\ UNCHANGED <<content, history, req, plan, read, queue>>

After(r) == IF req[r] = "append" THEN "readback" ELSE "done"

\* Mutated form of Insert: the row is written before it is refused.
InsertOverRow(r) ==
  /\ place[r] = "insert"
  /\ content' = plan[r]
  /\ history' = Append(history, [old |-> NoOne, new |-> plan[r]])
  /\ Goto(r, IF content = Absent THEN After(r) ELSE "error")
  /\ UNCHANGED <<req, plan, read, queue>>

\* INSERT and its history row; the primary key refuses a second row.
Insert(r) ==
  /\ place[r] = "insert"
  /\ IF content = Absent
       THEN /\ content' = plan[r]
            /\ history' = Append(history, [old |-> NoOne, new |-> plan[r]])
            /\ Goto(r, After(r))
       ELSE Goto(r, "error") /\ UNCHANGED <<content, history>>
  /\ UNCHANGED <<req, plan, read, queue>>

\* UPDATE and its history row; without the row in blocks the UPDATE changes
\* nothing and the foreign key refuses the history row.
Update(r) ==
  /\ place[r] = "update"
  /\ IF content # Absent
       THEN /\ content' = plan[r]
            /\ history' = Append(history, [old |-> read[r], new |-> plan[r]])
            /\ Goto(r, After(r))
       ELSE Goto(r, "error") /\ UNCHANGED <<content, history>>
  /\ UNCHANGED <<req, plan, read, queue>>

\* block_append() tells the caller what the block holds now; when it was
\* deleted in between there is nothing to tell, and the call raises.
ReadBack(r) ==
  /\ place[r] = "readback"
  /\ Goto(r, IF content = Absent THEN "unread" ELSE "done")
  /\ UNCHANGED <<content, history, req, plan, read, queue>>

\* DELETE takes the history with it.
Delete(r) ==
  /\ place[r] = "look" /\ req[r] = "delete"
  /\ content' = Absent /\ history' = <<>>
  /\ Goto(r, "done")
  /\ UNCHANGED <<req, plan, read, queue>>

\* Another connection holds the file for longer than the timeout.
Refused(r) ==
  /\ place[r] \in {"insert", "update"}
  /\ Goto(r, "error")
  /\ UNCHANGED <<content, history, req, plan, read, queue>>

\* block_rethink() queues an instruction, whether there is a block or not.
Rethink(r) ==
  /\ place[r] = "new"
  /\ queue' = Append(queue, r)
  /\ Goto(r, "done")
  /\ UNCHANGED <<content, history, req, plan, read>>

BlocksNext ==
  \E r \in Writers :
    \/ Begin(r) \/ Look(r) \/ Reread(r) \/ CheckNew(r) \/ Insert(r) \/ Update(r)
    \/ ReadBack(r) \/ Delete(r) \/ Refused(r) \/ Rethink(r)

-----------------------------------------------------------------------------
(* Properties.                                                             *)

\* However requests interleave, the history ends with what the block holds,
\* so that what was overwritten is in the row before, or was (blocks.py:160).
RecordIsContent ==
  IF content = Absent THEN history = <<>>
  ELSE history # <<>> /\ Last(history).new = content

\* A request that ends with an error has changed nothing: its text is in no
\* content and no history.  (An append that cannot be read back has.)
FailureLeavesNoTrace ==
  \A r \in Writers : place[r] = "error" =>
    /\ content = Absent \/ r \notin content
    /\ \A i \in DOMAIN history : r \notin history[i].new
\* What they rest on: as long as a request may end with an error, nobody else
\* has its text or plans to write it.
Unwritten ==
  \A r \in Writers : place[r] \notin {"readback", "done", "unread"} =>
    /\ content = Absent \/ r \notin content
    /\ \A i \in DOMAIN history : r \notin history[i].new
    /\ \A q \in Writers \ {r} : r \notin plan[q]
\* An update has read what it replaces.
UpdatesRead == \A r \in Writers : place[r] = "update" => read[r] # Absent
=============================================================================
