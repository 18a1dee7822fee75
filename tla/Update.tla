-------------------------------- MODULE Update --------------------------------
(***************************************************************************)
(* `duck-memory update` of src/cli.py and brain_update of src/mcp_server.py *)
(* over the git repository the program runs from: local changes are put on  *)
(* the stash, the branch is pulled, and the stash is popped again.  Each    *)
(* git command is a step; more than one update may run.                     *)
(*                                                                          *)
(* A piece of work is a set of changes to tracked files, of the owner or    *)
(* from an earlier stash of theirs.                                         *)
(***************************************************************************)
EXTENDS Naturals, Sequences

CONSTANTS Updates,     \* running updates
          Edits,       \* pieces of work the owner may do
          MaxCommits,  \* bound: commits that arrive at the remote
          MaxFailed    \* bound: commands that fail for a reason of their own,
                       \* and updates that are killed

VARIABLES tree,        \* work in the working tree
          heap,        \* the stash: a sequence of sets of work, the newest first
          ahead,       \* commits of the remote that are not here
          pushed,      \* commits the remote has had
          doing,       \* update -> where it is
          had,         \* update -> had_local_changes
          older,       \* history: work the stash had to begin with
          undone,      \* history: a pop met a conflict, or a command failed
          failed

updateVars == <<tree, heap, ahead, pushed, doing, had, older, undone, failed>>
gitVars    == <<tree, heap, ahead, pushed>>

InStash == UNION {heap[i] : i \in DOMAIN heap}

Places == {"new", "fetch", "stash", "pull", "after", "pop", "pop failed", "done", "killed"}

UpdateTypeOK ==
  /\ tree \subseteq Edits /\ heap \in Seq(SUBSET Edits)
  /\ ahead \in 0 .. pushed /\ pushed \in 0 .. MaxCommits
  /\ doing \in [Updates -> Places]
  /\ had \in [Updates -> BOOLEAN] /\ older \subseteq Edits /\ undone \in BOOLEAN
  /\ failed \in 0 .. MaxFailed

UpdateInit ==
  /\ tree = {} /\ heap \in {<<>>} \cup {<<{e}>> : e \in Edits}
  /\ ahead = 0 /\ pushed = 0
  /\ doing = [u \in Updates |-> "new"]
  /\ had = [u \in Updates |-> FALSE] /\ older = InStash /\ undone = FALSE
  /\ failed = 0

To(u, p) == doing' = [doing EXCEPT ![u] = p]
Breaks   == failed < MaxFailed /\ failed' = failed + 1

-----------------------------------------------------------------------------
Edit(e) ==
  /\ e \notin tree \cup InStash
  /\ tree' = tree \cup {e}
  /\ UNCHANGED <<heap, ahead, pushed, doing, had, older, undone, failed>>

Arrive ==
  /\ pushed < MaxCommits
  /\ pushed' = pushed + 1 /\ ahead' = ahead + 1
  /\ UNCHANGED <<tree, heap, doing, had, older, undone, failed>>

\* git diff: are there local changes?
Look(u) ==
  /\ doing[u] = "new"
  /\ had' = [had EXCEPT ![u] = tree # {}]
  /\ To(u, "fetch")
  /\ UNCHANGED <<gitVars, older, undone, failed>>

\* Nothing to pull, or only a dry run: the update ends.
Fetch(u) ==
  /\ doing[u] = "fetch"
  /\ \/ To(u, "done")
     \/ ahead > 0 /\ To(u, IF had[u] THEN "stash" ELSE "pull")
  /\ UNCHANGED <<gitVars, had, older, undone, failed>>

\* git stash push.  Without changes it does nothing; a failure is reported,
\* and the update goes on.
Push(u) ==
  /\ doing[u] = "stash"
  /\ \/ /\ tree' = {} /\ heap' = IF tree = {} THEN heap ELSE <<tree>> \o heap
        /\ UNCHANGED <<undone, failed>>
     \/ Breaks /\ undone' = TRUE /\ UNCHANGED <<tree, heap>>
  /\ To(u, "pull")
  /\ UNCHANGED <<ahead, pushed, had, older>>

\* git pull --rebase: refused over changes in the tree.
Pull(u) ==
  /\ doing[u] = "pull"
  /\ \/ tree = {} /\ ahead' = 0 /\ To(u, "after") /\ UNCHANGED failed
     \/ tree # {} /\ To(u, "pop failed") /\ UNCHANGED <<ahead, failed>>
     \/ Breaks /\ To(u, "pop failed") /\ UNCHANGED ahead
  /\ UNCHANGED <<tree, heap, pushed, had, older, undone>>

\* pip and the doctor: their answers are reported only.
After(u) ==
  /\ doing[u] = "after"
  /\ To(u, "pop")
  /\ UNCHANGED <<gitVars, had, older, undone, failed>>

\* git stash pop of the newest entry, whosever it is.  A conflict leaves the
\* entry on the stash.
PopStash ==
  \/ heap = <<>> /\ UNCHANGED <<tree, heap, undone, failed>>
  \/ heap # <<>> /\ tree' = tree \cup Head(heap) /\ heap' = Tail(heap) /\ UNCHANGED <<undone, failed>>
  \/ heap # <<>> /\ Breaks /\ tree' \in {tree, tree \cup Head(heap)} /\ undone' = TRUE
     /\ UNCHANGED heap

Pop(u) ==
  /\ doing[u] = "pop"
  /\ IF had[u] THEN PopStash ELSE UNCHANGED <<tree, heap, undone, failed>>
  /\ To(u, "done")
  /\ UNCHANGED <<ahead, pushed, had, older>>

\* Mutated form of PopFailed: the update returns at once.
PopFailedNot(u) ==
  /\ doing[u] = "pop failed"
  /\ To(u, "done")
  /\ UNCHANGED <<gitVars, had, older, undone, failed>>

\* After a pull that failed.
PopFailed(u) ==
  /\ doing[u] = "pop failed"
  /\ IF had[u] THEN PopStash ELSE UNCHANGED <<tree, heap, undone, failed>>
  /\ To(u, "done")
  /\ UNCHANGED <<ahead, pushed, had, older>>

\* The process is ended, or the doctor raises.
Kill(u) ==
  /\ doing[u] \notin {"new", "done", "killed"} /\ Breaks
  /\ To(u, "killed")
  /\ UNCHANGED <<gitVars, had, older, undone>>

UpdateNext ==
  \/ Arrive
  \/ \E e \in Edits : Edit(e)
  \/ \E u \in Updates : Look(u) \/ Fetch(u) \/ Push(u) \/ Pull(u) \/ After(u) \/ Pop(u)
                        \/ PopFailed(u) \/ Kill(u)

-----------------------------------------------------------------------------
(* Properties.                                                             *)

\* When the updates that began have ended, none of them killed and no command
\* on the stash having failed, the stash has nothing of what they put there:
\* every local change is back in the tree, also when pulling fails and two
\* updates pop each other's entry (cli.py:781).
ChangesBack ==
  (\A u \in Updates : doing[u] \in {"new", "done"}) /\ ~ undone => InStash \subseteq older
=============================================================================
