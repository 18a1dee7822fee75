-------------------------------- MODULE Dreams --------------------------------
(***************************************************************************)
(* The dreaming bridge of src/connectors/dreaming.py and learn() of         *)
(* src/connectors/learn.py: dream files of OpenClaw are remembered entry by *)
(* entry, dreams are written into them, and a file says which entries were  *)
(* remembered.  Each call opens the file anew, and calls overlap.           *)
(***************************************************************************)
EXTENDS Naturals, FiniteSets

CONSTANTS Runs,         \* two calls of read() or cycle(); a third could have
                        \* another temporary file open
          Dreamt,       \* entries OpenClaw may write
          DreamOf,      \* run -> the entry its cycle() would append
          Lessons,      \* texts given to learn()
          Garbled,      \* a file that is no JSON
          NoFile,
          MaxMisfits    \* bound: calls that fail, and processes that die

VARIABLES surface,      \* entries in the dream files
          memory,       \* texts in the store
          marks,        \* the state file: the entries in it, Garbled, or NoFile
          tmp,          \* the file beside it that is written first
          stage,        \* run -> where it is
          mine,         \* run -> the entries of its own copy
          toRead,       \* run -> entries it has found and not looked at
          lesson,       \* lesson -> where it is
          learnt,       \* lessons in the learning files
          misfits

dreamVars == <<surface, memory, marks, tmp, stage, mine, toRead, lesson, learnt, misfits>>
learnKept == <<lesson, learnt>>

Entries == Dreamt \cup {DreamOf[r] : r \in Runs}
Files   == (SUBSET Entries) \cup {Garbled, NoFile}
Stages  == {"new", "read", "cycle", "distill", "open", "write", "replace", "done"}

DreamsTypeOK ==
  /\ surface \subseteq Entries /\ memory \subseteq Entries \cup Lessons
  /\ marks \in Files /\ tmp \in Files
  /\ stage \in [Runs -> Stages]
  /\ mine \in [Runs -> SUBSET Entries] /\ toRead \in [Runs -> SUBSET Entries]
  /\ lesson \in [Lessons -> {"new", "file", "done"}] /\ learnt \subseteq Lessons
  /\ misfits \in 0 .. MaxMisfits

DreamsInit ==
  /\ surface \in SUBSET Dreamt /\ memory = {}
  /\ marks = NoFile /\ tmp = NoFile
  /\ stage = [r \in Runs |-> "new"]
  /\ mine = [r \in Runs |-> {}] /\ toRead = [r \in Runs |-> {}]
  /\ lesson = [l \in Lessons |-> "new"] /\ learnt = {}
  /\ misfits = 0

Stage(r, s) == stage' = [stage EXCEPT ![r] = s]
Misfit      == misfits < MaxMisfits /\ misfits' = misfits + 1

-----------------------------------------------------------------------------
\* OpenClaw dreams.
Dream(e) ==
  /\ e \in Dreamt \ surface
  /\ surface' = surface \cup {e}
  /\ UNCHANGED <<memory, marks, tmp, stage, mine, toRead, learnKept, misfits>>

\* _load_state(), and what read() finds in the files.  Without a readable
\* state there are no marks.
Open(r) ==
  /\ stage[r] = "new"
  /\ mine' = [mine EXCEPT ![r] = IF marks \in {Garbled, NoFile} THEN {} ELSE marks]
  /\ \/ Stage(r, "read") /\ toRead' = [toRead EXCEPT ![r] = surface]
     \/ Stage(r, "cycle") /\ UNCHANGED toRead
  /\ UNCHANGED <<surface, memory, marks, tmp, learnKept, misfits>>

\* One entry: skipped if it has a mark, else remembered and marked; one that
\* cannot be remembered is passed over.
Ingest(r) ==
  /\ stage[r] = "read"
  /\ \E e \in toRead[r] :
       /\ toRead' = [toRead EXCEPT ![r] = @ \ {e}]
       /\ \/ /\ memory' = IF e \in mine[r] THEN memory ELSE memory \cup {e}
             /\ mine' = [mine EXCEPT ![r] = @ \cup {e}]
             /\ UNCHANGED misfits
          \/ e \notin mine[r] /\ Misfit /\ UNCHANGED <<memory, mine>>
  /\ UNCHANGED <<surface, marks, tmp, stage, learnKept>>

Ingested(r) ==
  /\ stage[r] = "read" /\ toRead[r] = {}
  /\ Stage(r, "open")
  /\ UNCHANGED <<surface, memory, marks, tmp, mine, toRead, learnKept, misfits>>

\* cycle(): what stands out is appended to the file of the day.
Cycle(r) ==
  /\ stage[r] = "cycle"
  /\ \/ memory # {} /\ surface' = surface \cup {DreamOf[r]} /\ Stage(r, "distill")
     \/ Stage(r, "done") /\ UNCHANGED surface
  /\ UNCHANGED <<memory, marks, tmp, mine, toRead, learnKept, misfits>>

\* It is summed up in one more memory, or not.
Distill(r) ==
  /\ stage[r] = "distill"
  /\ Stage(r, "open")
  /\ UNCHANGED <<surface, memory, marks, tmp, mine, toRead, learnKept, misfits>>

-----------------------------------------------------------------------------
(* _save_state(): the temporary file has one name for all.                 *)

SaveOpen(r) ==
  /\ stage[r] = "open"
  /\ tmp' = Garbled
  /\ Stage(r, "write")
  /\ UNCHANGED <<surface, memory, marks, mine, toRead, learnKept, misfits>>

Written(r) == {mine[r]} \cup IF \E q \in Runs \ {r} : stage[q] \in {"write", "replace"} THEN {Garbled} ELSE {}

\* What is written goes to the file that was opened, by now perhaps under the
\* name another call gave it.
SaveWrite(r) ==
  /\ stage[r] = "write"
  /\ \E w \in Written(r) :
       IF tmp # NoFile THEN tmp' = w /\ UNCHANGED marks ELSE marks' = w /\ UNCHANGED tmp
  /\ Stage(r, "replace")
  /\ UNCHANGED <<surface, memory, mine, toRead, learnKept, misfits>>

\* Without a file to rename the call raises.
SaveReplace(r) ==
  /\ stage[r] = "replace"
  /\ IF tmp # NoFile THEN marks' = tmp /\ tmp' = NoFile ELSE UNCHANGED <<marks, tmp>>
  /\ Stage(r, "done")
  /\ UNCHANGED <<surface, memory, mine, toRead, learnKept, misfits>>

Die(r) ==
  /\ stage[r] \notin {"new", "done"} /\ Misfit
  /\ Stage(r, "done")
  /\ UNCHANGED <<surface, memory, marks, tmp, mine, toRead, learnKept>>

-----------------------------------------------------------------------------
\* learn(): remembered first, then written for OpenClaw's dreamer, which may
\* fail.
LearnStore(l) ==
  /\ lesson[l] = "new"
  /\ \/ memory' = memory \cup {l} /\ lesson' = [lesson EXCEPT ![l] = "file"] /\ UNCHANGED misfits
     \/ Misfit /\ lesson' = [lesson EXCEPT ![l] = "done"] /\ UNCHANGED memory
  /\ UNCHANGED <<surface, marks, tmp, stage, mine, toRead, learnt>>

LearnWrite(l) ==
  /\ lesson[l] = "file"
  /\ \/ learnt' = learnt \cup {l} /\ UNCHANGED misfits
     \/ Misfit /\ UNCHANGED learnt
  /\ lesson' = [lesson EXCEPT ![l] = "done"]
  /\ UNCHANGED <<surface, memory, marks, tmp, stage, mine, toRead>>

DreamsNext ==
  \/ \E e \in Dreamt : Dream(e)
  \/ \E r \in Runs : Open(r) \/ Ingest(r) \/ Ingested(r) \/ Cycle(r) \/ Distill(r)
                     \/ SaveOpen(r) \/ SaveWrite(r) \/ SaveReplace(r) \/ Die(r)
  \/ \E l \in Lessons : LearnStore(l) \/ LearnWrite(l)

-----------------------------------------------------------------------------
(* Properties.                                                             *)

\* An entry with a mark is in memory, whatever calls save over each other,
\* and in which order they fail or die (dreaming.py:186).
MarkedIsRemembered ==
  marks \notin {Garbled, NoFile} => marks \subseteq memory
=============================================================================
