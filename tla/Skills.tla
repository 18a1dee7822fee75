-------------------------------- MODULE Skills --------------------------------
(***************************************************************************)
(* The skill pipeline, src/skill_pipeline.py and write_skill() of           *)
(* src/skillgen.py: chunks stamped as candidates, promoted to a SKILL.md    *)
(* each, the file written first and the chunk marked afterwards.  Requests  *)
(* come from several processes, which may die between the two.              *)
(*                                                                          *)
(* A file is its title; its path is the slug of the title it was written    *)
(* under.  The footer of the file invites its owner to edit it.             *)
(***************************************************************************)
EXTENDS Naturals, FiniteSets

CONSTANTS Chunks, Titles, Slugs,
          SlugOf,        \* title -> slug: _slugify()
          Promotions,    \* requests
          NoSlug, NoTitle,
          MaxEdits       \* bound: edits of files by their owner

VARIABLES mark,          \* chunk -> the slug in its metadata, or NoSlug
          title,         \* slug -> the title in its SKILL.md, or NoTitle
          of,            \* request -> its chunk
          called,        \* request -> the name given
          force,         \* request -> overwrite
          where,         \* request -> where it is
          seen,          \* request -> mark of its chunk when it was read
          edits,
          overlap        \* history: two requests for one chunk at a time, or
                         \* a request that died between file and mark

skillVars == <<mark, title, of, called, force, where, seen, edits, overlap>>

SkillsTypeOK ==
  /\ mark \in [Chunks -> Slugs \cup {NoSlug}]
  /\ title \in [Slugs -> Titles \cup {NoTitle}]
  /\ of \in [Promotions -> Chunks]
  /\ called \in [Promotions -> Titles]
  /\ force \in [Promotions -> BOOLEAN]
  /\ where \in [Promotions -> {"new", "recover", "check", "file", "mark", "done", "refused", "dead"}]
  /\ seen \in [Promotions -> Slugs \cup {NoSlug}]
  /\ edits \in 0 .. MaxEdits /\ overlap \in BOOLEAN

SkillsInit ==
  /\ mark = [c \in Chunks |-> NoSlug]
  /\ title = [s \in Slugs |-> NoTitle]
  /\ of \in [Promotions -> Chunks] /\ called \in [Promotions -> Titles]
  /\ force \in [Promotions -> BOOLEAN]
  /\ where = [p \in Promotions |-> "new"]
  /\ seen = [p \in Promotions |-> NoSlug]
  /\ edits = 0 /\ overlap = FALSE

Active(p) == where[p] \in {"recover", "check", "file", "mark"}

-----------------------------------------------------------------------------
Move(p, w) == where' = [where EXCEPT ![p] = w]

\* The metadata are read; a candidate promoted before needs overwrite.
ReadMark(p) ==
  /\ where[p] = "new"
  /\ seen' = [seen EXCEPT ![p] = mark[of[p]]]
  /\ Move(p, IF mark[of[p]] = NoSlug THEN "check" ELSE IF force[p] THEN "recover" ELSE "refused")
  /\ overlap' = (overlap \/ \E q \in Promotions \ {p} : of[q] = of[p] /\ Active(q))
  /\ UNCHANGED <<mark, title, of, called, force, edits>>

\* The title of the skill is taken from its file, when that is there.
Recover(p) ==
  /\ where[p] = "recover"
  /\ called' = [called EXCEPT ![p] = IF title[seen[p]] = NoTitle THEN @ ELSE title[seen[p]]]
  /\ Move(p, "check")
  /\ UNCHANGED <<mark, title, of, force, seen, edits, overlap>>

Path(p) == SlugOf[called[p]]

\* write_skill(): an existing file is refused without overwrite ...
CheckFile(p) ==
  /\ where[p] = "check"
  /\ Move(p, IF title[Path(p)] # NoTitle /\ ~ force[p] THEN "refused" ELSE "file")
  /\ UNCHANGED <<mark, title, of, called, force, seen, edits, overlap>>

\* ... and written.
WriteFile(p) ==
  /\ where[p] = "file"
  /\ title' = [title EXCEPT ![Path(p)] = called[p]]
  /\ Move(p, "mark")
  /\ UNCHANGED <<mark, of, called, force, seen, edits, overlap>>

\* The directory is not writable: an exception leaves promote_candidate().
Unwritable(p) ==
  /\ where[p] = "file"
  /\ Move(p, "refused")
  /\ UNCHANGED <<mark, title, of, called, force, seen, edits, overlap>>

Mark(p) ==
  /\ where[p] = "mark"
  /\ mark' = [mark EXCEPT ![of[p]] = Path(p)]
  /\ Move(p, "done")
  /\ UNCHANGED <<title, of, called, force, seen, edits, overlap>>

Dies(p) ==
  /\ Active(p)
  /\ Move(p, "dead")
  /\ overlap' = (overlap \/ where[p] = "mark")
  /\ UNCHANGED <<mark, title, of, called, force, seen, edits>>

\* The owner of a skill gives it another title; the path stays.
EditTitle(s) ==
  /\ edits < MaxEdits /\ title[s] # NoTitle
  /\ \E t \in Titles \ {title[s]} : title' = [title EXCEPT ![s] = t]
  /\ edits' = edits + 1
  /\ UNCHANGED <<mark, of, called, force, where, seen, overlap>>

SkillsNext ==
  \/ \E p \in Promotions :
       \/ ReadMark(p) \/ Recover(p) \/ CheckFile(p) \/ WriteFile(p) \/ Unwritable(p) \/ Mark(p) \/ Dies(p)
  \/ \E s \in Slugs : EditTitle(s)

-----------------------------------------------------------------------------
(* Properties.                                                             *)

\* A chunk marked as promoted has its SKILL.md, whoever dies and however
\* promotions interleave.
PromotedHasFile == \A c \in Chunks : mark[c] # NoSlug => title[mark[c]] # NoTitle

\* As long as titles are left alone, and promotions of a chunk come one after
\* another and to their end, promoting again leaves no file that no chunk
\* leads to (skill_pipeline.py:320).
NoOrphan ==
  edits = 0 /\ ~ overlap =>
    \A s \in Slugs : title[s] # NoTitle =>
      \/ \E c \in Chunks : mark[c] = s
      \/ \E p \in Promotions : where[p] = "mark" /\ Path(p) = s

\* What makes them so.  A request recovers only what is marked, and what it is to
\* mark has its file (skill_pipeline.py:324) ...
Underway ==
  \A p \in Promotions :
    /\ where[p] = "recover" => seen[p] # NoSlug
    /\ where[p] = "mark" => title[Path(p)] # NoTitle

\* ... a title that nobody edited is the one its path was made of, a request
\* that is alone with its chunk has seen the chunk's mark, and then it goes where
\* the mark leads (skill_pipeline.py:321).
InTurn ==
  /\ edits = 0 => \A s \in Slugs : title[s] # NoTitle => SlugOf[title[s]] = s
  /\ ~ overlap => \A p \in Promotions : Active(p) =>
       /\ seen[p] = mark[of[p]]
       /\ \A q \in Promotions \ {p} : Active(q) => of[q] # of[p]
  /\ edits = 0 /\ ~ overlap => \A p \in Promotions :
       where[p] \in {"check", "file", "mark"} /\ seen[p] # NoSlug => Path(p) = seen[p]
=============================================================================
