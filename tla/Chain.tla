--------------------------------- MODULE Chain ---------------------------------
(***************************************************************************)
(* Coding memory, src/src/coding.py: store_chain() walks the last commits   *)
(* of a repository, oldest first, and remembers each one that has no record *)
(* yet, as what the writer makes of it or as its subject, with a link to an *)
(* earlier commit that touched one of its files.  Runs may overlap, and may *)
(* die at any time.                                                        *)
(*                                                                         *)
(* The id of a record is made of its text and of the repository: commits    *)
(* with the same subject share one, and the later to be stored has it.      *)
(***************************************************************************)
EXTENDS Naturals, Sequences, FiniteSets, SequencesExt

CONSTANTS Runs,
          Touched,    \* the files of each commit, in git's order: <<...>> per commit
          Message,    \* of its body: the lines that look like a path in the first
                      \* paragraph, and the lines of the later ones
          Subject,    \* its first line
          Distilled,  \* what the writer makes of it, unlike any subject
          Limit,      \* commits that git log is asked for
          MaxMishaps  \* bound: runs that raise or are killed

Commits == 1 .. Len(Touched)     \* in the order of the history
None == 0
AllTexts == {Subject[c] : c \in Commits} \cup {Distilled[c] : c \in Commits}
NoRecord == [commit |-> None, prev |-> None]

\* What the parser takes for the files of a commit.  It splits git's output at
\* the first blank line, so the later paragraphs of a body, trailers too, are in
\* front of them; where there is none it guesses by shape.
FilesOf(c) ==
  IF Touched[c] = <<>> /\ Message[c].later = <<>> THEN Message[c].pathlike
  ELSE Message[c].later \o Touched[c]

VARIABLES head,      \* commits made so far
          records,   \* text -> the metadata of the chunk with it
          at,        \* run -> "idle" | "walk"
          log,       \* its commits: the sequence from git
          already,   \* the commits with a record when it began, and its own
          pos, last, \* how far it is; file_last
          writer,    \* the writer answers
          mishaps,
          walked,    \* history: commits that a run has been past
          together   \* history: a run began while another was at work

chainVars == <<head, records, at, log, already, pos, last, writer, mishaps, walked, together>>
Files == UNION {ToSet(FilesOf(c)) : c \in Commits}

ChainTypeOK ==
  /\ head \in 0 .. Len(Touched)
  /\ records \in [AllTexts -> [commit : {None} \cup Commits, prev : {None} \cup Commits]]
  /\ at \in [Runs -> {"idle", "walk"}]
  /\ log \in [Runs -> Seq(Commits)] /\ pos \in [Runs -> Nat]
  /\ already \in [Runs -> SUBSET Commits]
  /\ last \in [Runs -> [Files -> {None} \cup Commits]]
  /\ writer \in BOOLEAN /\ mishaps \in 0 .. MaxMishaps
  /\ walked \subseteq Commits /\ together \in BOOLEAN

ChainInit ==
  /\ head = 0
  /\ records = [t \in AllTexts |-> NoRecord]
  /\ at = [r \in Runs |-> "idle"] /\ log = [r \in Runs |-> <<>>]
  /\ already = [r \in Runs |-> {}] /\ pos = [r \in Runs |-> 1]
  /\ last = [r \in Runs |-> [f \in Files |-> None]]
  /\ writer = TRUE /\ mishaps = 0 /\ walked = {} /\ together = FALSE

Recorded == {records[t].commit : t \in AllTexts} \ {None}

Commit ==
  /\ head < Len(Touched)
  /\ head' = head + 1
  /\ UNCHANGED <<records, at, log, already, pos, last, writer, mishaps, walked, together>>

\* The writer is loaded by some script, unloaded by another.
WriterChanges ==
  /\ mishaps < MaxMishaps /\ mishaps' = mishaps + 1
  /\ writer' = ~ writer
  /\ UNCHANGED <<head, records, at, log, already, pos, last, walked, together>>

\* Mutated form of iter_commits: git's own order.
newest_first == [i \in 1 .. (IF head < Limit THEN head ELSE Limit) |-> head - i + 1]

\* git log -n Limit --reverse
iter_commits ==
  LET n == IF head < Limit THEN head ELSE Limit
  IN  [i \in 1 .. n |-> head - n + i]

\* The history and the hashes that have a record are read before anything is
\* stored.
Begin(r) ==
  /\ at[r] = "idle" /\ head > 0
  /\ at' = [at EXCEPT ![r] = "walk"]
  /\ log' = [log EXCEPT ![r] = iter_commits]
  /\ already' = [already EXCEPT ![r] = Recorded]
  /\ pos' = [pos EXCEPT ![r] = 1]
  /\ last' = [last EXCEPT ![r] = [f \in Files |-> None]]
  /\ together' = (together \/ \E q \in Runs : at[q] = "walk")
  /\ UNCHANGED <<head, records, writer, mishaps, walked>>

\* chain_prev: of the commit's files, the first that was seen before decides.
Previous(r, c) ==
  LET i == SelectInSeq(FilesOf(c), LAMBDA f : last[r][f] # None)
  IN  IF i = 0 THEN None ELSE last[r][FilesOf(c)[i]]

\* Metadata that a commit without a link does not name stays as it was.
Store(r, c) ==
  \E text \in {Subject[c]} \cup IF writer THEN {Distilled[c]} ELSE {} :
    records' = [records EXCEPT
      ![text] = [commit |-> c, prev |-> IF Previous(r, c) = None THEN @.prev ELSE Previous(r, c)]]

\* A run is over, and what it knew with it.
Over(r) ==
  /\ at' = [at EXCEPT ![r] = "idle"] /\ pos' = [pos EXCEPT ![r] = 1]
  /\ log' = [log EXCEPT ![r] = <<>>] /\ already' = [already EXCEPT ![r] = {}]
  /\ last' = [last EXCEPT ![r] = [f \in Files |-> None]]

\* The next commit.  It counts for the links whether it is stored or not.
Step(r) ==
  /\ at[r] = "walk"
  /\ LET c == log[r][pos[r]] IN
       /\ IF c \in already[r] THEN UNCHANGED records ELSE Store(r, c)
       /\ walked' = walked \cup {c}
       /\ IF pos[r] = Len(log[r]) THEN Over(r)
          ELSE /\ already' = [already EXCEPT ![r] = @ \cup {c}]
               /\ last' = [last EXCEPT ![r] = [f \in Files |->
                             IF f \in ToSet(FilesOf(c)) THEN c ELSE @[f]]]
               /\ pos' = [pos EXCEPT ![r] = @ + 1]
               /\ UNCHANGED <<at, log>>
  /\ UNCHANGED <<head, writer, mishaps, together>>

\* Killed, or remember() raises: the run is over where it is.
Dies(r) ==
  /\ at[r] = "walk"
  /\ mishaps < MaxMishaps /\ mishaps' = mishaps + 1
  /\ Over(r)
  /\ UNCHANGED <<head, records, writer, walked, together>>

ChainNext ==
  \/ Commit \/ WriterChanges
  \/ \E r \in Runs : Begin(r) \/ Step(r) \/ Dies(r)

-----------------------------------------------------------------------------
(* Properties.                                                             *)

\* A commit that a run has been past has a record, its own or one of another
\* commit with the same words: however runs overlap and die, and whether the
\* writer answers or not, there are no gaps (coding.py:16).
HasRecord(c) == \E t \in {Subject[c], Distilled[c]} : records[t] # NoRecord
NoGaps == \A c \in walked : HasRecord(c)

\* Runs that do not overlap store a commit once, however they die and whether
\* the writer answers one of them and not the next (coding.py:114).  Where the
\* record of one commit is taken by another with the same subject, the first is
\* stored again, as often as that happens.
StoredOnce ==
  ~ together => \A t, u \in AllTexts :
    records[t].commit = records[u].commit /\ records[t].commit # None => t = u

\* A link leads to an earlier commit with a file in common, or with a line of
\* the message that is taken for one; it has a record as well, where no other
\* commit has the same subject (coding.py:126).  If the messages of both have
\* one paragraph at most and both touched files, one file is common to them.
Alone(c) == \A d \in Commits \ {c} : Subject[d] # Subject[c]
Plain(c) == Message[c].later = <<>> /\ Touched[c] # <<>>
LinksLead ==
  \A t \in AllTexts : LET c == records[t].commit
                          p == records[t].prev IN
    p # None /\ Alone(c) =>
      /\ p < c /\ ToSet(FilesOf(p)) \cap ToSet(FilesOf(c)) # {}
      /\ Plain(p) /\ Plain(c) => ToSet(Touched[p]) \cap ToSet(Touched[c]) # {}
      /\ Alone(p) => p \in Recorded

\* What makes them so.  A record is at a text of its commit (coding.py:128) ...
OwnTexts ==
  \A t \in AllTexts : LET c == records[t].commit IN
    IF c = None THEN records[t] = NoRecord ELSE t \in {Subject[c], Distilled[c]}

\* ... a walk goes forward, and what it knows of has a record and is behind it
\* (coding.py:106) ...
Walking ==
  \A r \in Runs :
    /\ \A c \in already[r] : HasRecord(c)
    /\ at[r] = "walk" =>
         /\ pos[r] \in 1 .. Len(log[r])
         /\ \A i, j \in 1 .. Len(log[r]) : i < j => log[r][i] < log[r][j]
         /\ \A f \in Files : LET d == last[r][f] IN
              d # None => f \in ToSet(FilesOf(d)) /\ HasRecord(d) /\ d < log[r][pos[r]]

\* ... and alone at work it knows what has a record ...
Knowing ==
  ~ together => \A r \in Runs : at[r] = "walk" =>
    /\ Recorded \subseteq already[r]
    /\ \A q \in Runs : at[q] = "walk" => q = r

\* ... and so is what it links to.
Links ==
  \A t \in AllTexts : LET c == records[t].commit
                          p == records[t].prev IN
    p # None =>
      /\ HasRecord(p)
      /\ Alone(c) => p < c /\ ToSet(FilesOf(p)) \cap ToSet(FilesOf(c)) # {}
=============================================================================
