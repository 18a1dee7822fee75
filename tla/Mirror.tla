-------------------------------- MODULE Mirror --------------------------------
(***************************************************************************)
(* brain_sync of src/src/mcp_server.py: the brain's memories are written to *)
(* the files that agents read when they start, MEMORY.md, USER.md and       *)
(* SOUL.md of OpenClaw and of Hermes.  The tiers are recalled one after      *)
(* another, while the brain changes; then the files are written, one after   *)
(* another, in place.  Hermes' MEMORY.md and USER.md have a budget.          *)
(*                                                                         *)
(* What a recall ranks first, and what its filters leave of it, is open; a   *)
(* file is the sequence of entries in it.  A dry run writes nothing.         *)
(***************************************************************************)
EXTENDS Naturals, Sequences, FiniteSets, FiniteSetsExt, SequencesExt

CONSTANTS Tiers,       \* in their order: working, episodic, semantic, procedural
          Soul,        \* the tier of SOUL.md, procedural
          Entries, TierOf, ImportanceOf, TextOf, LengthOf,
          Floor,       \* min_importance
          MemoryK, UserK,
          MemoryBudget, UserBudget, Reserve,   \* 2200, 1375 and 60 in the code
          MaxChanges,  \* bound: entries forgotten
          MaxSyncs     \* bound: calls of brain_sync

OpenClaw == <<"openclaw/MEMORY", "openclaw/USER", "openclaw/SOUL">>
Hermes   == <<"hermes/MEMORY", "hermes/USER", "hermes/SOUL">>
FilesOf  == [openclaw |-> OpenClaw, hermes |-> Hermes, both |-> OpenClaw \o Hermes]
Files    == ToSet(FilesOf["both"])
Torn     == <<"torn">>       \* opened to be written, and not written
AllOf    == ToSet(Tiers) \cup {"user", "soul"}

VARIABLES bank,    \* entries that a recall may find
          target,
          reads,   \* the recalls still to do
          found,   \* their answers
          writes,  \* the files still to write
          files,
          changes, syncs,
          atStart, \* history: the bank when the last call began
          ended    \* history: the call wrote all its files

mirrorVars == <<bank, target, reads, found, writes, files, changes, syncs, atStart, ended>>

MirrorTypeOK ==
  /\ bank \subseteq Entries /\ atStart \subseteq Entries
  /\ target \in DOMAIN FilesOf
  /\ reads \in Seq(AllOf) /\ writes \in Seq(Files)
  /\ found \in [AllOf -> Seq(Entries)]
  /\ files \in [Files -> Seq(Entries) \cup {Torn}]
  /\ changes \in 0 .. MaxChanges /\ syncs \in 0 .. MaxSyncs /\ ended \in BOOLEAN

MirrorInit ==
  /\ bank = Entries /\ atStart = Entries
  /\ target = "openclaw" /\ reads = <<>> /\ writes = <<>>
  /\ found = [x \in AllOf |-> <<>>]
  /\ files = [f \in Files |-> <<>>]
  /\ changes = 0 /\ syncs = 0 /\ ended = FALSE

Total(es) ==
  LET upto[i \in 0 .. Len(es)] == IF i = 0 THEN 0 ELSE upto[i - 1] + LengthOf[es[i]]
  IN  upto[Len(es)]

\* e among es, after those that are as important.
Placed(es, e) ==
  LET before == {i \in DOMAIN es : ImportanceOf[es[i]] >= ImportanceOf[e]}
  IN  [i \in 1 .. Len(es) + 1 |-> IF i \in before THEN es[i]
                                 ELSE IF i = 1 \/ i - 1 \in before THEN e
                                 ELSE es[i - 1]]

\* sorted(), which keeps the order of what is as important.
ByImportance(es) ==
  LET sorted[i \in 0 .. Len(es)] == IF i = 0 THEN <<>> ELSE Placed(sorted[i - 1], es[i])
  IN  sorted[Len(es)]

-----------------------------------------------------------------------------
(* What goes into a file.                                                  *)

Fits(kept, e) == Total(kept) + LengthOf[e] + Reserve <= MemoryBudget

\* Mutated form of Filled: an entry that does not fit ends its tier.
FilledUntil(es, kept) ==
  LET with[i \in 0 .. Len(es)] ==
        IF i = 0 THEN [kept |-> kept, full |-> FALSE]
        ELSE IF with[i - 1].full \/ ~ Fits(with[i - 1].kept, es[i]) THEN [with[i - 1] EXCEPT !.full = TRUE]
        ELSE [with[i - 1] EXCEPT !.kept = Append(@, es[i])]
  IN  with[Len(es)].kept

\* An entry that does not fit is passed over.
Filled(es, kept) ==
  LET with[i \in 0 .. Len(es)] ==
        IF i = 0 THEN kept
        ELSE IF Fits(with[i - 1], es[i]) THEN Append(with[i - 1], es[i])
        ELSE with[i - 1]
  IN  with[Len(es)]

\* Each tier by its importance; the tiers in their order, in one budget.
HermesMemory(answers) ==
  LET kept[i \in 0 .. Len(Tiers)] ==
        IF i = 0 THEN <<>> ELSE Filled(ByImportance(answers[Tiers[i]]), kept[i - 1])
  IN  kept[Len(Tiers)]

\* e joins es unless its text is there.
Joined(es, e) ==
  IF \E i \in DOMAIN es : TextOf[es[i]] = TextOf[e] THEN es ELSE Append(es, e)

\* The text of one chunk is not repeated; an entry that does not fit ends the
\* list.
Fresh(es) ==
  LET seen[i \in 0 .. Len(es)] == IF i = 0 THEN <<>> ELSE Joined(seen[i - 1], es[i])
  IN  seen[Len(es)]
HermesUser(answers) ==
  LET es == Fresh(ByImportance(answers["user"]))
      fit == {n \in 0 .. Len(es) : \A m \in 1 .. n : Total(SubSeq(es, 1, m)) + Reserve <= UserBudget}
  IN  SubSeq(es, 1, Max(fit))

\* OpenClaw's list has the first of each tier, as they were ranked.
FirstOf(es) == SubSeq(es, 1, Min({MemoryK \div 4, Len(es)}))
OpenClawMemory(answers) ==
  LET kept[i \in 0 .. Len(Tiers)] ==
        IF i = 0 THEN <<>> ELSE kept[i - 1] \o FirstOf(answers[Tiers[i]])
  IN  kept[Len(Tiers)]

Content(file, answers) ==
  CASE file = "openclaw/MEMORY" -> OpenClawMemory(answers)
    [] file = "openclaw/USER"   -> Fresh(answers["user"])
    [] file = "hermes/MEMORY"   -> HermesMemory(answers)
    [] file = "hermes/USER"     -> HermesUser(answers)
    [] OTHER                    -> answers["soul"]

-----------------------------------------------------------------------------
Call(t) ==
  /\ reads = <<>> /\ writes = <<>>
  /\ syncs < MaxSyncs /\ syncs' = syncs + 1
  /\ target' = t
  /\ reads' = Tiers \o <<"user", "soul">>
  /\ found' = [x \in AllOf |-> <<>>]
  /\ atStart' = bank /\ ended' = FALSE
  /\ UNCHANGED <<bank, writes, files, changes>>

\* Some of what the bank has for it, k at most, in some order.
Answers(what) ==
  LET k == CASE what = "user" -> UserK
             [] OTHER         -> MemoryK
      near == {e \in bank : /\ ImportanceOf[e] >= Floor
                            /\ CASE what = "user" -> TRUE
                                 [] what = "soul" -> TierOf[e] = Soul
                                 [] OTHER         -> TierOf[e] = what}
  IN  UNION {SetToSeqs(s) : s \in {s \in SUBSET near : Cardinality(s) <= k}}

Recall ==
  /\ reads # <<>>
  /\ \E answer \in Answers(Head(reads)) : found' = [found EXCEPT ![Head(reads)] = answer]
  /\ reads' = Tail(reads)
  /\ writes' = IF Tail(reads) = <<>> THEN FilesOf[target] ELSE <<>>
  /\ UNCHANGED <<bank, target, files, changes, syncs, atStart, ended>>

\* write_text().
Write ==
  /\ writes # <<>>
  /\ files' = [files EXCEPT ![Head(writes)] = Content(Head(writes), found)]
  /\ writes' = Tail(writes)
  /\ ended' = (Tail(writes) = <<>>)
  /\ UNCHANGED <<bank, target, reads, found, changes, syncs, atStart>>

\* A recall or a write raises, or the process dies: the rest is not done.
Fails ==
  /\ reads # <<>> \/ writes # <<>>
  /\ \/ UNCHANGED files
     \/ writes # <<>> /\ files' = [files EXCEPT ![Head(writes)] = Torn]
  /\ reads' = <<>> /\ writes' = <<>>
  /\ UNCHANGED <<bank, target, found, changes, syncs, atStart, ended>>

Forget(e) ==
  /\ e \in bank
  /\ changes < MaxChanges /\ changes' = changes + 1
  /\ bank' = bank \ {e}
  /\ UNCHANGED <<target, reads, found, writes, files, syncs, atStart, ended>>

MirrorNext ==
  \/ \E t \in DOMAIN FilesOf : Call(t)
  \/ Recall \/ Write \/ Fails
  \/ \E e \in Entries : Forget(e)

-----------------------------------------------------------------------------
(* Properties.                                                             *)

\* Hermes' MEMORY.md is within its budget, leaves nothing out that would have
\* fitted, and leaves something out for a less important memory of its tier
\* only if it is longer (mcp_server.py:1306).
FillHolds ==
  ended /\ target # "openclaw" =>
    LET kept == files["hermes/MEMORY"] IN
      /\ kept # <<>> => Total(kept) + Reserve <= MemoryBudget
      /\ \A t \in ToSet(Tiers) : \A e \in ToSet(found[t]) \ ToSet(kept) :
           /\ Total(kept) + LengthOf[e] + Reserve > MemoryBudget
           /\ \A d \in ToSet(kept) : TierOf[d] = t /\ ImportanceOf[d] < ImportanceOf[e]
                => LengthOf[d] < LengthOf[e]

\* A call that ended well has left nothing in the files of its target that was
\* forgotten before it began, and no text twice in USER.md
\* (mcp_server.py:1130).
FilesFollow ==
  ended =>
    /\ \A f \in ToSet(FilesOf[target]) : ToSet(files[f]) \subseteq atStart
    /\ \A f \in ToSet(FilesOf[target]) \cap {"openclaw/USER", "hermes/USER"} :
         \A i, j \in DOMAIN files[f] : TextOf[files[f][i]] = TextOf[files[f][j]] => i = j
=============================================================================
