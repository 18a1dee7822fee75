------------------------------ MODULE MCStores ------------------------------
(***************************************************************************)
(* The stores, checked in one run: memory blocks (B), the knowledge graph   *)
(* (G), skills (S), coding memory (C), archives of data/ (A), its move by    *)
(* export and import (T) and the files written for agents (M).  They share   *)
(* no state, so a behaviour is one of `part` while the others rest.          *)
(***************************************************************************)
EXTENDS Integers, Sequences, FiniteSets
LOCAL INSTANCE TLC

CONSTANTS Writers, Absent, NoOne,
          Clients, Names, Plans, Nobody,
          Chunks, Titles, Slugs, SlugOf, Promotions, NoSlug, NoTitle, MaxEdits,
          Parts, Void, MaxWrites, MaxArchives, MaxCrashes,
          TierOrder, Texts, Alike, MaxHad, MaxTells, MaxTrouble,
          Runs, Touched, Message, Subject, Distilled, Limit, MaxMishaps,
          Layers, Soul, Entries, TierOf, ImportanceOf, TextOf, LengthOf, Floor,
          MemoryK, UserK, MemoryBudget, UserBudget, Reserve, MaxChanges, MaxSyncs

\* What stands for nothing is none of what there is.
ASSUME BlocksAssumption == \A c \in SUBSET Writers : c # Absent
\* Bounds are numbers, chroma/ is a part of data/, and each title has a slug.
ASSUME ArchiveAssumption ==
  /\ MaxWrites \in Nat /\ MaxArchives \in Nat /\ MaxCrashes \in Nat
  /\ "chroma" \in Parts
ASSUME SkillsAssumption ==
  /\ SlugOf \in [Titles -> Slugs] /\ NoSlug \notin Slugs /\ NoTitle \notin Titles /\ MaxEdits \in Nat
ASSUME TransferAssumption ==
  /\ Len(TierOrder) \in Nat /\ DOMAIN TierOrder = 1 .. Len(TierOrder)
  /\ IsFiniteSet(Texts) /\ MaxHad \in Nat /\ MaxTells \in Nat /\ MaxTrouble \in Nat
\* A commit touches a sequence of files and has lines of text, and what the
\* writer makes of it is unlike any subject and what it makes of any other.
ASSUME ChainAssumption ==
  /\ Len(Touched) \in Nat /\ Limit \in Nat \ {0} /\ MaxMishaps \in Nat
  /\ \A c \in 1 .. Len(Touched) :
       /\ Touched[c] \in Seq(STRING)
       /\ Message[c] \in [pathlike : Seq(STRING), later : Seq(STRING)]
       /\ \A d \in 1 .. Len(Touched) :
            Distilled[c] # Subject[d] /\ (Distilled[c] = Distilled[d] => c = d)

\* The tiers are told apart, also from the two recalls of their own; lengths,
\* importance and budgets are numbers.
ASSUME MirrorAssumption ==
  /\ Layers \in Seq(STRING) /\ \A i, j \in 1 .. Len(Layers) : Layers[i] = Layers[j] => i = j
  /\ \A i \in 1 .. Len(Layers) : Layers[i] \notin {"user", "soul"}
  /\ IsFiniteSet(Entries) /\ LengthOf \in [Entries -> Nat] /\ ImportanceOf \in [Entries -> Int]
  /\ {MemoryK, UserK, MemoryBudget, UserBudget, Reserve, MaxChanges, MaxSyncs} \subseteq Nat

VARIABLES part,
          content, history, place, req, plan, read, queue,
          entities, facts, stamps, todo, job, step, mid, held, ends, told, raced,
          mark, title, of, called, force, where, seen, edits, overlap,
          live, writes, archives, temp, cmd, crashes, aim, newer,
          home, away, had, withOld, exporting, nextTier, lines, sections, skipped, missed,
          throughout, oldBefore, tells, trouble,
          head, records, at, log, already, pos, last, writer, mishaps, walked, together,
          bank, target, reads, found, toWrite, files, changes, syncs, atStart, ended

B == INSTANCE Blocks
G == INSTANCE Graph
S == INSTANCE Skills
A == INSTANCE Archive WITH Missing <- Void
T == INSTANCE Transfer
C == INSTANCE Chain
M == INSTANCE Mirror WITH writes <- toWrite, Tiers <- Layers

blockVars    == <<content, history, place, req, plan, read, queue>>
graphVars    == <<entities, facts, stamps, todo, job, step, mid, held, ends, told, raced>>
skillVars    == <<mark, title, of, called, force, where, seen, edits, overlap>>
archiveVars  == <<live, writes, archives, temp, cmd, crashes, aim, newer>>
transferVars == <<home, away, had, withOld, exporting, nextTier, lines, sections, skipped, missed,
                  throughout, oldBefore, tells, trouble>>
chainVars    == <<head, records, at, log, already, pos, last, writer, mishaps, walked, together>>
mirrorVars   == <<bank, target, reads, found, toWrite, files, changes, syncs, atStart, ended>>

\* A plan is a sequence of jobs; nobody is neither a job nor an entity.
ASSUME GraphAssumption == Plans \subseteq Seq(G!Jobs) /\ Nobody \notin G!Jobs /\ Nobody \notin Nat

\* A part that rests has one initial state.
BRests == \A r \in Writers : req[r] = "write"
GRests == todo = (CHOOSE p \in Plans : TRUE)
SRests == \A p \in Promotions :
            of[p] = (CHOOSE c \in Chunks : TRUE) /\ called[p] = (CHOOSE t \in Titles : TRUE) /\ ~ force[p]
TRests == withOld = FALSE /\ \A t \in DOMAIN home, x \in Texts : home[t][x] = "none"

Init ==
  /\ part \in {"blocks", "graph", "skills", "archive", "transfer", "chain", "mirror"}
  /\ B!BlocksInit /\ (part = "blocks" \/ BRests)
  /\ G!GraphInit /\ (part = "graph" \/ GRests)
  /\ S!SkillsInit /\ (part = "skills" \/ SRests)
  /\ A!ArchiveInit
  /\ T!TransferInit /\ (part = "transfer" \/ TRests)
  /\ C!ChainInit /\ M!MirrorInit

Next ==
  /\ UNCHANGED part
  /\ \/ part = "blocks" /\ B!BlocksNext
        /\ UNCHANGED <<graphVars, skillVars, archiveVars, transferVars, chainVars, mirrorVars>>
     \/ part = "graph" /\ G!GraphNext
        /\ UNCHANGED <<blockVars, skillVars, archiveVars, transferVars, chainVars, mirrorVars>>
     \/ part = "skills" /\ S!SkillsNext
        /\ UNCHANGED <<blockVars, graphVars, archiveVars, transferVars, chainVars, mirrorVars>>
     \/ part = "archive" /\ A!ArchiveNext
        /\ UNCHANGED <<blockVars, graphVars, skillVars, transferVars, chainVars, mirrorVars>>
     \/ part = "transfer" /\ T!TransferNext
        /\ UNCHANGED <<blockVars, graphVars, skillVars, archiveVars, chainVars, mirrorVars>>
     \/ part = "chain" /\ C!ChainNext
        /\ UNCHANGED <<blockVars, graphVars, skillVars, archiveVars, transferVars, mirrorVars>>
     \/ part = "mirror" /\ M!MirrorNext
        /\ UNCHANGED <<blockVars, graphVars, skillVars, archiveVars, transferVars, chainVars>>

Spec ==
  Init /\ [][Next]_<<part, blockVars, graphVars, skillVars, archiveVars,
                     transferVars, chainVars, mirrorVars>>

-----------------------------------------------------------------------------
(* The properties of the parts, by their names there, each of the part that *)
(* runs: those at rest are in their initial states.                         *)

\* Every variable of the part that runs is of its type.
TypeOK ==
  CASE part = "blocks"   -> B!BlocksTypeOK
    [] part = "skills"   -> S!SkillsTypeOK
    [] part = "archive"  -> A!ArchiveTypeOK
    [] part = "transfer" -> T!TransferTypeOK
    [] part = "chain"    -> C!ChainTypeOK
    [] part = "mirror"   -> M!MirrorTypeOK
    [] part = "graph"    -> G!GraphTypeOK

\* The history of a block ends with what it holds (blocks.py:160), and a
\* request about a block that fails has changed nothing (base.py:1126).
BlocksHold == part = "blocks" => B!RecordIsContent /\ B!FailureLeavesNoTrace
\* Merging what is double never loses a fact that was told (graph.py:484), and
\* an alias an entity lists leads to it if changes do not overlap (graph.py:207).
GraphHolds == part = "graph" => G!FactsKept /\ G!ListedAliasResolves
\* A chunk marked as promoted has its SKILL.md (skill_pipeline.py:391), and
\* promoting again leaves no orphan (skill_pipeline.py:320); the commits that a
\* run has been past have a record, and one if runs do not overlap, and links
\* lead back (coding.py:126).
WorkIsKept ==
  CASE part = "skills" -> S!PromotedHasFile /\ S!NoOrphan
    [] part = "chain"  -> C!NoGaps /\ C!StoredOnce /\ C!LinksLead
    [] OTHER           -> TRUE
\* What a restore was to bring survives its death (cli.py:1207), and is what
\* data/ holds when it ends (cli.py:1209).
RestoreHolds == [][A!SomeCopyRemains']_archiveVars /\ A!AppliedIsArchived
\* No restore without --force takes anything away (cli.py:1100).
KeptWithoutForce == A!KeptWithoutForce
\* An import brings what the export found, or says what it did not
\* (mcp_server.py:2026); the files agents read are filled as their budget
\* allows, with nothing that was forgotten (mcp_server.py:1306).
FilesHold ==
  CASE part = "transfer" -> T!RoundTrip
    [] part = "mirror"   -> M!FillHolds /\ M!FilesFollow
    [] OTHER             -> TRUE

-----------------------------------------------------------------------------
\* Requests to promote differ in what they start with only, runs of the chain in
\* nothing, and nor do texts that are alike to one other.
Outer     == {x \in Texts : Cardinality({p \in Alike : x \in p}) = 1}
\* One part runs at a time, so these may be swapped together.
Swaps(s)  == {p \in Permutations(s) : Cardinality({e \in s : p[e] # e}) = 2}
Symmetric == {p @@ o @@ r : p \in Swaps(Promotions), o \in Swaps(Outer), r \in Swaps(Runs)}

MCTierOrder == <<"working", "semantic">>
MCSlugOf == [t \in Titles |-> IF t = "t1" THEN "s1" ELSE "s2"]
Job(t, f, g, a) == [tool |-> t, from |-> f, to |-> g, aliases |-> a]
Tell    == Job("tell", "a", "b", {})
FeedAB  == Job("feed", "a", "b", {"c", "d"})
FeedCB  == Job("feed", "c", "b", {"b"})
Cognify == Job("cognify", "a", "a", {})
Rec     == Job("reconcile", "a", "a", {})
MCPlans == {<<Tell, Tell, Cognify, Cognify, Tell>>, <<FeedAB, Tell, Cognify, Rec>>,
            <<FeedAB, FeedCB, Cognify>>, <<FeedCB, Tell, FeedAB, Cognify, Rec>>}

\* The third commit has a trailer in common with the first, and the fourth, a
\* merge, names a file.
Body(p, l)  == [pathlike |-> p, later |-> l]
MCTouched   == <<<<"f">>, <<"f", "g">>, <<"g">>, <<>>>>
MCMessage   == <<Body(<<>>, <<"by">>), Body(<<>>, <<>>), Body(<<>>, <<"by">>), Body(<<"g">>, <<>>)>>
MCSubject   == <<"s1", "s2", "s3", "s2">>
MCDistilled == <<"d1", "d2", "d3", "d4">>

MCTiers  == <<"working", "procedural">>
MCTierOf == [w1 |-> "working", w2 |-> "working", w3 |-> "working",
             p1 |-> "procedural", p2 |-> "procedural"]
MCImportanceOf == [w1 |-> 9, w2 |-> 5, w3 |-> 2, p1 |-> 7, p2 |-> 1]
MCTextOf   == [w1 |-> "x", w2 |-> "y", w3 |-> "z", p1 |-> "x", p2 |-> "v"]
MCLengthOf == [w1 |-> 2, w2 |-> 5, w3 |-> 2, p1 |-> 2, p2 |-> 1]
=============================================================================
