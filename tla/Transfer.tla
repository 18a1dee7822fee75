------------------------------- MODULE Transfer -------------------------------
(***************************************************************************)
(* brain_export and brain_import of src/mcp_server.py: one brain written to *)
(* a markdown file, tier by tier while others use it, and the file          *)
(* remembered, section by section, by another.                              *)
(*                                                                          *)
(* The file is a sequence of lines, of which only headings are kept: of a   *)
(* tier, or of a memory with its body, whose lines are indented.            *)
(* Memory.remember() of a section is taken as what it does to the tier: it  *)
(* marks the nearest memory superseded if that is a near duplicate, and     *)
(* adds the text unless that is there.                                      *)
(***************************************************************************)
EXTENDS Naturals, Sequences, FiniteSets, SequencesExt

CONSTANTS TierOrder,    \* the tiers, in the order of the export
          Texts,
          Alike,        \* pairs of texts within the near-duplicate distance
          MaxHad,       \* bound: before, memories of the importing brain, and
                        \* superseded ones of the other
          MaxTells,     \* bound: changes to the brain meanwhile
          MaxTrouble    \* bound: collections that raise, memories whose storing raises

VARIABLES home,         \* tier -> text -> what the exported brain has of it
          away,         \* tier -> text -> what the importing brain has of it
          had,          \* history: the same, before
          withOld,      \* include_superseded
          exporting,    \* where the export is
          nextTier,     \* of the export
          lines,        \* written so far, then the file
          sections,     \* left to import
          skipped,      \* texts the import reports as not stored
          missed,       \* tiers whose collection could not be read
          throughout,   \* history: <<tier, text>> shown all the time of the export
          oldBefore,    \* history: superseded before the export began, and since
          tells, trouble

transferVars == <<home, away, had, withOld, exporting, nextTier, lines, sections, skipped, missed,
                  throughout, oldBefore, tells, trouble>>

Tiers == {TierOrder[i] : i \in DOMAIN TierOrder}
Heading(t)    == [kind |-> "tier", tier |-> t, text |-> ""]
Section(t, x) == [kind |-> "memory", tier |-> t, text |-> x]
Brains        == [Tiers -> [Texts -> {"none", "shown", "old"}]]

TransferTypeOK ==
  /\ {home, away, had} \subseteq Brains /\ withOld \in BOOLEAN
  /\ exporting \in {"no", "reading", "done", "importing", "imported"}
  /\ nextTier \in 1 .. Len(TierOrder) + 1
  /\ \A i \in DOMAIN lines : lines[i].tier \in Tiers
  /\ \A i \in DOMAIN sections : sections[i].kind = "memory"
  /\ skipped \subseteq Texts /\ missed \subseteq Tiers
  /\ throughout \subseteq Tiers \X Texts /\ oldBefore \subseteq Tiers \X Texts
  /\ tells \in 0 .. MaxTells /\ trouble \in 0 .. MaxTrouble

Having(w) == {p \in Tiers \X Texts : home[p[1]][p[2]] = w}

TransferInit ==
  /\ home \in Brains
  /\ \A x \in Texts : Cardinality({t \in Tiers : home[t][x] # "none"}) <= 1
  /\ Cardinality(Having("old")) <= MaxHad
  /\ away = [t \in Tiers |-> [x \in Texts |-> "none"]] /\ had = away /\ withOld \in BOOLEAN
  /\ exporting = "no" /\ nextTier = 1
  /\ lines = <<>> /\ sections = <<>>
  /\ skipped = {} /\ missed = {} /\ throughout = {} /\ oldBefore = {}
  /\ tells = 0 /\ trouble = 0

Troubled  == trouble < MaxTrouble /\ trouble' = trouble + 1

-----------------------------------------------------------------------------
\* Someone remembers, supersedes or forgets during the export.
Tell ==
  /\ exporting = "reading" /\ tells < MaxTells /\ tells' = tells + 1
  /\ \E t \in Tiers, x \in Texts :
       /\ \E w \in {"none", "shown", "old"} \ {home[t][x]} :
            /\ home[t][x] = "none" => w = "shown"
            /\ home[t][x] = "old" => w = "none"
            /\ home' = [home EXCEPT ![t][x] = w]
       /\ throughout' = throughout \ {<<t, x>>} /\ oldBefore' = oldBefore \ {<<t, x>>}
  /\ UNCHANGED <<away, had, withOld, exporting, nextTier, lines, sections, skipped, missed, trouble>>

StartExport ==
  /\ exporting = "no"
  /\ exporting' = "reading"
  /\ throughout' = Having("shown") /\ oldBefore' = Having("old")
  /\ UNCHANGED <<home, away, had, withOld, nextTier, lines, sections, skipped, missed, tells, trouble>>

\* One collection is read and written down; one that raises is left out.
ExportTier ==
  /\ exporting = "reading" /\ nextTier <= Len(TierOrder)
  /\ nextTier' = nextTier + 1
  /\ LET t == TierOrder[nextTier]
         chosen == {x \in Texts : home[t][x] = "shown" \/ (withOld /\ home[t][x] = "old")}
     IN  \/ /\ {x \in Texts : home[t][x] # "none"} = {} /\ UNCHANGED <<lines, missed, trouble>>
         \/ /\ {x \in Texts : home[t][x] # "none"} # {}
            /\ \E s \in SetToSeqs(chosen) :
                 lines' = Append(lines, Heading(t)) \o [i \in DOMAIN s |-> Section(t, s[i])]
            /\ UNCHANGED <<missed, trouble>>
         \/ /\ Troubled /\ missed' = missed \cup {t} /\ UNCHANGED lines
  /\ UNCHANGED <<home, away, had, withOld, exporting, sections, skipped, throughout, oldBefore, tells>>

\* The file is written.
FinishExport ==
  /\ exporting = "reading" /\ nextTier > Len(TierOrder)
  /\ exporting' = "done"
  /\ UNCHANGED <<home, away, had, withOld, nextTier, lines, sections, skipped, missed, throughout,
                 oldBefore, tells, trouble>>

-----------------------------------------------------------------------------
\* Mutated form of Line: a heading of a tier is taken for a memory.
LineOfAny(acc, l) ==
  [chunks |-> acc.chunks \o acc.current, current |-> <<l>>]

\* One line: a heading ends the memory before it, and a memory waits for its
\* end.
Line(acc, l) ==
  [chunks  |-> IF acc.current = <<>> THEN acc.chunks ELSE acc.chunks \o acc.current,
   current |-> IF l.kind = "memory" THEN <<l>> ELSE <<>>]

ReadTo(ls) ==
  LET read[i \in 0 .. Len(ls)] ==
        IF i = 0 THEN [chunks |-> <<>>, current |-> <<>>] ELSE Line(read[i - 1], ls[i])
  IN  read[Len(ls)]

\* _parse_export_chunks()
Parsed(ls) == ReadTo(ls).chunks \o ReadTo(ls).current

\* Some brain, with memories of its own, reads the file.
ReadFile ==
  /\ exporting = "done"
  /\ exporting' = "importing"
  /\ sections' = Parsed(lines)
  /\ \E b \in Brains : /\ Cardinality({p \in Tiers \X Texts : b[p[1]][p[2]] # "none"}) <= MaxHad
                       /\ away' = b /\ had' = b
  /\ UNCHANGED <<home, withOld, nextTier, lines, skipped, missed, throughout, oldBefore, tells, trouble>>

\* What remember() leaves before it adds: the nearest memory of the tier marked
\* if it is another text and a near duplicate; nothing marked if the query raises.
Superseding(t, x) ==
  {away} \cup {[away EXCEPT ![t][y] = "old"] :
                 y \in {y \in Texts \ {x} : {x, y} \in Alike /\ away[t][y] = "shown"}}

\* A section is remembered in the tier its heading names.  A text that is there
\* already is not stored again; one whose storing raises, possibly after the mark,
\* is counted and passed over like it.
ImportSection ==
  /\ exporting = "importing" /\ sections # <<>>
  /\ sections' = Tail(sections)
  /\ LET s == Head(sections)
         new == away[s.tier][s.text] = "none"
     IN  /\ \E now \in Superseding(s.tier, s.text) :
              \/ /\ away' = IF new THEN [now EXCEPT ![s.tier][s.text] = "shown"] ELSE now
                 /\ skipped' = IF new THEN skipped ELSE skipped \cup {s.text}
                 /\ UNCHANGED trouble
              \/ Troubled /\ skipped' = skipped \cup {s.text} /\ away' = now
  /\ UNCHANGED <<home, had, withOld, exporting, nextTier, lines, missed, throughout, oldBefore, tells>>

FinishImport ==
  /\ exporting = "importing" /\ sections = <<>>
  /\ exporting' = "imported"
  /\ UNCHANGED <<home, away, had, withOld, nextTier, lines, sections, skipped, missed, throughout,
                 oldBefore, tells, trouble>>

TransferNext == Tell \/ StartExport \/ ExportTier \/ FinishExport \/ ReadFile \/ ImportSection \/ FinishImport

-----------------------------------------------------------------------------
(* Properties.                                                             *)

\* The text is shown by the importing brain, or has given way to a near duplicate
\* that the file has for the same tier.
Given(t, x) ==
  \/ away[t][x] = "shown"
  \/ away[t][x] = "old" /\ \E y \in Texts \ {x} : {x, y} \in Alike /\ Section(t, y) \in Range(lines)

\* What was shown all the time of the export is in the brain that imported it,
\* in the same tier, but for what was reported as skipped and collections that
\* could not be read; it is shown, and so is all that the importing brain showed
\* before, unless a near duplicate from the file has superseded it
\* (memory.py:390).  What was superseded all the time comes up nowhere, unless it
\* was asked for (mcp_server.py:2026).
RoundTrip ==
  /\ exporting = "imported" =>
       \A p \in throughout : p[1] \notin missed /\ p[2] \notin skipped => Given(p[1], p[2])
  /\ \A t \in Tiers, x \in Texts : had[t][x] = "shown" => Given(t, x)
  /\ ~ withOld => \A p \in oldBefore :
                    away[p[1]][p[2]] # "none" => had[p[1]][p[2]] # "none"

=============================================================================
