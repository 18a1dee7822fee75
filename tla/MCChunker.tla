------------------------------ MODULE MCChunker ------------------------------
(***************************************************************************)
(* The chunker with its constants, as MCMemory checks it beside the other   *)
(* parts and ChunkerProofs proves about it without them.                    *)
(***************************************************************************)
EXTENDS Naturals, Sequences

CONSTANTS Size, Overlap, Sample, Added, MaxText
VARIABLES text, chunks

C == INSTANCE Chunker WITH Probe <- Sample

chunkerVars == <<text, chunks>>

ASSUME ChunkerAssumption ==
  /\ Size \in Nat \ {0} /\ Overlap \in Nat /\ Sample \in Nat /\ MaxText \in Nat
  /\ Added \subseteq Seq(C!Marks)
  /\ \A p \in Added : \A i \in DOMAIN p :   \* a header has its line
       p[i] = "header" => i > 1 /\ p[i - 1] = "newline" /\ i < Len(p) /\ p[i + 1] = "newline"
=============================================================================
