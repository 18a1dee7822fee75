-------------------------------- MODULE Chunker --------------------------------
(***************************************************************************)
(* chunk_markdown() of src/src/chunk.py: how a file becomes chunks.  A text *)
(* is a sequence of characters, numbers here: a word is one character, that *)
(* of its place in the file, so that no two words are alike, and so is the  *)
(* line of a header.  ". " stands for itself, "? " and "! ", which the code *)
(* tries one after another and treats alike.                               *)
(*                                                                         *)
(* The file grows at its end, as a diary does, and is chunked each time.    *)
(***************************************************************************)
EXTENDS Integers, Sequences, FiniteSetsExt, SequencesExt

CONSTANTS Size,     \* chunk_chars
          Overlap,  \* overlap_chars
          Probe,    \* how much of an overlap is looked for: tail[-100:]
          Added,    \* what may be added to the file: sequences over Marks
          MaxText   \* bound: characters of the file

VARIABLES text,     \* the file
          chunks    \* what chunk_markdown() makes of it
chunkerVars == <<text, chunks>>

Marks == {"word", "header", "space", "newline", "stop"}
Space == -1
Newline == -2
Stop == -3
Continued == -4     \* "[...continued from previous section: ...]"
NoHeader == 0

IsWord(c) == c \in 1 .. MaxText
IsHeader(c) == c > MaxText
Blank(c) == c \in {Space, Newline}

\* str.strip(), and t[-n:].
Strip(t) ==
  LET ink == {i \in DOMAIN t : ~ Blank(t[i])}
  IN  IF ink = {} THEN <<>> ELSE SubSeq(t, Min(ink), Max(ink))
LastOf(t, n) == SubSeq(t, Max({1, Len(t) - n + 1}), Len(t))

\* str.split(sep): occurrences are found from the left and do not overlap.
Taken(a, c, sep) ==
  LET open == Append(a.open, c)
  IN  IF LastOf(open, Len(sep)) = sep
        THEN [done |-> Append(a.done, SubSeq(open, 1, Len(open) - Len(sep))), open |-> <<>>]
        ELSE [done |-> a.done, open |-> open]
Split(t, sep) ==
  LET upTo[i \in 0 .. Len(t)] ==
        IF i = 0 THEN [done |-> <<>>, open |-> <<>>] ELSE Taken(upTo[i - 1], t[i], sep)
      end == upTo[Len(t)]
  IN  Append(end.done, end.open)

Join(pieces, sep) ==
  FlattenSeq([i \in DOMAIN pieces |-> IF i = 1 THEN pieces[1] ELSE sep \o pieces[i]])

Sentence == <<Stop, Space>>
SEPARATORS == <<<<Newline, Newline>>, <<Newline>>, Sentence, <<Space>>, <<>>>>

\* _split_by_separator(): a sentence keeps its stop.
Parts(t, sep) ==
  IF sep = <<>> THEN [i \in DOMAIN t |-> <<t[i]>>]
  ELSE LET p == Split(t, sep)
       IN  IF sep = Sentence THEN [i \in DOMAIN p |-> IF i < Len(p) THEN p[i] \o sep ELSE p[i]]
           ELSE p

\* Mutated form of Put: the separators are not counted.
PutUncounted(a, p, sep) ==
  LET total == a.len + Len(p)
  IN  IF p = <<>> THEN a
      ELSE IF a.open # <<>> /\ total > Size
        THEN [done |-> Append(a.done, Join(a.open, sep)), open |-> <<p>>, len |-> Len(p)]
      ELSE [done |-> a.done, open |-> Append(a.open, p), len |-> total]

\* _merge(): neighbours are joined, by the separator, while they fit.
Put(a, p, sep) ==
  LET total == a.len + Len(p) + IF a.open = <<>> THEN 0 ELSE Len(sep)
  IN  IF p = <<>> THEN a
      ELSE IF a.open # <<>> /\ total > Size
        THEN [done |-> Append(a.done, Join(a.open, sep)), open |-> <<p>>, len |-> Len(p)]
      ELSE [done |-> a.done, open |-> Append(a.open, p), len |-> total]
Merge(pieces, sep) ==
  LET upTo[i \in 0 .. Len(pieces)] ==
        IF i = 0 THEN [done |-> <<>>, open |-> <<>>, len |-> 0] ELSE Put(upTo[i - 1], pieces[i], sep)
      end == upTo[Len(pieces)]
  IN  IF end.open = <<>> THEN end.done ELSE Append(end.done, Join(end.open, sep))

\* _recursive_split(): what is too long after one separator is split at the
\* next, and in the end cut after every Size characters.
Refine(pieces, sep) ==
  FlattenSeq([i \in DOMAIN pieces |->
    IF Len(pieces[i]) <= Size THEN <<pieces[i]>> ELSE Merge(Parts(pieces[i], sep), sep)])
Cut(pieces) ==
  FlattenSeq([i \in DOMAIN pieces |->
    [w \in 1 .. (Len(pieces[i]) + Size - 1) \div Size |->
       SubSeq(pieces[i], (w - 1) * Size + 1, Min({w * Size, Len(pieces[i])}))]])
Refined(t) ==
  LET upTo[i \in 0 .. Len(SEPARATORS)] ==
        IF i = 0 THEN <<t>> ELSE Refine(upTo[i - 1], SEPARATORS[i])
  IN  upTo[Len(SEPARATORS)]
RecursiveSplit(t) == IF Strip(t) = <<>> /\ Len(t) <= Size THEN <<>> ELSE Cut(Refined(t))

\* The first pass: a header and the lines under it, from header to header.
Under(a, l) ==
  IF l # <<>> /\ IsHeader(Head(l))
    THEN [done |-> Append(a.done, [header |-> a.header, lines |-> a.lines]),
          header |-> Head(l), lines |-> <<>>]
    ELSE [done |-> a.done, header |-> a.header, lines |-> Append(a.lines, l)]
Sections(t) ==
  LET ls == Split(t, <<Newline>>)
      upTo[i \in 0 .. Len(ls)] ==
        IF i = 0 THEN [done |-> <<>>, header |-> NoHeader, lines |-> <<>>] ELSE Under(upTo[i - 1], ls[i])
      end == upTo[Len(ls)]
  IN  Append(end.done, [header |-> end.header, lines |-> end.lines])

\* The chunks before they overlap: `verbatim_text`, and the header.
Pieces(s) ==
  LET split == RecursiveSplit(Strip(Join(s.lines, <<Newline>>)))
  IN  FlattenSeq([i \in DOMAIN split |->
        IF Strip(split[i]) = <<>> THEN <<>>
        ELSE <<[verbatim |-> Strip(split[i]), header |-> s.header]>>])
Verbatim(t) == FlattenSeq([i \in DOMAIN Sections(t) |-> Pieces(Sections(t)[i])])

\* The end of the text before is put in front of a text, unless it starts so;
\* the text before has its own front by then.
Prefixed(a, c) ==
  LET tail == IF a = <<>> THEN <<>> ELSE Strip(LastOf(a[Len(a)].text, Overlap))
  IN  IF tail = <<>> \/ IsPrefix(LastOf(tail, Probe), c.verbatim) THEN c.verbatim
      ELSE <<Continued, Newline, Newline>> \o tail \o <<Newline, Newline>> \o c.verbatim
Overlapped(cs) ==
  LET upTo[i \in 0 .. Len(cs)] ==
        IF i = 0 THEN <<>>
        ELSE Append(upTo[i - 1], [text |-> Prefixed(upTo[i - 1], cs[i]),
                                  verbatim |-> cs[i].verbatim, header |-> cs[i].header])
  IN  upTo[Len(cs)]

chunk_markdown(t) == Overlapped(Verbatim(t))

\* Chunk.id: a hash of the text, and the number of the chunk in its file.
Id(i) == <<chunks[i].text, i>>

Characters == {Space, Newline, Stop, Continued} \cup 1 .. 2 * MaxText
ChunkerTypeOK ==
  /\ text \in Seq(Characters \ {Continued}) /\ Len(text) <= MaxText
  /\ chunks \in Seq([text : Seq(Characters), verbatim : Seq(Characters \ {Continued}),
                     header : {NoHeader} \cup MaxText + 1 .. 2 * MaxText])

-----------------------------------------------------------------------------
ChunkerInit == text = <<>> /\ chunks = <<>>

Char(m, i) ==
  CASE m = "word"    -> i
    [] m = "header"  -> MaxText + i
    [] m = "space"   -> Space
    [] m = "newline" -> Newline
    [] m = "stop"    -> Stop

\* The file gets longer, and is chunked again.
Write(piece) ==
  /\ Len(text) + Len(piece) <= MaxText
  /\ text' = text \o [i \in DOMAIN piece |-> Char(piece[i], Len(text) + i)]
  /\ chunks' = chunk_markdown(text')

ChunkerNext == \E piece \in Added : Write(piece)

-----------------------------------------------------------------------------
(* Properties.                                                             *)

\* No chunk is longer than was asked for, whatever is joined and stripped
\* (chunk.py:129).
ChunksFit == \A i \in DOMAIN chunks : Len(chunks[i].verbatim) <= Size

\* Every word outside the headers is in one chunk, once, and they are in the
\* order of the file (chunk.py:156).
Words(t) == FlattenSeq([i \in DOMAIN t |-> IF IsWord(t[i]) THEN <<t[i]>> ELSE <<>>])
WordsKept == Words(FlattenSeq([i \in DOMAIN chunks |-> chunks[i].verbatim])) = Words(text)

\* A chunk belongs to the section that all its words are in (chunk.py:188).
OwnSection ==
  LET Above(w) == {c \in ToSet(text) : IsHeader(c) /\ c - MaxText < w}
  IN  \A i \in DOMAIN chunks : \A w \in {c \in ToSet(chunks[i].verbatim) : IsWord(c)} :
        chunks[i].header = Max(Above(w) \cup {NoHeader})

\* What is added to the end of a file changes its last chunk only: the others
\* keep their ids, and the watcher has them embedded already (chunk.py:62).
AppendTouchesLast ==
  [][\A i \in 1 .. Len(chunks) - 1 : i \in DOMAIN chunks' /\ Id(i)' = Id(i)]_chunkerVars

\* verbatim_text is "the source bytes, not the contextualized chunk-as-stored"
\* (chunk.py:240): a stretch of the file.
VerbatimIsSource ==
  \A i \in DOMAIN chunks : \E j \in 0 .. Len(text) - Len(chunks[i].verbatim) :
    chunks[i].verbatim = SubSeq(text, j + 1, j + Len(chunks[i].verbatim))
=============================================================================
