---------------------------- MODULE Segmentation ----------------------------
(***************************************************************************)
(* Splitting the text of a reply into phrases that are synthesized one by  *)
(* one: buzztalk-tts/src/segmentation.rs.  A character is reduced to what  *)
(* the rules tell apart: a letter "w", a digit "d", the terminal, clause   *)
(* and blank characters ".", "," and " ", the end of a line "n", the bar   *)
(* of a table "|", and two runs of characters that are one symbol here:    *)
(* "f", the three backticks of a code fence, and "u", the beginning of a   *)
(* URL.  Lengths count these symbols.  A phrase is the set of positions it *)
(* takes from the text, which keeps their order.                           *)
(***************************************************************************)
EXTENDS Integers, Sequences, FiniteSets, FiniteSetsExt

CONSTANTS
  FirstChunkMax,    \* FIRST_CHUNK_MAX_LEN
  MinClauseSplit,   \* MIN_CLAUSE_SPLIT_LEN
  HardCap,          \* HARD_CAP_LEN
  AbsoluteCap       \* ABSOLUTE_CAP_LEN

ASSUME CapAssumption ==
  /\ {FirstChunkMax, MinClauseSplit, HardCap, AbsoluteCap} \subseteq Nat \ {0}
  /\ HardCap < AbsoluteCap

Blank == {" ", "n"}
Positions(text) == 1..Len(text)
Said(text) == {i \in Positions(text) : text[i] \notin Blank}

(* The first of some positions, or the one after the end. *)
FirstOf(text, candidates) == Min(candidates \union {Len(text) + 1})

----------------------------------------------------------------------------
(* protected_mask: the positions where no rule may split. *)

(* A fence is opened by every other one, and protects up to the next or to
   the end of the text, both fences included. *)
CodeFences(text) ==
  LET fences(i) == Cardinality({j \in 1..i : text[j] = "f"})
  IN  {i \in Positions(text) :
         \/ fences(i) % 2 = 1
         \/ text[i] = "f"}

(* A URL runs up to the next blank; one that begins inside a fence is not
   looked at. *)
Urls(text, fenced) ==
  {i \in Positions(text) :
     \E b \in 1..i : /\ text[b] = "u" /\ b \notin fenced
                     /\ \A j \in b..i : text[j] \notin Blank}

(* Digits joined by points and commas, each with a digit on both sides;
   protected only when one of them is a point. *)
Joined(text, i) ==
  \/ text[i] = "d"
  \/ /\ text[i] \in {".", ","}
     /\ i > 1 /\ i < Len(text) /\ text[i - 1] = "d" /\ text[i + 1] = "d"
Numbers(text) ==
  {i \in Positions(text) :
     \E a, b \in Positions(text) :
       /\ a <= i /\ i <= b
       /\ \A j \in a..b : Joined(text, j)
       /\ \E j \in a..b : text[j] = "."}

(* A line with a bar is a line of a table; the end of a line is protected
   when the next line is one too. *)
LineOf(text, i) ==
  {j \in Positions(text) : \A k \in Min({i, j})..Max({i, j}) : text[k] # "n"}
HasBar(text, line) == \E j \in line : text[j] = "|"
Tables(text) ==
  {i \in Positions(text) :
     IF text[i] # "n" THEN HasBar(text, LineOf(text, i))
     ELSE /\ i > 1 /\ HasBar(text, LineOf(text, i - 1))
          /\ i < Len(text) /\ HasBar(text, LineOf(text, i + 1))}

Protected(text) ==
  CodeFences(text) \union Urls(text, CodeFences(text))
    \union Numbers(text) \union Tables(text)

----------------------------------------------------------------------------
(* split: whether the loop splits when it looks at position i of a chunk that
   begins at `start`. *)

Terminal(text, i) == text[i] = "."
ClauseEnd(text, start, first, i) ==
  ~ first /\ text[i] = "," /\ i - start + 1 >= MinClauseSplit
WordEnd(text, start, first, i) ==
  /\ text[i] \in Blank /\ i > start
  /\ \/ first /\ i - start + 1 > FirstChunkMax
     \/ i - start + 1 > HardCap
TooLong(start, i) == i - start + 1 >= AbsoluteCap

(* Mutated form: the absolute cap splits protected text too. *)
SplitsAtCap(text, mask, start, first, i) ==
  \/ TooLong(start, i)
  \/ /\ i \notin mask
     /\ \/ Terminal(text, i) \/ ClauseEnd(text, start, first, i)
        \/ WordEnd(text, start, first, i)

SplitsAt(text, mask, start, first, i) ==
  /\ i \notin mask
  /\ \/ Terminal(text, i) \/ ClauseEnd(text, start, first, i)
     \/ WordEnd(text, start, first, i) \/ TooLong(start, i)

(* The end of the chunk, exclusive: the first place to split, or the end.  A
   blank is left for the next chunk to skip. *)
ChunkEnd(text, mask, start, first) ==
  LET i == FirstOf(text, {j \in start..Len(text) : SplitsAt(text, mask, start, first, j)})
  IN  IF i > Len(text) \/ WordEnd(text, start, first, i) THEN i ELSE i + 1

SkipBlanks(text, i) == FirstOf(text, {j \in i..Len(text) : text[j] \notin Blank})

(* push_chunk trims the chunk and leaves an empty one out.  What is left
   begins and ends with a character that is said. *)
PushChunk(text, start, end) ==
  LET said == {i \in start..end - 1 : text[i] \notin Blank}
  IN  IF said = {} THEN <<>> ELSE << Min(said)..Max(said) >>

(* segment_into_phrases, of a text whose outer blanks are trimmed: what the loop
   adds from `start` on; the first chunk has rules of its own. *)
Segment(text) ==
  LET mask == Protected(text)
      chunksFrom[start \in 1..Len(text) + 1, first \in BOOLEAN] ==
        IF start > Len(text) THEN <<>>
        ELSE LET end == ChunkEnd(text, mask, start, first)
             IN  PushChunk(text, start, end)
                   \o chunksFrom[SkipBlanks(text, end), FALSE]
  IN  chunksFrom[1, TRUE]
=============================================================================
