------------------------------ MODULE Splitter ------------------------------
(***************************************************************************)
(* One call of DefaultSplitter.Split (splitter.go): a text is cut into     *)
(* chunks of at most chunkSize runes that overlap.                         *)
(*                                                                         *)
(* A rune is "x" (it is part of a word), " ", "\n" or "\r".  The splitter  *)
(* looks at no more of it.  The model carries the POSITION of a rune in    *)
(* the normalised text instead of the rune, so that a property can tell    *)
(* two equal runes apart; Glue is a rune of the "\n\n" that Split puts     *)
(* between two paragraphs, which has no position.                          *)
(***************************************************************************)
EXTENDS Integers, Sequences, FiniteSets

CONSTANTS Texts,             \* the texts to split
          Sizes,             \* the values of DefaultSplitter.ChunkSize
          Overlaps,          \* the values of DefaultSplitter.Overlap
          DefaultChunkSize   \* what a ChunkSize <= 0 stands for

ASSUME TextsAssumption == Texts \subseteq Seq({"x", " ", "\n", "\r"})
ASSUME SizesAssumption == Sizes \subseteq Int /\ Overlaps \subseteq Int
ASSUME DefaultAssumption == DefaultChunkSize \in Nat \ {0}

VARIABLES text,        \* the argument, then the normalised text
          chunkSize,
          overlap,
          paragraphs,
          i,           \* how many of them the loop has reached
          inputs,      \* what appendRunes has still to append, call by call
          current,     \* the runes of the chunk under construction
          hasNewContent,
          chunks,      \* the contents of the drafts; the ordinal is the index
          pc

vars == <<text, chunkSize, overlap, paragraphs, i, inputs, current,
          hasNewContent, chunks, pc>>

Glue == 0
BlankRune(t, r) == r = Glue \/ t[r] # "x"
WordRunes(t) == {r \in DOMAIN t : t[r] = "x"}

-----------------------------------------------------------------------------
(* The text: its line ends and its paragraphs.                             *)

\* A set of positions, in their order.
InOrder(S) ==
    [k \in 1..Cardinality(S) |-> CHOOSE r \in S : Cardinality({s \in S : s < r}) = k - 1]

(***************************************************************************)
(* "\r\n" and "\r" become "\n".  Trimming the text takes away no word.     *)
(***************************************************************************)
NormalizeText(t) ==
    LET kept == InOrder({r \in DOMAIN t : ~(t[r] = "\n" /\ r > 1 /\ t[r - 1] = "\r")})
    IN  [k \in DOMAIN kept |-> IF t[kept[k]] = "\r" THEN "\n" ELSE t[kept[k]]]

(***************************************************************************)
(* Splitting at "\n\n" and trimming the parts leaves nothing of a run of   *)
(* two or more line ends, whatever its length.                             *)
(***************************************************************************)
InBlankLine(t, r) ==
    t[r] = "\n" /\ \E s \in {r - 1, r + 1} \cap DOMAIN t : t[s] = "\n"
SameParagraph(t, from, to) == \A r \in from..to : ~InBlankLine(t, r)

(***************************************************************************)
(* The trimmed, non-empty parts: each begins and ends with a word rune.    *)
(***************************************************************************)
SplitParagraphs(t) ==
    LET words == WordRunes(t)
        opens(r) == \A s \in words : s < r => ~SameParagraph(t, s, r)
        first == InOrder({r \in words : opens(r)})
        last(r) == CHOOSE s \in words :
                     /\ s >= r /\ SameParagraph(t, r, s)
                     /\ \A u \in words : u > s => ~SameParagraph(t, r, u)
    IN  [p \in DOMAIN first |->
            [k \in 1..(last(first[p]) - first[p] + 1) |-> first[p] + k - 1]]

TrimSpace(t, runes) ==
    LET words == {k \in DOMAIN runes : ~BlankRune(t, runes[k])}
        least == CHOOSE k \in words : \A l \in words : k <= l
        most == CHOOSE k \in words : \A l \in words : k >= l
    IN  IF words = {} THEN <<>> ELSE SubSeq(runes, least, most)

-----------------------------------------------------------------------------
(* Building chunks.                                                        *)

\* mutant: the kept runes are taken from the wrong end
HeadRunes(runes, size) == IF Len(runes) <= size THEN runes ELSE SubSeq(runes, 1, size)
TailRunes(runes, size) ==
    IF Len(runes) <= size THEN runes
    ELSE SubSeq(runes, Len(runes) - size + 1, Len(runes))

\* mutant: blank runes are not given up
EmitOrKeep(drafts, cur, new) ==
    LET content == TrimSpace(text, cur)
    IN  IF ~new \/ content = <<>>
        THEN [drafts |-> drafts, kept |-> cur, new |-> new]
        ELSE [drafts |-> Append(drafts, content),
              kept |-> TailRunes(cur, overlap), new |-> FALSE]

(***************************************************************************)
(* emitChunk on the runes cur, of which new says whether any was appended  *)
(* since the last chunk: the drafts, the runes kept and the new flag.      *)
(***************************************************************************)
EmitChunk(drafts, cur, new) ==
    LET content == TrimSpace(text, cur)
    IN  IF cur = <<>> \/ ~new
        THEN [drafts |-> drafts, kept |-> cur, new |-> new]
        ELSE IF content = <<>>
        THEN [drafts |-> drafts, kept |-> <<>>, new |-> FALSE]
        ELSE [drafts |-> Append(drafts, content),
              kept |-> TailRunes(cur, overlap), new |-> FALSE]

TakeAll(available, input) == Len(input)  \* mutant: no limit
Take(available, input) == IF available < Len(input) THEN available ELSE Len(input)

EffectiveOverlap(o, size) ==
    IF o < 0 THEN 0 ELSE IF o >= size THEN size \div 4 ELSE o

(***************************************************************************)
(* Split puts the text and its settings right, rejects a blank text, and   *)
(* cuts it into paragraphs.                                                *)
(***************************************************************************)
Normalize ==
    /\ pc = "start"
    /\ text' = NormalizeText(text)
    /\ LET size == IF chunkSize <= 0 THEN DefaultChunkSize ELSE chunkSize
       IN  chunkSize' = size /\ overlap' = EffectiveOverlap(overlap, size)
    /\ pc' = "normalized"
    /\ UNCHANGED <<paragraphs, i, inputs, current, hasNewContent, chunks>>

Start ==
    /\ pc = "normalized"
    /\ IF WordRunes(text) = {}
       THEN pc' = "rejected" /\ UNCHANGED paragraphs
       ELSE pc' = "splitting" /\ paragraphs' = SplitParagraphs(text)
    /\ UNCHANGED <<text, chunkSize, overlap, i, inputs, current, hasNewContent, chunks>>

GlueFitsExactly(cur) == chunkSize - Len(cur) >= 2  \* mutant: off by one
GlueFits(cur) == chunkSize - Len(cur) > 2

(***************************************************************************)
(* The loop over the paragraphs: a paragraph that is not the first is      *)
(* joined to what stands before it, if the joint leaves room for a rune.   *)
(***************************************************************************)
NextParagraph ==
    /\ pc = "splitting"
    /\ inputs = <<>>
    /\ i < Len(paragraphs)
    /\ inputs' = IF i > 0 /\ GlueFits(current)
                 THEN << <<Glue, Glue>>, paragraphs[i + 1] >>
                 ELSE << paragraphs[i + 1] >>
    /\ i' = i + 1
    /\ UNCHANGED <<text, chunkSize, overlap, paragraphs, current, hasNewContent, chunks, pc>>

(***************************************************************************)
(* One turn of the loop of appendRunes, which emits a chunk before it      *)
(* appends when there is no room and after it when the chunk is full.      *)
(***************************************************************************)
AppendRunes ==
    /\ inputs # <<>>
    /\ LET input == Head(inputs)
           before == IF Len(current) = chunkSize
                     THEN EmitChunk(chunks, current, hasNewContent)
                     ELSE [drafts |-> chunks, kept |-> current, new |-> hasNewContent]
           take == Take(chunkSize - Len(before.kept), input)
           filled == before.kept \o SubSeq(input, 1, take)
           after == IF Len(filled) = chunkSize
                    THEN EmitChunk(before.drafts, filled, TRUE)
                    ELSE [drafts |-> before.drafts, kept |-> filled, new |-> TRUE]
           left == SubSeq(input, take + 1, Len(input))
       IN  /\ inputs' = (IF left = <<>> THEN <<>> ELSE <<left>>) \o Tail(inputs)
           /\ chunks' = after.drafts
           /\ current' = after.kept
           /\ hasNewContent' = after.new
    /\ UNCHANGED <<text, chunkSize, overlap, paragraphs, i, pc>>

\* mutant: no last emitChunk
ReturnChunks ==
    /\ pc = "splitting"
    /\ inputs = <<>> /\ i = Len(paragraphs)
    /\ pc' = "done"
    /\ UNCHANGED <<text, chunkSize, overlap, paragraphs, i, inputs, current,
                   hasNewContent, chunks>>

(***************************************************************************)
(* The end of Split: what was appended since the last chunk is one more.   *)
(***************************************************************************)
LastChunk ==
    /\ pc = "splitting"
    /\ inputs = <<>> /\ i = Len(paragraphs)
    /\ LET last == EmitChunk(chunks, current, hasNewContent)
       IN  chunks' = last.drafts /\ current' = last.kept /\ hasNewContent' = last.new
    /\ pc' = "done"
    /\ UNCHANGED <<text, chunkSize, overlap, paragraphs, i, inputs>>

Init ==
    /\ text \in Texts
    /\ chunkSize \in Sizes
    /\ overlap \in Overlaps
    /\ paragraphs = <<>>
    /\ i = 0
    /\ inputs = <<>>
    /\ current = <<>>
    /\ hasNewContent = FALSE
    /\ chunks = <<>>
    /\ pc = "start"

Next == Normalize \/ Start \/ NextParagraph \/ AppendRunes \/ LastChunk

(***************************************************************************)
(* Split is a loop of one goroutine: it goes on as long as it can.         *)
(***************************************************************************)
Spec == Init /\ [][Next]_vars /\ WF_vars(Next)

-----------------------------------------------------------------------------
(* Properties.                                                             *)

WordsOf(runes) == {r \in {runes[k] : k \in DOMAIN runes} : ~BlankRune(text, r)}
Ascending(runes) ==
    \A k, l \in DOMAIN runes :
        k < l /\ ~BlankRune(text, runes[k]) /\ ~BlankRune(text, runes[l])
        => runes[k] < runes[l]
WordsBefore(k) == UNION {WordsOf(chunks[j]) : j \in 1..(k - 1)}
LastWord(runes) == runes[Len(runes)]

(***************************************************************************)
(* A chunk has no more than chunkSize runes, the joints and the overlap    *)
(* counted, and is neither empty nor blank at an end: what is checked      *)
(* against MaxChunkChars and embedded is within the target (CHANGELOG.md:24 *)
(* promises it).                                                           *)
(***************************************************************************)
ChunksFit ==
    \A k \in DOMAIN chunks :
        /\ Len(chunks[k]) \in 1..chunkSize
        /\ ~BlankRune(text, Head(chunks[k]))
        /\ ~BlankRune(text, LastWord(chunks[k]))

(***************************************************************************)
(* No rune of a word is lost: all that was appended is in a chunk or is    *)
(* still waiting in current, and in the end every word of the text can be  *)
(* found in a chunk.                                                       *)
(***************************************************************************)
NothingLost ==
    pc \in {"splitting", "done"} =>
        WordRunes(text) =
            UNION ({WordsOf(chunks[k]) : k \in DOMAIN chunks}
                   \cup {WordsOf(inputs[k]) : k \in DOMAIN inputs}
                   \cup {WordsOf(paragraphs[k]) : k \in (i + 1)..Len(paragraphs)}
                   \cup (IF pc = "splitting" /\ hasNewContent
                         THEN {WordsOf(current)} ELSE {}))

(***************************************************************************)
(* A chunk holds consecutive words of the text in reading order, chunks    *)
(* follow one another as the text does, and two neighbours share no more   *)
(* than the overlap asked for: the trimming, the joints and the kept tail  *)
(* neither reorder nor interleave.                                         *)
(***************************************************************************)
InReadingOrder ==
    /\ \A k \in DOMAIN chunks :
          /\ Ascending(chunks[k])
          /\ WordsOf(chunks[k]) =
                WordRunes(text) \cap (Head(chunks[k])..LastWord(chunks[k]))
    /\ \A k \in 2..Len(chunks) :
          LET shared == WordsOf(chunks[k - 1]) \cap WordsOf(chunks[k])
          IN  /\ LastWord(chunks[k - 1]) <= LastWord(chunks[k])
              /\ Head(chunks[k - 1]) <= Head(chunks[k])
              /\ Cardinality(shared) <= overlap

(***************************************************************************)
(* A chunk that only repeats words of earlier chunks ends inside a         *)
(* paragraph, before a run of blanks that filled it: at the boundary of a  *)
(* paragraph the joint never completes a chunk that repeats the overlap    *)
(* (CHANGELOG.md:29; the guard of splitter.go:85).                         *)
(***************************************************************************)
RepeatsOnlyInBlanks ==
    \A k \in DOMAIN chunks :
        WordsOf(chunks[k]) \subseteq WordsBefore(k) =>
            \E r \in WordRunes(text) :
                r > LastWord(chunks[k]) + 1 /\ SameParagraph(text, LastWord(chunks[k]), r)
                /\ \A b \in (LastWord(chunks[k]) + 1)..(r - 1) : text[b] # "x"

(***************************************************************************)
(* Split returns for every text and every setting, an overlap as long as   *)
(* the chunk, a negative one and a chunk size of 0 or 1 included: each     *)
(* turn of appendRunes appends at least one rune.                          *)
(***************************************************************************)
SplitEnds == <>(pc \in {"done", "rejected"})
=============================================================================
