--------------------------- MODULE SplitterProofs ---------------------------
(***************************************************************************)
(* Proofs about Splitter, for any texts, chunk sizes and overlaps: chunks  *)
(* fit, nothing is lost, the order of the text is kept, and a chunk that   *)
(* only repeats is one that was filled with blanks.                        *)
(***************************************************************************)
EXTENDS Splitter, TLAPS, FiniteSetTheorems, SequenceTheorems, WellFoundedInduction

Letters == {"x", " ", "\n", "\r"}

\* The positions of a text, and Glue
Runes(t) == 0..Len(t)

\* Consecutive positions
FromTo(a, b) == [k \in 1..(b - a + 1) |-> a + k - 1]

\* The words among runes, for any text
Words(t, runes) == {runes[k] : k \in 1..Len(runes)} \cap WordRunes(t)

\* The paragraphs of a text: stretches of it from word to word, in order, that
\* have all its words, each without a blank line.
ParagraphOf(t, p, a, b) ==
    a \in WordRunes(t) /\ b \in WordRunes(t) /\ a <= b /\ SameParagraph(t, a, b)
    /\ p = FromTo(a, b)

AreParagraphs(t, list) ==
    /\ DOMAIN list = 1..Len(list) /\ Len(list) \in Nat
    /\ \A k \in 1..Len(list) : \E a, b \in Nat : ParagraphOf(t, list[k], a, b)
    /\ \A k, l \in 1..Len(list) : k < l => list[k][Len(list[k])] < list[l][1]
    /\ \A w \in WordRunes(t) : \E k \in 1..Len(list) :
          list[k][1] <= w /\ w <= list[k][Len(list[k])]

-----------------------------------------------------------------------------
(* Sets of positions.                                                      *)

\* Some element of a set of naturals is the least.
LEMMA Least ==
  ASSUME NEW S \in SUBSET Nat, S # {}
  PROVE  \E m \in S : \A s \in S : m <= s
  <1>1. PICK m \in S : \A s \in S : <<s, m>> \notin OpToRel(<, Nat)
    BY NatLessThanWellFounded, WFMin
  <1>2. \A s \in S : ~(s < m)
    BY <1>1 DEF OpToRel
  <1> QED
    BY <1>2

\* Some element of a bounded one is the greatest.
LEMMA Greatest ==
  ASSUME NEW n \in Nat, NEW S \in SUBSET (0..n), S # {}
  PROVE  \E m \in S : \A s \in S : s <= m
  <1> DEFINE T == {n - s : s \in S}
  <1>1. T \in SUBSET Nat /\ T # {}
    <2>1. \A s \in S : s \in 0..n /\ n - s \in Nat
      OBVIOUS
    <2> QED
      BY <2>1
  <1> HIDE DEF T
  <1>2. PICK d \in T : \A e \in T : d <= e
    BY <1>1, Least
  <1>3. PICK m \in S : d = n - m
    BY <1>2 DEF T
  <1>4. \A s \in S : n - m <= n - s
    BY <1>2, <1>3 DEF T
  <1> QED
    BY <1>3, <1>4

\* The number of smaller elements grows with the element.
LEMMA SmallerOnes ==
  ASSUME NEW n \in Nat, NEW S \in SUBSET (0..n), NEW r \in S, NEW s \in S
  PROVE  /\ IsFiniteSet(S) /\ Cardinality(S) \in Nat
         /\ Cardinality({u \in S : u < r}) \in Nat
         /\ Cardinality({u \in S : u < r}) < Cardinality(S)
         /\ r < s => Cardinality({u \in S : u < r}) < Cardinality({u \in S : u < s})
  <1> DEFINE below(x) == {u \in S : u < x}
  <1>1. IsFiniteSet(S) /\ \A u \in S : u \in Nat
    <2>1. IsFiniteSet(0..n)
      BY FS_Interval
    <2>2. IsFiniteSet(S)
      BY <2>1, FS_Subset
    <2>3. \A u \in S : u \in Nat
      OBVIOUS
    <2> QED
      BY <2>2, <2>3
  <1>2. /\ below(r) \in SUBSET S /\ below(s) \in SUBSET S
        /\ r \notin below(r)
        /\ r < s => below(r) \in SUBSET below(s) /\ r \in below(s)
    <2>1. \A u \in S : u < r /\ r < s => u < s
      BY <1>1
    <2>2. ~(r < r)
      BY <1>1
    <2> QED
      BY <2>1, <2>2
  <1> HIDE DEF below
  <1>3. IsFiniteSet(below(r)) /\ IsFiniteSet(below(s))
    BY <1>1, <1>2, FS_Subset
  <1>4. /\ Cardinality(S) \in Nat /\ Cardinality(below(r)) \in Nat
        /\ Cardinality(below(s)) \in Nat
    BY <1>1, <1>3, FS_CardinalityType
  <1>5. Cardinality(below(r)) <= Cardinality(S) /\ Cardinality(below(r)) # Cardinality(S)
    BY <1>1, <1>2, FS_Subset
  <1>6. r < s => /\ Cardinality(below(r)) <= Cardinality(below(s))
                 /\ Cardinality(below(r)) # Cardinality(below(s))
    BY <1>2, <1>3, FS_Subset
  <1>7. /\ Cardinality(below(r)) < Cardinality(S)
        /\ r < s => Cardinality(below(r)) < Cardinality(below(s))
    BY <1>4, <1>5, <1>6
  <1> QED
    BY <1>1, <1>4, <1>7 DEF below

\* InOrder lists the elements of a set, each at one place and the smaller first.
LEMMA InOrderLists ==
  ASSUME NEW n \in Nat, NEW S \in SUBSET (0..n)
  PROVE  /\ Cardinality(S) \in Nat
         /\ DOMAIN InOrder(S) = 1..Cardinality(S)
         /\ \A k \in 1..Cardinality(S) : InOrder(S)[k] \in S
         /\ \A k, l \in 1..Cardinality(S) : k < l => InOrder(S)[k] < InOrder(S)[l]
         /\ \A s \in S : \E k \in 1..Cardinality(S) : InOrder(S)[k] = s
  <1> DEFINE c(r) == Cardinality({s \in S : s < r})
             m == Cardinality(S)
             list == InOrder(S)
  <1>1. /\ IsFiniteSet(S) /\ m \in Nat
        /\ \A s \in S : s \in Nat
    <2>1. IsFiniteSet(0..n)
      BY FS_Interval
    <2>2. IsFiniteSet(S)
      BY <2>1, FS_Subset
    <2> QED
      BY <2>2, FS_CardinalityType
  <1>2. \A r \in S : c(r) \in Nat /\ c(r) < m
    BY SmallerOnes
  <1>3. \A r, s \in S : r < s => c(r) < c(s)
    BY SmallerOnes
  <1>4. \A r, s \in S : c(r) = c(s) => r = s
    <2> HIDE DEF c
    <2> QED
      BY <1>2, <1>3
  <1>5. ASSUME NEW k \in 1..m PROVE \E r \in S : c(r) = k - 1
    <2> HIDE DEF c, m
    <2> DEFINE f == [r \in S |-> c(r) + 1]
    <2>1. f \in [S -> 1..m]
      BY <1>1, <1>2
    <2>2. \A r, s \in S : f[r] = f[s] => r = s
      BY <1>2, <1>4
    <2>3. IsFiniteSet(1..m) /\ Cardinality(1..m) = m
      BY <1>1, FS_Interval
    <2> HIDE DEF f
    <2>4. f \in Injection(S, 1..m)
      BY <2>1, <2>2 DEF Injection, IsInjective
    <2>5. f \in Surjection(S, 1..m)
      BY <2>3, <2>4, FS_Injection DEF m
    <2>6. PICK r \in S : f[r] = k
      BY <2>5 DEF Surjection
    <2>7. f[r] = c(r) + 1
      BY DEF f
    <2> QED
      BY <1>2, <2>6, <2>7
  <1>6. ASSUME NEW k \in 1..m PROVE list[k] \in S /\ c(list[k]) = k - 1
    <2>1. PICK r \in S : Cardinality({s \in S : s < r}) = k - 1
      BY <1>5
    <2>2. list[k] = CHOOSE r_1 \in S : Cardinality({s \in S : s < r_1}) = k - 1
      BY DEF InOrder
    <2> HIDE DEF list
    <2>3. list[k] \in S /\ Cardinality({s \in S : s < list[k]}) = k - 1
      BY <2>1, <2>2, Zenon
    <2> QED
      BY <2>3
  <1>7. DOMAIN list = 1..m
    BY DEF InOrder
  <1> HIDE DEF list, c, m
  <1>8. ASSUME NEW k \in 1..m, NEW l \in 1..m, k < l PROVE list[k] < list[l]
    <2>1. /\ list[k] \in S /\ list[l] \in S
          /\ c(list[k]) = k - 1 /\ c(list[l]) = l - 1
      BY <1>6
    <2>2. ~(c(list[l]) < c(list[k])) /\ c(list[k]) # c(list[l])
      BY <1>1, <1>8, <2>1
    <2>3. ~(list[l] < list[k]) /\ list[l] # list[k]
      BY <1>3, <2>1, <2>2
    <2>4. list[k] \in Nat /\ list[l] \in Nat
      BY <1>1, <2>1
    <2> QED
      BY <2>3, <2>4
  <1>9. ASSUME NEW s \in S PROVE \E k \in 1..m : list[k] = s
    <2>1. c(s) + 1 \in 1..m /\ (c(s) + 1) - 1 = c(s)
      BY <1>1, <1>2
    <2>2. list[c(s) + 1] \in S /\ c(list[c(s) + 1]) = c(s)
      BY <1>6, <2>1
    <2>3. list[c(s) + 1] = s
      BY <1>4, <2>2
    <2> QED
      BY <2>1, <2>3
  <1> QED
    BY <1>1, <1>6, <1>7, <1>8, <1>9 DEF list, m


-----------------------------------------------------------------------------
(* The text and its paragraphs.                                            *)

\* Positions with a word rune are positions of the text.
LEMMA WordsInText ==
  ASSUME NEW t \in Seq(Letters)
  PROVE  /\ Len(t) \in Nat
         /\ WordRunes(t) \in SUBSET (0..Len(t)) /\ 0 \notin WordRunes(t)
         /\ \A r \in Runes(t) : BlankRune(t, r) <=> r \notin WordRunes(t)
  BY DEF WordRunes, Runes, BlankRune, Glue

\* Normalising gives a text again.
LEMMA NormalizedIsText ==
  ASSUME NEW t \in Seq(Letters)
  PROVE  NormalizeText(t) \in Seq(Letters)
  <1> DEFINE kept == {r \in DOMAIN t : ~(t[r] = "\n" /\ r > 1 /\ t[r - 1] = "\r")}
             f == [k \in DOMAIN InOrder(kept) |->
                     IF t[InOrder(kept)[k]] = "\r" THEN "\n" ELSE t[InOrder(kept)[k]]]
  <1>1. Len(t) \in Nat /\ kept \in SUBSET (0..Len(t)) /\ kept \subseteq DOMAIN t
    OBVIOUS
  <1>2. \A r \in DOMAIN t : t[r] \in Letters
    OBVIOUS
  <1>3. f = NormalizeText(t)
    BY DEF NormalizeText
  <1> HIDE DEF kept
  <1>4. /\ Cardinality(kept) \in Nat
        /\ DOMAIN InOrder(kept) = 1..Cardinality(kept)
        /\ \A k \in 1..Cardinality(kept) : InOrder(kept)[k] \in kept
    BY <1>1, InOrderLists
  <1>5. \A k \in 1..Cardinality(kept) : f[k] \in Letters
    BY <1>1, <1>2, <1>4 DEF Letters
  <1>6. f \in [1..Cardinality(kept) -> Letters]
    BY <1>4, <1>5
  <1> QED
    BY <1>3, <1>4, <1>6

\* Stretches without a blank line, part of one another and put together
LEMMA Stretches ==
  ASSUME NEW t, NEW a \in Nat, NEW b \in Nat, NEW c \in Nat, NEW d \in Nat
  PROVE  /\ a <= b /\ c <= d /\ SameParagraph(t, a, d) => SameParagraph(t, b, c)
         /\ SameParagraph(t, a, b) /\ SameParagraph(t, c, d) /\ c <= b + 1 =>
              SameParagraph(t, a, d)
  <1>1. ASSUME a <= b, c <= d, NEW r \in b..c PROVE r \in a..d
    BY <1>1
  <1>2. ASSUME c <= b + 1, NEW r \in a..d PROVE r \in a..b \/ r \in c..d
    BY <1>2
  <1> QED
    BY <1>1, <1>2 DEF SameParagraph

\* A word is a stretch without a blank line.
LEMMA WordIsStretch ==
  ASSUME NEW t \in Seq(Letters), NEW w \in WordRunes(t)
  PROVE  SameParagraph(t, w, w)
  <1>1. w \in Nat /\ t[w] = "x"
    BY DEF WordRunes
  <1>2. \A r \in w..w : r = w
    BY <1>1
  <1> QED
    BY <1>1, <1>2 DEF SameParagraph, InBlankLine

\* A stretch of positions is a sequence of them.
LEMMA FromToIsSeq ==
  ASSUME NEW n \in Nat, NEW a \in 0..n, NEW b \in a..n
  PROVE  /\ FromTo(a, b) \in Seq(0..n)
         /\ Len(FromTo(a, b)) = b - a + 1
         /\ \A k \in 1..(b - a + 1) : FromTo(a, b)[k] = a + k - 1
  <1>1. /\ b - a + 1 \in Nat
        /\ \A k \in 1..(b - a + 1) : a + k - 1 \in 0..n
    OBVIOUS
  <1>2. FromTo(a, b) \in [1..(b - a + 1) -> 0..n]
    BY <1>1 DEF FromTo
  <1> QED
    BY <1>1, <1>2 DEF FromTo

\* SplitParagraphs finds the paragraphs.
LEMMA ParagraphsFound ==
  ASSUME NEW t \in Seq(Letters)
  PROVE  AreParagraphs(t, SplitParagraphs(t))
  <1> DEFINE W == WordRunes(t)
             opens(r) == \A s \in W : s < r => ~SameParagraph(t, s, r)
             O == {r \in W : opens(r)}
             first == InOrder(O)
             last(r) == CHOOSE s \in W :
                          /\ s >= r /\ SameParagraph(t, r, s)
                          /\ \A u \in W : u > s => ~SameParagraph(t, r, u)
             list == SplitParagraphs(t)
             m == Cardinality(O)
  <1>1. /\ Len(t) \in Nat /\ W \in SUBSET (0..Len(t))
        /\ \A w \in W : w \in Nat
    BY WordsInText
  <1>2. ASSUME NEW r \in W
        PROVE  /\ last(r) \in W /\ last(r) >= r /\ SameParagraph(t, r, last(r))
               /\ \A u \in W : u > last(r) => ~SameParagraph(t, r, u)
    <2> DEFINE S == {s \in W : s >= r /\ SameParagraph(t, r, s)}
    <2>1. S \in SUBSET (0..Len(t)) /\ r \in S
      BY <1>1, WordIsStretch
    <2>2. PICK s \in S : \A u \in S : u <= s
      BY <1>1, <2>1, Greatest
    <2>3. \A u \in W : u > s => ~SameParagraph(t, r, u)
      <3> SUFFICES ASSUME NEW u \in W, u > s, SameParagraph(t, r, u) PROVE FALSE
        OBVIOUS
      <3>1. s \in Nat /\ u \in Nat /\ r \in Nat /\ s >= r
        BY <1>1, <2>2
      <3>2. u \in S
        BY <3>1
      <3> QED
        BY <2>2, <3>1, <3>2
    <2>4. \E x \in W : /\ x >= r /\ SameParagraph(t, r, x)
                       /\ \A u \in W : u > x => ~SameParagraph(t, r, u)
      BY <2>2, <2>3
    <2> QED
      BY <2>4, Zenon
  <1> HIDE DEF last
  <1>3. ASSUME NEW w \in W PROVE \E r \in O : r <= w /\ w <= last(r)
    <2> DEFINE S == {s \in W : s <= w /\ SameParagraph(t, s, w)}
    <2>1. S \in SUBSET Nat /\ w \in S
      BY <1>1, WordIsStretch
    <2>2. PICK r \in S : \A s \in S : r <= s
      BY <2>1, Least
    <2>3. ASSUME NEW s \in W, s < r, SameParagraph(t, s, r) PROVE FALSE
      <3>1. s \in Nat /\ r \in Nat /\ w \in Nat /\ r <= w
        BY <1>1, <2>2
      <3>2. SameParagraph(t, r, w) /\ r <= r + 1
        BY <2>2, <3>1
      <3>3. SameParagraph(t, s, w)
        BY <2>3, <3>1, <3>2, Stretches
      <3> QED
        BY <2>2, <2>3, <3>1, <3>3
    <2>4. r \in O
      BY <2>2, <2>3
    <2>5. w <= last(r)
      BY <1>1, <1>2, <2>2
    <2> QED
      BY <2>2, <2>4, <2>5
  <1>4. ASSUME NEW r \in O, NEW s \in O, r < s PROVE last(r) < s
    <2> SUFFICES ASSUME last(r) >= s PROVE FALSE
      BY <1>1, <1>2
    <2>1. r \in Nat /\ s \in Nat /\ last(r) \in Nat /\ SameParagraph(t, r, last(r))
      BY <1>1, <1>2
    <2>2. SameParagraph(t, r, s)
      BY <2>1, Stretches
    <2> QED
      BY <1>4, <2>2
  <1>5. O \in SUBSET (0..Len(t))
    BY <1>1
  <1>6. O \subseteq W
    OBVIOUS
  <1>7. /\ m \in Nat /\ DOMAIN first = 1..m
        /\ \A k \in 1..m : first[k] \in O
        /\ \A k, l \in 1..m : k < l => first[k] < first[l]
        /\ \A r \in O : \E k \in 1..m : first[k] = r
    <2> HIDE DEF O
    <2> QED
      BY <1>1, <1>5, InOrderLists
  <1>8. list = [p \in DOMAIN first |->
                  [k \in 1..(last(first[p]) - first[p] + 1) |-> first[p] + k - 1]]
    BY Zenon DEF SplitParagraphs, last
  <1> HIDE DEF O, first, list, m
  <1>9. DOMAIN list = 1..m
    BY <1>7, <1>8
  <1>10. \A k \in 1..m : list[k] = FromTo(first[k], last(first[k]))
    BY <1>7, <1>8 DEF FromTo
  <1>11. Len(list) = m
    <2> DEFINE values == {list[k] : k \in 1..m}
    <2>1. list \in Seq(values)
      <3>1. list = [k \in 1..m |-> list[k]]
        BY <1>7, <1>8, <1>9
      <3>2. \A k \in 1..m : list[k] \in values
        OBVIOUS
      <3> HIDE DEF values
      <3>3. list \in [1..m -> values]
        BY <3>1, <3>2
      <3> QED
        BY <1>7, <3>3
    <2>2. DOMAIN list = 1..Len(list) /\ Len(list) \in Nat
      BY <2>1, LenProperties
    <2> QED
      BY <1>7, <1>9, <2>2
  <1>12. ASSUME NEW k \in 1..m
         PROVE  /\ first[k] \in W /\ last(first[k]) \in W
                /\ first[k] \in Nat /\ last(first[k]) \in Nat
                /\ ParagraphOf(t, list[k], first[k], last(first[k]))
                /\ list[k][1] = first[k]
                /\ list[k][Len(list[k])] = last(first[k])
    <2>1. /\ first[k] \in W /\ last(first[k]) \in W /\ last(first[k]) >= first[k]
          /\ SameParagraph(t, first[k], last(first[k]))
      BY <1>2, <1>6, <1>7
    <2>2. first[k] \in 0..Len(t) /\ last(first[k]) \in 0..Len(t)
      BY <1>1, <2>1
    <2>3. last(first[k]) \in first[k]..Len(t) /\ last(first[k]) - first[k] + 1 \in Nat \ {0}
      BY <1>1, <2>1, <2>2
    <2>4. /\ Len(list[k]) = last(first[k]) - first[k] + 1
          /\ \A l \in 1..(last(first[k]) - first[k] + 1) : list[k][l] = first[k] + l - 1
      BY <1>1, <1>10, <2>2, <2>3, FromToIsSeq
    <2>5. list[k][1] = first[k] /\ list[k][Len(list[k])] = last(first[k])
      <3>1. 1 \in 1..(last(first[k]) - first[k] + 1)
        BY <2>3
      <3>2. last(first[k]) - first[k] + 1 \in 1..(last(first[k]) - first[k] + 1)
        BY <2>3
      <3>3. list[k][1] = first[k] + 1 - 1
        BY <2>4, <3>1
      <3>4. list[k][Len(list[k])] = first[k] + (last(first[k]) - first[k] + 1) - 1
        BY <2>4, <3>2
      <3> QED
        BY <2>2, <3>3, <3>4
    <2>6. ParagraphOf(t, list[k], first[k], last(first[k]))
      BY <1>10, <2>1, <2>2, <2>3 DEF ParagraphOf
    <2> QED
      BY <1>1, <2>1, <2>5, <2>6
  <1>13. ASSUME NEW k \in 1..m, NEW l \in 1..m, k < l
         PROVE  list[k][Len(list[k])] < list[l][1]
    <2>1. first[k] < first[l] /\ first[k] \in O /\ first[l] \in O
      BY <1>7, <1>13
    <2> QED
      BY <1>4, <1>12, <2>1
  <1>14. ASSUME NEW w \in W
         PROVE  \E k \in 1..m : list[k][1] <= w /\ w <= list[k][Len(list[k])]
    <2>1. PICK r \in O : r <= w /\ w <= last(r)
      BY <1>3
    <2>2. PICK k \in 1..m : first[k] = r
      BY <1>7
    <2> QED
      BY <1>12, <2>1, <2>2
  <1> HIDE DEF W
  <1> QED
    BY <1>7, <1>9, <1>11, <1>12, <1>13, <1>14 DEF AreParagraphs, list, W

-----------------------------------------------------------------------------
(* The words among runes.                                                  *)

\* Words come in the order of the text.
Rising(t, s) ==
    \A k, l \in 1..Len(s) :
        k < l /\ s[k] \in WordRunes(t) /\ s[l] \in WordRunes(t) => s[k] < s[l]

\* WordsOf and Ascending, for the text that is split
LEMMA WordsAre ==
  ASSUME text \in Seq(Letters), NEW s \in Seq(Runes(text))
  PROVE  WordsOf(s) = Words(text, s) /\ (Ascending(s) <=> Rising(text, s))
  <1>1. DOMAIN s = 1..Len(s) /\ \A k \in 1..Len(s) : s[k] \in Runes(text)
    OBVIOUS
  <1>2. \A k \in 1..Len(s) : BlankRune(text, s[k]) <=> s[k] \notin WordRunes(text)
    BY <1>1, WordsInText
  <1>3. WordsOf(s) = Words(text, s)
    BY <1>1, <1>2 DEF WordsOf, Words
  <1>4. Ascending(s) <=> Rising(text, s)
    BY <1>1, <1>2 DEF Ascending, Rising
  <1> QED
    BY <1>3, <1>4

\* Words are numbers, and finitely many, no more than there are runes.
LEMMA WordsTyped ==
  ASSUME NEW t \in Seq(Letters), NEW s \in Seq(Runes(t))
  PROVE  /\ Words(t, s) \subseteq WordRunes(t)
         /\ \A w \in Words(t, s) : w \in Nat
         /\ Words(t, s) \in SUBSET (0..Len(t))
         /\ \A w : w \in Words(t, s) <=>
              w \in WordRunes(t) /\ \E k \in 1..Len(s) : s[k] = w
  BY WordsInText DEF Words

\* Runes hold no more words than they are.
LEMMA FewWords ==
  ASSUME NEW t \in Seq(Letters), NEW s \in Seq(Runes(t)), NEW S \in SUBSET Words(t, s)
  PROVE  IsFiniteSet(S) /\ Cardinality(S) \in Nat /\ Cardinality(S) <= Len(s)
  <1> DEFINE places == {k \in 1..Len(s) : s[k] \in S}
             f == [k \in places |-> s[k]]
  <1>1. Len(s) \in Nat
    OBVIOUS
  <1>2. IsFiniteSet(1..Len(s)) /\ Cardinality(1..Len(s)) = Len(s)
    <2>1. PICK n \in Nat : n = Len(s)
      BY <1>1
    <2>2. IsFiniteSet(1..n) /\ Cardinality(1..n) = IF 1 > n THEN 0 ELSE n - 1 + 1
      BY FS_Interval
    <2> QED
      BY <2>1, <2>2
  <1>3. places \in SUBSET (1..Len(s))
    OBVIOUS
  <1>4. f \in Surjection(places, S)
    <2>1. \A w \in S : \E k \in places : f[k] = w
      BY WordsTyped
    <2> QED
      BY <2>1 DEF Surjection
  <1> HIDE DEF places, f
  <1>5. IsFiniteSet(places) /\ Cardinality(places) <= Len(s)
    BY <1>2, <1>3, FS_Subset
  <1>6. IsFiniteSet(S) /\ Cardinality(S) <= Cardinality(places)
    BY <1>4, <1>5, FS_Surjection
  <1>7. Cardinality(S) \in Nat /\ Cardinality(places) \in Nat
    BY <1>5, <1>6, FS_CardinalityType
  <1> QED
    BY <1>1, <1>5, <1>6, <1>7

\* The words of runes that are put together
LEMMA ConcatWords ==
  ASSUME NEW t \in Seq(Letters), NEW p \in Seq(Runes(t)), NEW q \in Seq(Runes(t))
  PROVE  /\ p \o q \in Seq(Runes(t)) /\ Len(p \o q) = Len(p) + Len(q)
         /\ Words(t, p \o q) = Words(t, p) \cup Words(t, q)
         /\ /\ Rising(t, p) /\ Rising(t, q)
            /\ \A v \in Words(t, p), w \in Words(t, q) : v < w
            => Rising(t, p \o q)
  <1> DEFINE s == p \o q
  <1>1. /\ s \in Seq(Runes(t)) /\ Len(s) = Len(p) + Len(q)
        /\ Len(p) \in Nat /\ Len(q) \in Nat
        /\ \A k \in 1..Len(s) : s[k] = IF k <= Len(p) THEN p[k] ELSE q[k - Len(p)]
    BY ConcatProperties
  <1> HIDE DEF s
  <1>2. /\ \A k \in 1..Len(p) : k \in 1..Len(s) /\ s[k] = p[k]
        /\ \A k \in 1..Len(q) : k + Len(p) \in 1..Len(s) /\ s[k + Len(p)] = q[k]
    <2>1. ASSUME NEW k \in 1..Len(q)
          PROVE  k + Len(p) \in 1..Len(s) /\ s[k + Len(p)] = q[k]
      <3>1. /\ k + Len(p) \in 1..Len(s) /\ ~(k + Len(p) <= Len(p))
            /\ (k + Len(p)) - Len(p) = k
        BY <1>1
      <3> QED
        BY <1>1, <3>1
    <2> QED
      BY <1>1, <2>1
  <1>3. ASSUME NEW k \in 1..Len(s)
        PROVE  \/ k \in 1..Len(p) /\ s[k] = p[k]
               \/ k > Len(p) /\ k - Len(p) \in 1..Len(q) /\ s[k] = q[k - Len(p)]
    BY <1>1
  <1>4. Words(t, s) = Words(t, p) \cup Words(t, q)
    <2>1. \A w : (\E k \in 1..Len(s) : s[k] = w) <=>
                 (\E k \in 1..Len(p) : p[k] = w) \/ (\E k \in 1..Len(q) : q[k] = w)
      BY <1>2, <1>3
    <2>2. \A w : w \in Words(t, s) <=>
                 w \in WordRunes(t) /\ \E k \in 1..Len(s) : s[k] = w
      BY <1>1, WordsTyped
    <2> QED
      BY <2>1, <2>2, WordsTyped
  <1>5. ASSUME Rising(t, p), Rising(t, q),
               \A v \in Words(t, p), w \in Words(t, q) : v < w
        PROVE  Rising(t, s)
    <2> SUFFICES ASSUME NEW k \in 1..Len(s), NEW l \in 1..Len(s), k < l,
                        s[k] \in WordRunes(t), s[l] \in WordRunes(t)
                 PROVE  s[k] < s[l]
      BY DEF Rising
    <2>1. CASE l \in 1..Len(p)
      <3>1. k \in 1..Len(p) /\ s[k] = p[k] /\ s[l] = p[l]
        BY <1>1, <1>2, <2>1
      <3> QED
        BY <1>5, <2>1, <3>1 DEF Rising
    <2>2. CASE l > Len(p) /\ k \in 1..Len(p)
      <3>1. s[k] = p[k] /\ l - Len(p) \in 1..Len(q) /\ s[l] = q[l - Len(p)]
        BY <1>1, <1>2, <1>3, <2>2
      <3>2. s[k] \in Words(t, p) /\ s[l] \in Words(t, q)
        BY <2>2, <3>1, WordsTyped
      <3> QED
        BY <1>5, <3>2
    <2>3. CASE k > Len(p)
      <3>1. /\ k - Len(p) \in 1..Len(q) /\ s[k] = q[k - Len(p)]
            /\ l - Len(p) \in 1..Len(q) /\ s[l] = q[l - Len(p)]
            /\ k - Len(p) < l - Len(p)
        BY <1>1, <1>3, <2>3
      <3> QED
        BY <1>5, <3>1 DEF Rising
    <2> QED
      BY <1>1, <2>1, <2>2, <2>3
  <1> QED
    BY <1>1, <1>4, <1>5 DEF s

\* Those of a part
LEMMA PartWords ==
  ASSUME NEW t \in Seq(Letters), NEW s \in Seq(Runes(t)),
         NEW m \in 1..Len(s) + 1, NEW n \in 0..Len(s), m <= n + 1
  PROVE  /\ SubSeq(s, m, n) \in Seq(Runes(t)) /\ Len(SubSeq(s, m, n)) = n - m + 1
         /\ \A k \in 1..(n - m + 1) : SubSeq(s, m, n)[k] = s[m + k - 1]
         /\ Words(t, SubSeq(s, m, n)) \subseteq Words(t, s)
         /\ Rising(t, s) => Rising(t, SubSeq(s, m, n))
         /\ \A k \in m..n : s[k] \in WordRunes(t) => s[k] \in Words(t, SubSeq(s, m, n))
  <1> DEFINE part == SubSeq(s, m, n)
  <1>0. Len(s) \in Nat /\ m \in Int /\ n \in Int /\ \A k \in 1..Len(s) : s[k] \in Runes(t)
    OBVIOUS
  <1>1. /\ part \in Seq(Runes(t)) /\ Len(part) = n - m + 1
        /\ \A k \in 1..(n - m + 1) : part[k] = s[m + k - 1]
    <2>1. \A k \in m..n : s[k] \in Runes(t)
      BY <1>0
    <2> QED
      BY <1>0, <2>1, SubSeqProperties
  <1> HIDE DEF part
  <1>2. \A k \in 1..Len(part) : m + k - 1 \in 1..Len(s) /\ part[k] = s[m + k - 1]
    BY <1>0, <1>1
  <1>3. Words(t, part) \subseteq Words(t, s)
    BY <1>2 DEF Words
  <1>4. Rising(t, s) => Rising(t, part)
    <2> SUFFICES ASSUME Rising(t, s), NEW k \in 1..Len(part), NEW l \in 1..Len(part), k < l,
                        part[k] \in WordRunes(t), part[l] \in WordRunes(t)
                 PROVE  part[k] < part[l]
      BY DEF Rising
    <2>1. m + k - 1 < m + l - 1
      BY <1>0
    <2> QED
      BY <1>2, <2>1 DEF Rising
  <1>5. ASSUME NEW k \in m..n, s[k] \in WordRunes(t) PROVE s[k] \in Words(t, part)
    <2>1. k - m + 1 \in 1..Len(part) /\ m + (k - m + 1) - 1 = k
      BY <1>0, <1>1
    <2>2. part[k - m + 1] = s[k]
      BY <1>2, <2>1
    <2> QED
      BY <1>1, <1>5, <2>1, <2>2, WordsTyped
  <1> QED
    BY <1>1, <1>3, <1>4, <1>5 DEF part

\* The tail that is kept: its words are the last ones.
LEMMA TailWords ==
  ASSUME NEW t \in Seq(Letters), NEW s \in Seq(Runes(t)), NEW size \in Nat
  PROVE  /\ TailRunes(s, size) \in Seq(Runes(t)) /\ Len(TailRunes(s, size)) <= size
         /\ Words(t, TailRunes(s, size)) \subseteq Words(t, s)
         /\ Rising(t, s) =>
              /\ Rising(t, TailRunes(s, size))
              /\ \A v \in Words(t, TailRunes(s, size)), w \in Words(t, s) :
                   v <= w => w \in Words(t, TailRunes(s, size))
  <1> DEFINE m == Len(s) - size + 1
             tail == TailRunes(s, size)
  <1>0. Len(s) \in Nat
    OBVIOUS
  <1>1. CASE Len(s) <= size
    BY <1>0, <1>1 DEF TailRunes
  <1>2. CASE Len(s) > size
    <2>1. /\ m \in 1..Len(s) + 1 /\ Len(s) \in 0..Len(s) /\ m <= Len(s) + 1
          /\ Len(s) - m + 1 = size
      BY <1>0, <1>2
    <2>2. tail = SubSeq(s, m, Len(s))
      BY <1>0, <1>2 DEF TailRunes
    <2> HIDE DEF m, tail
    <2>3. /\ tail \in Seq(Runes(t)) /\ Len(tail) = size
          /\ \A k \in 1..size : tail[k] = s[m + k - 1]
          /\ Words(t, tail) \subseteq Words(t, s)
          /\ Rising(t, s) => Rising(t, tail)
          /\ \A k \in m..Len(s) : s[k] \in WordRunes(t) => s[k] \in Words(t, tail)
      BY <2>1, <2>2, PartWords
    <2>4. ASSUME Rising(t, s), NEW v \in Words(t, tail), NEW w \in Words(t, s), v <= w
          PROVE  w \in Words(t, tail)
      <3>1. PICK k \in 1..size : tail[k] = v /\ v \in WordRunes(t)
        BY <2>3, WordsTyped
      <3>2. PICK l \in 1..Len(s) : s[l] = w /\ w \in WordRunes(t)
        BY WordsTyped
      <3>3. m + k - 1 \in m..Len(s) /\ s[m + k - 1] = v /\ m + k - 1 \in 1..Len(s)
        BY <1>0, <2>1, <2>3, <3>1
      <3>4. v \in Nat /\ w \in Nat
        BY <3>1, <3>2, WordsInText
      <3>5. CASE l < m
        <4>1. l < m + k - 1
          BY <2>1, <3>1, <3>5
        <4>2. w < v
          BY <2>4, <3>1, <3>2, <3>3, <4>1 DEF Rising
        <4> QED
          BY <2>4, <3>4, <4>2
      <3>6. CASE l >= m
        <4>1. l \in m..Len(s)
          BY <2>1, <3>6
        <4> QED
          BY <2>3, <3>2, <4>1
      <3> QED
        BY <2>1, <3>5, <3>6
    <2> QED
      BY <2>3, <2>4 DEF tail
  <1> QED
    BY <1>0, <1>1, <1>2

\* Trimming leaves all words, and one at each end.
LEMMA TrimWords ==
  ASSUME NEW t \in Seq(Letters), NEW s \in Seq(Runes(t)), NEW content,
         content = TrimSpace(t, s)
  PROVE  /\ content = <<>> => Words(t, s) = {}
         /\ content # <<>> =>
              /\ content \in Seq(Runes(t)) /\ Len(content) \in 1..Len(s)
              /\ Words(t, content) = Words(t, s)
              /\ content[1] \in WordRunes(t) /\ content[Len(content)] \in WordRunes(t)
              /\ Rising(t, s) => Rising(t, content)
  <1> DEFINE places == {k \in DOMAIN s : ~BlankRune(t, s[k])}
             least == CHOOSE k \in places : \A l \in places : k <= l
             most == CHOOSE k \in places : \A l \in places : k >= l
  <1>1. /\ Len(s) \in Nat /\ DOMAIN s = 1..Len(s)
        /\ \A k \in 1..Len(s) : s[k] \in Runes(t)
    OBVIOUS
  <1>2. \A k : k \in places <=> k \in 1..Len(s) /\ s[k] \in WordRunes(t)
    BY <1>1, WordsInText
  <1>3. content = IF places = {} THEN <<>> ELSE SubSeq(s, least, most)
    BY DEF TrimSpace
  <1>4. CASE places = {}
    BY <1>2, <1>3, <1>4, WordsTyped
  <1>5. CASE places # {}
    <2>1. places \in SUBSET Nat /\ places \in SUBSET (0..Len(s))
      BY <1>1
    <2>2. /\ \E k \in places : \A l \in places : k <= l
          /\ \E k \in places : \A l \in places : l <= k
      <3> HIDE DEF places
      <3> QED
        BY <1>1, <1>5, <2>1, Least, Greatest
    <2>3. \E k \in places : \A l \in places : k >= l
      BY <2>1, <2>2
    <2>4. /\ least \in places /\ \A l \in places : least <= l
          /\ most \in places /\ \A l \in places : most >= l
      BY <2>2, <2>3, Zenon
    <2> HIDE DEF places, least, most
    <2>0. PICK m, n : m = least /\ n = most
      OBVIOUS
    <2>5. /\ m \in 1..Len(s) + 1 /\ n \in 0..Len(s) /\ m <= n + 1
          /\ m <= n /\ m \in Nat /\ n \in Nat
          /\ m \in m..n /\ n \in m..n
          /\ n - m + 1 \in 1..Len(s)
      BY <1>1, <1>2, <2>0, <2>4
    <2>6. content = SubSeq(s, m, n)
      BY <1>3, <1>5, <2>0
    <2>7. /\ content \in Seq(Runes(t)) /\ Len(content) = n - m + 1
          /\ \A k \in 1..(n - m + 1) : content[k] = s[m + k - 1]
          /\ Words(t, content) \subseteq Words(t, s)
          /\ Rising(t, s) => Rising(t, content)
          /\ \A k \in m..n : s[k] \in WordRunes(t) => s[k] \in Words(t, content)
      <3> DEFINE part == SubSeq(s, m, n)
      <3>1. /\ part \in Seq(Runes(t)) /\ Len(part) = n - m + 1
            /\ \A k \in 1..(n - m + 1) : part[k] = s[m + k - 1]
            /\ Words(t, part) \subseteq Words(t, s)
            /\ Rising(t, s) => Rising(t, part)
            /\ \A k \in m..n : s[k] \in WordRunes(t) => s[k] \in Words(t, part)
        BY <2>5, PartWords
      <3> HIDE DEF part
      <3> QED
        BY <2>6, <3>1 DEF part
    <2>8. Words(t, s) \subseteq Words(t, content)
      <3> SUFFICES ASSUME NEW w \in Words(t, s) PROVE w \in Words(t, content)
        OBVIOUS
      <3>1. PICK k \in 1..Len(s) : s[k] = w /\ w \in WordRunes(t)
        BY WordsTyped
      <3>2. k \in places
        BY <1>2, <3>1
      <3>3. k \in m..n
        BY <2>0, <2>4, <2>5, <3>2
      <3> QED
        BY <2>7, <3>1, <3>3
    <2>9. content[1] = s[m] /\ content[Len(content)] = s[n]
      <3>1. 1 \in 1..(n - m + 1) /\ m + 1 - 1 = m
        BY <2>5
      <3>2. /\ n - m + 1 \in 1..(n - m + 1)
            /\ m + (n - m + 1) - 1 = n
        BY <2>5
      <3> QED
        BY <2>7, <3>1, <3>2
    <2>10. content # <<>>
      BY <2>5, <2>7
    <2> QED
      BY <1>2, <2>0, <2>4, <2>5, <2>7, <2>8, <2>9, <2>10
  <1> QED
    BY <1>4, <1>5

\* The words of a stretch of the text
LEMMA StretchWords ==
  ASSUME NEW t \in Seq(Letters), NEW b \in 1..Len(t), NEW a \in 1..b
  PROVE  /\ FromTo(a, b) \in Seq(Runes(t)) /\ Len(FromTo(a, b)) = b - a + 1
         /\ \A k \in 1..(b - a + 1) : FromTo(a, b)[k] = a + k - 1
         /\ Words(t, FromTo(a, b)) = WordRunes(t) \cap (a..b)
         /\ Rising(t, FromTo(a, b))
  <1>1. Len(t) \in Nat /\ a \in 0..Len(t) /\ b \in a..Len(t)
    BY WordsInText
  <1>2. /\ FromTo(a, b) \in Seq(Runes(t)) /\ Len(FromTo(a, b)) = b - a + 1
        /\ \A k \in 1..(b - a + 1) : FromTo(a, b)[k] = a + k - 1
    BY <1>1, FromToIsSeq DEF Runes
  <1>3. ASSUME NEW w \in a..b PROVE \E k \in 1..(b - a + 1) : FromTo(a, b)[k] = w
    <2>1. w - a + 1 \in 1..(b - a + 1) /\ a + (w - a + 1) - 1 = w
      BY <1>1
    <2> QED
      BY <1>2, <2>1
  <1>4. \A k \in 1..(b - a + 1) : FromTo(a, b)[k] \in a..b
    BY <1>1, <1>2
  <1>5. Words(t, FromTo(a, b)) = WordRunes(t) \cap (a..b)
    BY <1>2, <1>3, <1>4 DEF Words
  <1>6. Rising(t, FromTo(a, b))
    <2>1. \A k, l \in 1..(b - a + 1) : k < l => a + k - 1 < a + l - 1
      BY <1>1
    <2> QED
      BY <1>2, <2>1 DEF Rising
  <1> QED
    BY <1>2, <1>5, <1>6

-----------------------------------------------------------------------------
(* Chunks, and what has been read of the text.                             *)

\* The runes of the chunk under construction, after all words before u have been
\* read: the last words of those, in their order.
CurrentOK(t, u, cur) ==
    /\ cur \in Seq(Runes(t)) /\ Rising(t, cur)
    /\ \A w \in Words(t, cur) : w < u
    /\ \A v \in Words(t, cur), w \in WordRunes(t) : v <= w /\ w < u => w \in Words(t, cur)

ChunkOK(t, size, d) ==
    /\ d \in Seq(Runes(t)) /\ Len(d) \in 1..size
    /\ d[1] \in WordRunes(t) /\ d[Len(d)] \in WordRunes(t)
    /\ Rising(t, d) /\ Words(t, d) = WordRunes(t) \cap (d[1]..d[Len(d)])

Follows(t, shared, d, e) ==
    /\ d[1] <= e[1] /\ d[Len(d)] <= e[Len(e)]
    /\ Cardinality(Words(t, d) \cap Words(t, e)) <= shared

\* The words of the first k chunks
Emitted(t, drafts, k) == UNION {Words(t, drafts[l]) : l \in 1..k}

\* A run of blanks after this word, in its paragraph
BlanksAfter(t, last) ==
    \E r \in WordRunes(t) :
        /\ r > last + 1 /\ SameParagraph(t, last, r)
        /\ \A b \in (last + 1)..(r - 1) : t[b] # "x"

DraftsOK(t, size, shared, drafts) ==
    /\ drafts \in Seq(Seq(Runes(t)))
    /\ \A k \in 1..Len(drafts) : ChunkOK(t, size, drafts[k])
    /\ \A k \in 2..Len(drafts) : Follows(t, shared, drafts[k - 1], drafts[k])
    /\ \A k \in 1..Len(drafts) :
          Words(t, drafts[k]) \subseteq Emitted(t, drafts, k - 1) =>
            BlanksAfter(t, drafts[k][Len(drafts[k])])

\* What the chunk under construction shares with the last one
Linked(t, shared, cur, drafts) ==
    drafts # <<>> =>
      LET d == drafts[Len(drafts)]
      IN  /\ \A w \in Words(t, cur) : d[1] <= w
          /\ Cardinality({w \in Words(t, cur) : w <= d[Len(d)]}) <= shared

\* All words that have been read, and no others, are emitted or in cur.
Accounted(t, u, cur, new, drafts) ==
    /\ \A w \in WordRunes(t) : w < u =>
          w \in Emitted(t, drafts, Len(drafts)) \/ (new /\ w \in Words(t, cur))
    /\ \A w \in Emitted(t, drafts, Len(drafts)) : w < u

Sound(t, size, shared, u, cur, new, drafts) ==
    /\ CurrentOK(t, u, cur)
    /\ DraftsOK(t, size, shared, drafts)
    /\ Linked(t, shared, cur, drafts)
    /\ Accounted(t, u, cur, new, drafts)

\* One chunk more, d, after drafts
OneMore(t, drafts, d, more) ==
    LET n == Len(drafts)
    IN  /\ more \in Seq(Seq(Runes(t))) /\ Len(more) = n + 1 /\ more[n + 1] = d
        /\ \A k \in 1..n : more[k] = drafts[k]
        /\ \A k \in 0..n : Emitted(t, more, k) = Emitted(t, drafts, k)
        /\ Emitted(t, more, n + 1) = Emitted(t, drafts, n) \cup Words(t, d)

\* The words of the first chunks do not change when another one is added.
LEMMA AppendEmitted ==
  ASSUME NEW t, NEW drafts \in Seq(Seq(Runes(t))), NEW d \in Seq(Runes(t))
  PROVE  OneMore(t, drafts, d, Append(drafts, d))
  <1> DEFINE n == Len(drafts)
             more == Append(drafts, d)
  <1>1. /\ more \in Seq(Seq(Runes(t))) /\ Len(more) = n + 1 /\ n \in Nat
        /\ \A k \in 1..n : more[k] = drafts[k]
        /\ more[n + 1] = d
    BY AppendProperties
  <1> HIDE DEF n, more
  <1>2. ASSUME NEW k \in 0..n PROVE Emitted(t, more, k) = Emitted(t, drafts, k)
    <2>1. \A l \in 1..k : more[l] = drafts[l]
      BY <1>1
    <2> QED
      BY <2>1 DEF Emitted
  <1>3. Emitted(t, more, n + 1) = Emitted(t, drafts, n) \cup Words(t, d)
    <2>1. \A l : l \in 1..(n + 1) <=> l \in 1..n \/ l = n + 1
      BY <1>1
    <2> QED
      BY <1>1, <2>1 DEF Emitted
  <1> QED
    BY <1>1, <1>2, <1>3 DEF n, more, OneMore

\* Each word emitted is a word of some chunk.
LEMMA EmittedWords ==
  ASSUME NEW t, NEW drafts, NEW k \in Nat
  PROVE  \A w : w \in Emitted(t, drafts, k) <=> \E l \in 1..k : w \in Words(t, drafts[l])
  BY DEF Emitted

\* One more chunk, made of all the words of the runes cur, not only of words
\* that have been emitted unless blanks follow.
LEMMA ChunkAdded ==
  ASSUME NEW t \in Seq(Letters), NEW size \in Nat, NEW shared \in Nat, NEW u \in Nat,
         NEW cur, NEW drafts, NEW content, NEW kept,
         Sound(t, size, shared, u, cur, TRUE, drafts), Len(cur) <= size,
         content = TrimSpace(t, cur), content # <<>>, kept = TailRunes(cur, shared),
         Words(t, cur) \subseteq Emitted(t, drafts, Len(drafts)) =>
           \A m \in Words(t, cur) :
             (\A w \in Words(t, cur) : w <= m) => BlanksAfter(t, m)
  PROVE  /\ Sound(t, size, shared, u, kept, FALSE, Append(drafts, content))
         /\ Len(kept) <= shared
  <1> DEFINE n == Len(drafts)
             more == Append(drafts, content)
             last == content[Len(content)]
             old == drafts[n]
  <1>1. /\ cur \in Seq(Runes(t)) /\ Rising(t, cur) /\ Len(cur) \in Nat
        /\ drafts \in Seq(Seq(Runes(t))) /\ n \in Nat
    BY DEF Sound, CurrentOK, DraftsOK
  <1>2. /\ content \in Seq(Runes(t)) /\ Len(content) \in 1..Len(cur)
        /\ Words(t, content) = Words(t, cur)
        /\ content[1] \in WordRunes(t) /\ last \in WordRunes(t)
        /\ Rising(t, content)
    BY <1>1, TrimWords
  <1>3. /\ kept \in Seq(Runes(t)) /\ Len(kept) <= shared
        /\ Words(t, kept) \subseteq Words(t, cur)
        /\ Rising(t, kept)
        /\ \A v \in Words(t, kept), w \in Words(t, cur) : v <= w => w \in Words(t, kept)
    BY <1>1, TailWords
  <1>4. /\ \A w \in WordRunes(t) : w \in Nat
        /\ Words(t, cur) \subseteq WordRunes(t)
    BY <1>1, WordsInText, WordsTyped
  <1>5. /\ content[1] \in Words(t, cur) /\ last \in Words(t, cur)
        /\ \A w \in Words(t, cur) : content[1] <= w /\ w <= last
    <2>1. /\ 1 \in 1..Len(content) /\ Len(content) \in 1..Len(content)
          /\ Len(content) \in Nat
      BY <1>2
    <2>2. content[1] \in Words(t, content) /\ last \in Words(t, content)
      BY <1>2, <2>1, WordsTyped
    <2>3. ASSUME NEW w \in Words(t, content) PROVE content[1] <= w /\ w <= last
      <3>1. PICK k \in 1..Len(content) : content[k] = w /\ w \in WordRunes(t)
        BY <1>2, WordsTyped
      <3>2. w \in Nat /\ content[1] \in Nat /\ last \in Nat
        BY <1>2, <1>4, <3>1
      <3>3. /\ 1 < k => content[1] < w
            /\ k < Len(content) => w < last
        BY <1>2, <2>1, <3>1 DEF Rising
      <3>4. /\ k = 1 => content[1] = w
            /\ k = Len(content) => w = last
        BY <3>1
      <3> QED
        BY <2>1, <3>1, <3>2, <3>3, <3>4
    <2> QED
      BY <1>2, <2>2, <2>3
  <1>6. ChunkOK(t, size, content)
    <2>1. Len(content) \in 1..size
      BY <1>1, <1>2
    <2>2. ASSUME NEW w \in WordRunes(t), w \in content[1]..last PROVE w \in Words(t, cur)
      <3>1. last < u /\ content[1] <= w /\ w <= last
        BY <1>2, <1>4, <1>5, <2>2 DEF Sound, CurrentOK
      <3>2. w < u
        BY <1>2, <1>4, <3>1
      <3> QED
        BY <1>5, <3>1, <3>2 DEF Sound, CurrentOK
    <2>3. \A w \in Words(t, cur) : w \in WordRunes(t) /\ w \in content[1]..last
      BY <1>2, <1>4, <1>5
    <2>4. Words(t, content) = WordRunes(t) \cap (content[1]..last)
      BY <1>2, <2>2, <2>3
    <2> QED
      BY <1>2, <2>1, <2>4 DEF ChunkOK
  <1>7. /\ more \in Seq(Seq(Runes(t))) /\ Len(more) = n + 1 /\ more[n + 1] = content
        /\ \A k \in 1..n : more[k] = drafts[k]
        /\ \A k \in 0..n : Emitted(t, more, k) = Emitted(t, drafts, k)
        /\ Emitted(t, more, n + 1) = Emitted(t, drafts, n) \cup Words(t, content)
    <2>1. OneMore(t, drafts, content, more)
      BY <1>1, <1>2, AppendEmitted
    <2> QED
      BY <2>1 DEF OneMore
  <1> HIDE DEF more
  <1>8. ASSUME n > 0 PROVE Follows(t, shared, old, content)
    <2>1. ChunkOK(t, size, old) /\ drafts # <<>>
      BY <1>1, <1>8 DEF Sound, DraftsOK
    <2>2. /\ \A w \in Words(t, cur) : old[1] <= w
          /\ Cardinality({w \in Words(t, cur) : w <= old[Len(old)]}) <= shared
      BY <2>1 DEF Sound, Linked
    <2>3. old[1] <= content[1]
      BY <1>5, <2>2
    <2>4. old[Len(old)] <= last
      <3>1. /\ old[Len(old)] \in WordRunes(t) /\ old[Len(old)] \in Nat /\ last \in Nat
            /\ old \in Seq(Runes(t)) /\ Len(old) \in 1..Len(old)
        BY <1>2, <1>4, <2>1 DEF ChunkOK
      <3>2. old[Len(old)] \in Words(t, old)
        BY <3>1, WordsTyped
      <3>3. old[Len(old)] < u
        <4>1. n \in 1..n
          BY <1>1, <1>8
        <4>2. old[Len(old)] \in Emitted(t, drafts, n)
          BY <1>1, <3>2, <4>1, EmittedWords
        <4> QED
          BY <4>2 DEF Sound, Accounted
      <3>4. last <= old[Len(old)] => old[Len(old)] \in Words(t, cur)
        BY <1>5, <3>1, <3>3 DEF Sound, CurrentOK
      <3> QED
        BY <1>5, <3>1, <3>4
    <2>5. Cardinality(Words(t, old) \cap Words(t, content)) <= shared
      <3> DEFINE S == {w \in Words(t, cur) : w <= old[Len(old)]}
      <3>1. \A w \in Words(t, old) : w <= old[Len(old)]
        BY <1>4, <2>1 DEF ChunkOK
      <3>2. Words(t, old) \cap Words(t, content) \in SUBSET S
        BY <1>2, <3>1
      <3>3. S \in SUBSET Words(t, cur)
        OBVIOUS
      <3> HIDE DEF S
      <3>4. IsFiniteSet(S) /\ Cardinality(S) \in Nat
        BY <1>1, <3>3, FewWords
      <3>5. /\ IsFiniteSet(Words(t, old) \cap Words(t, content))
            /\ Cardinality(Words(t, old) \cap Words(t, content)) <= Cardinality(S)
        BY <3>2, <3>4, FS_Subset
      <3>6. Cardinality(Words(t, old) \cap Words(t, content)) \in Nat
        BY <3>5, FS_CardinalityType
      <3>7. Cardinality(S) <= shared
        BY <2>2 DEF S
      <3> QED
        BY <3>4, <3>5, <3>6, <3>7
    <2> QED
      BY <2>3, <2>4, <2>5 DEF Follows
  <1>9. Words(t, content) \subseteq Emitted(t, drafts, n) => BlanksAfter(t, last)
    BY <1>2, <1>5
  <1> HIDE DEF old, last
  <1>10. DraftsOK(t, size, shared, more)
    <2>1. ASSUME NEW k \in 1..Len(more)
          PROVE  /\ ChunkOK(t, size, more[k])
                 /\ Words(t, more[k]) \subseteq Emitted(t, more, k - 1) =>
                      BlanksAfter(t, more[k][Len(more[k])])
      <3>1. CASE k \in 1..n
        <4>1. k - 1 \in 0..n
          BY <1>1, <3>1
        <4> QED
          BY <1>7, <3>1, <4>1 DEF Sound, DraftsOK
      <3>2. CASE k = n + 1
        <4>1. k - 1 = n /\ n \in 0..n
          BY <1>1, <3>2
        <4> QED
          BY <1>6, <1>7, <1>9, <3>2, <4>1 DEF last
      <3> QED
        BY <1>1, <1>7, <3>1, <3>2
    <2>2. ASSUME NEW k \in 2..Len(more) PROVE Follows(t, shared, more[k - 1], more[k])
      <3>1. CASE k \in 2..n
        <4>1. k - 1 \in 1..n /\ k \in 1..n
          BY <1>1, <3>1
        <4> QED
          BY <1>7, <3>1, <4>1 DEF Sound, DraftsOK
      <3>2. CASE k = n + 1
        <4>1. k - 1 = n /\ n \in 1..n /\ n > 0
          BY <1>1, <3>2
        <4> QED
          BY <1>7, <1>8, <3>2, <4>1 DEF old
      <3> QED
        BY <1>1, <1>7, <3>1, <3>2
    <2> QED
      BY <1>7, <2>1, <2>2 DEF DraftsOK
  <1>11. CurrentOK(t, u, kept)
    BY <1>3, <1>4 DEF Sound, CurrentOK
  <1>12. Linked(t, shared, kept, more)
    <2>1. \A w \in Words(t, kept) : content[1] <= w
      BY <1>3, <1>5
    <2>2. Cardinality({w \in Words(t, kept) : w <= content[Len(content)]}) <= shared
      <3> DEFINE S == {w \in Words(t, kept) : w <= content[Len(content)]}
      <3>1. S \in SUBSET Words(t, kept)
        OBVIOUS
      <3> HIDE DEF S
      <3>2. Cardinality(S) \in Nat /\ Cardinality(S) <= Len(kept)
        BY <1>3, <3>1, FewWords
      <3>3. Len(kept) \in Nat
        BY <1>3
      <3> QED
        BY <1>3, <3>2, <3>3 DEF S
    <2> QED
      BY <1>7, <2>1, <2>2 DEF Linked
  <1>13. Accounted(t, u, kept, FALSE, more)
    <2>1. /\ \A w \in WordRunes(t) : w < u => w \in Emitted(t, drafts, n) \/ w \in Words(t, cur)
          /\ \A w \in Emitted(t, drafts, n) : w < u
      BY DEF Sound, Accounted
    <2>2. \A w \in Words(t, cur) : w < u
      BY DEF Sound, CurrentOK
    <2>3. Emitted(t, more, Len(more)) = Emitted(t, drafts, n) \cup Words(t, cur)
      BY <1>2, <1>7
    <2>4. /\ \A w \in WordRunes(t) : w < u => w \in Emitted(t, more, Len(more))
          /\ \A w \in Emitted(t, more, Len(more)) : w < u
      BY <2>1, <2>2, <2>3
    <2> HIDE DEF n
    <2> QED
      BY <2>4 DEF Accounted
  <1> QED
    BY <1>3, <1>10, <1>11, <1>12, <1>13 DEF Sound, more

\* The runes read next are appended: they hold all words from u up to v.
LEMMA PieceRead ==
  ASSUME NEW t \in Seq(Letters), NEW size \in Nat, NEW shared \in Nat, NEW u \in Nat,
         NEW cur, NEW new, NEW drafts, NEW v \in Nat, u <= v,
         Sound(t, size, shared, u, cur, new, drafts),
         NEW piece \in Seq(Runes(t)), Rising(t, piece),
         \A w : w \in Words(t, piece) <=> w \in WordRunes(t) /\ u <= w /\ w < v
  PROVE  Sound(t, size, shared, v, cur \o piece, TRUE, drafts)
  <1> DEFINE filled == cur \o piece
             n == Len(drafts)
  <1>1. /\ cur \in Seq(Runes(t)) /\ Rising(t, cur)
        /\ \A w \in Words(t, cur) : w < u
        /\ \A x \in Words(t, cur), w \in WordRunes(t) : x <= w /\ w < u => w \in Words(t, cur)
    BY DEF Sound, CurrentOK
  <1>2. /\ \A w \in WordRunes(t) : w \in Nat
        /\ Words(t, cur) \subseteq WordRunes(t)
    BY <1>1, WordsInText, WordsTyped
  <1>3. \A x \in Words(t, cur), w \in Words(t, piece) : x < w
    BY <1>1, <1>2
  <1>4. /\ filled \in Seq(Runes(t)) /\ Rising(t, filled)
        /\ Words(t, filled) = Words(t, cur) \cup Words(t, piece)
    BY <1>1, <1>3, ConcatWords
  <1> HIDE DEF filled
  <1>5. CurrentOK(t, v, filled)
    <2>1. \A w \in Words(t, filled) : w < v
      BY <1>1, <1>2, <1>4
    <2>2. ASSUME NEW x \in Words(t, filled), NEW w \in WordRunes(t), x <= w, w < v
          PROVE  w \in Words(t, filled)
      <3>1. CASE w < u
        <4>1. x < u
          BY <1>2, <1>4, <2>2, <3>1
        <4>2. x \in Words(t, cur)
          BY <1>2, <1>4, <4>1
        <4> QED
          BY <1>1, <1>4, <2>2, <3>1, <4>2
      <3>2. CASE ~(w < u)
        BY <1>2, <1>4, <2>2, <3>2
      <3> QED
        BY <3>1, <3>2
    <2> QED
      BY <1>4, <2>1, <2>2 DEF CurrentOK
  <1>6. Linked(t, shared, filled, drafts)
    <2> SUFFICES ASSUME drafts # <<>>
                 PROVE  /\ \A w \in Words(t, filled) : drafts[n][1] <= w
                        /\ Cardinality({w \in Words(t, filled) :
                                          w <= drafts[n][Len(drafts[n])]}) <= shared
      BY DEF Linked
    <2> DEFINE d == drafts[n]
               last == d[Len(d)]
    <2>1. /\ n \in Nat /\ n \in 1..n /\ ChunkOK(t, size, d)
      BY DEF Sound, DraftsOK
    <2>2. /\ \A w \in Words(t, cur) : d[1] <= w
          /\ Cardinality({w \in Words(t, cur) : w <= last}) <= shared
      BY DEF Sound, Linked
    <2> HIDE DEF n, d
    <2>3. /\ d[1] \in WordRunes(t) /\ last \in WordRunes(t)
          /\ d \in Seq(Runes(t)) /\ 1 \in 1..Len(d) /\ Len(d) \in 1..Len(d)
      BY <2>1 DEF ChunkOK
    <2>4. d[1] \in Words(t, d) /\ last \in Words(t, d)
      BY <2>3, WordsTyped
    <2>5. d[1] < u /\ last < u
      <3>1. d[1] \in Emitted(t, drafts, n) /\ last \in Emitted(t, drafts, n)
        BY <2>1, <2>4, EmittedWords DEF d
      <3> QED
        BY <3>1 DEF Sound, Accounted, n
    <2>6. \A w \in Words(t, filled) : d[1] <= w
      BY <1>2, <1>4, <2>2, <2>3, <2>5
    <2>7. {w \in Words(t, filled) : w <= last} = {w \in Words(t, cur) : w <= last}
      <3>1. \A w \in Words(t, piece) : ~(w <= last)
        BY <1>2, <2>3, <2>5
      <3> QED
        BY <1>4, <3>1
    <2> QED
      BY <2>2, <2>6, <2>7 DEF d
  <1>7. Accounted(t, v, filled, TRUE, drafts)
    <2>1. /\ \A w \in WordRunes(t) : w < u => w \in Emitted(t, drafts, n) \/ w \in Words(t, cur)
          /\ \A w \in Emitted(t, drafts, n) : w < u
      BY DEF Sound, Accounted
    <2>2. \A w \in Emitted(t, drafts, n) : w \in WordRunes(t)
      <3>1. /\ n \in Nat
            /\ \A l \in 1..n : Words(t, drafts[l]) \subseteq WordRunes(t)
        BY DEF Sound, DraftsOK, Words
      <3> QED
        BY <3>1, EmittedWords
    <2> HIDE DEF n
    <2>3. \A w \in WordRunes(t) : w < v =>
             w \in Emitted(t, drafts, n) \/ w \in Words(t, filled)
      BY <1>2, <1>4, <2>1
    <2>4. \A w \in Emitted(t, drafts, n) : w < v
      BY <1>2, <2>1, <2>2
    <2> QED
      BY <2>3, <2>4 DEF Accounted, n
  <1> QED
    BY <1>5, <1>6, <1>7 DEF Sound, filled

\* Blank runes are given up without a loss.
LEMMA BlanksDropped ==
  ASSUME NEW t \in Seq(Letters), NEW size \in Nat, NEW shared \in Nat, NEW u \in Nat,
         NEW cur, NEW drafts,
         Sound(t, size, shared, u, cur, TRUE, drafts), Words(t, cur) = {}
  PROVE  Sound(t, size, shared, u, <<>>, FALSE, drafts)
  <1>1. <<>> \in Seq(Runes(t)) /\ Words(t, <<>>) = {} /\ Rising(t, <<>>)
    BY DEF Words, Rising
  <1>2. {w \in Words(t, <<>>) : w <= drafts[Len(drafts)][Len(drafts[Len(drafts)])]} = {}
    BY <1>1
  <1>3. Linked(t, shared, <<>>, drafts)
    <2>1. Cardinality({}) <= shared
      BY FS_EmptySet
    <2>2. \A w \in Words(t, <<>>) : drafts[Len(drafts)][1] <= w
      BY <1>1
    <2>3. Cardinality({w \in Words(t, <<>>) :
                          w <= drafts[Len(drafts)][Len(drafts[Len(drafts)])]}) <= shared
      BY <1>2, <2>1
    <2> QED
      BY <2>2, <2>3 DEF Linked
  <1>4. CurrentOK(t, u, <<>>)
    BY <1>1 DEF CurrentOK
  <1> QED
    BY <1>3, <1>4 DEF Sound, Accounted

\* emitChunk on runes of which some are new
LEMMA ChunkEmitted ==
  ASSUME text \in Seq(Letters), chunkSize \in Nat, overlap \in Nat, overlap < chunkSize,
         NEW u \in Nat, NEW cur, cur # <<>>, Len(cur) <= chunkSize, NEW drafts, NEW emit,
         Sound(text, chunkSize, overlap, u, cur, TRUE, drafts),
         Words(text, cur) \subseteq Emitted(text, drafts, Len(drafts)) =>
           \A m \in Words(text, cur) :
             (\A w \in Words(text, cur) : w <= m) => BlanksAfter(text, m),
         emit = EmitChunk(drafts, cur, TRUE)
  PROVE  /\ Sound(text, chunkSize, overlap, u, emit.kept, FALSE, emit.drafts)
         /\ Len(emit.kept) < chunkSize /\ emit.new = FALSE
  <1> DEFINE content == TrimSpace(text, cur)
             kept == TailRunes(cur, overlap)
  <1>1. cur \in Seq(Runes(text))
    BY DEF Sound, CurrentOK
  <1>2. CASE content = <<>>
    <2>1. Words(text, cur) = {}
      BY <1>1, <1>2, TrimWords
    <2>2. emit.drafts = drafts /\ emit.kept = <<>> /\ emit.new = FALSE
      BY <1>2 DEF EmitChunk
    <2>3. Sound(text, chunkSize, overlap, u, <<>>, FALSE, drafts)
      BY <2>1, BlanksDropped
    <2>4. Len(<<>>) < chunkSize
      OBVIOUS
    <2> QED
      BY <2>2, <2>3, <2>4
  <1>3. CASE content # <<>>
    <2>1. emit.drafts = Append(drafts, content) /\ emit.kept = kept /\ emit.new = FALSE
      BY <1>3 DEF EmitChunk
    <2> HIDE DEF content, kept
    <2>2. /\ Sound(text, chunkSize, overlap, u, kept, FALSE, Append(drafts, content))
          /\ Len(kept) <= overlap
      BY <1>3, ChunkAdded DEF content, kept
    <2>3. Len(kept) < chunkSize
      <3>1. Len(kept) \in Nat
        BY <2>2 DEF Sound, CurrentOK
      <3> QED
        BY <2>2, <3>1
    <2> QED
      BY <2>1, <2>2, <2>3
  <1> QED
    BY <1>2, <1>3

\* When a piece of a paragraph fills a chunk of words that have been emitted, the
\* piece is blank and a word of the paragraph comes after it.
LEMMA RepeatsAreBlank ==
  ASSUME NEW t \in Seq(Letters), NEW size \in Nat, NEW shared \in Nat,
         NEW a \in WordRunes(t), NEW b \in WordRunes(t), SameParagraph(t, a, b),
         NEW u \in a..b, NEW v \in Nat, u < v,
         NEW cur, NEW new, NEW drafts, Sound(t, size, shared, u, cur, new, drafts),
         NEW piece \in Seq(Runes(t)),
         \A w : w \in Words(t, piece) <=> w \in WordRunes(t) /\ u <= w /\ w < v,
         Words(t, cur \o piece) \subseteq Emitted(t, drafts, Len(drafts)),
         NEW m \in Words(t, cur \o piece), \A w \in Words(t, cur \o piece) : w <= m
  PROVE  BlanksAfter(t, m)
  <1> DEFINE later == {w \in WordRunes(t) : u <= w}
  <1>1. /\ cur \in Seq(Runes(t))
        /\ \A w \in Words(t, cur) : w < u
        /\ \A x \in Words(t, cur), w \in WordRunes(t) : x <= w /\ w < u => w \in Words(t, cur)
    BY DEF Sound, CurrentOK
  <1>2. /\ \A w \in WordRunes(t) : w \in Nat
        /\ Words(t, cur) \subseteq WordRunes(t)
        /\ a \in Nat /\ b \in Nat /\ u \in Nat /\ a <= u /\ u <= b
    BY <1>1, WordsInText, WordsTyped
  <1>3. Words(t, cur \o piece) = Words(t, cur) \cup Words(t, piece)
    BY <1>1, ConcatWords
  <1>4. \A w \in WordRunes(t) : u <= w => ~(w < v)
    <2>1. \A w \in Emitted(t, drafts, Len(drafts)) : w < u
      BY DEF Sound, Accounted
    <2> QED
      BY <1>2, <1>3, <2>1
  <1>5. u \notin WordRunes(t) /\ a < u
    <2>1. u \notin WordRunes(t)
      BY <1>2, <1>4
    <2> QED
      BY <1>2, <2>1
  <1>6. PICK r \in later : \A w \in later : r <= w
    <2>1. later \in SUBSET Nat /\ b \in later
      BY <1>2
    <2> QED
      BY <2>1, Least
  <1>7. r \in WordRunes(t) /\ r \in Nat /\ u < r /\ r <= b
    <2>1. b \in later /\ r \in WordRunes(t) /\ u <= r
      BY <1>2, <1>6
    <2>2. r <= b /\ r # u
      BY <1>5, <1>6, <2>1
    <2> QED
      BY <1>2, <2>1, <2>2
  <1>8. m \in Words(t, cur) /\ m \in Nat /\ m < u
    <2>1. m \notin Words(t, piece)
      BY <1>4
    <2> QED
      BY <1>1, <1>2, <1>3, <2>1
  <1>9. a <= m
    <2>1. m <= a => a \in Words(t, cur)
      BY <1>1, <1>5, <1>8
    <2>2. a \in Words(t, cur) => a <= m
      BY <1>3
    <2> QED
      BY <1>2, <1>8, <2>1, <2>2
  <1>10. SameParagraph(t, m, r)
    BY <1>2, <1>7, <1>8, <1>9, Stretches
  <1>11. ASSUME NEW x \in (m + 1)..(r - 1) PROVE t[x] # "x"
    <2> SUFFICES ASSUME t[x] = "x" PROVE FALSE
      OBVIOUS
    <2>1. r \in 1..Len(t) /\ Len(t) \in Nat
      BY <1>7 DEF WordRunes
    <2>2. x \in WordRunes(t) /\ x \in Nat
      BY <1>8, <2>1 DEF WordRunes
    <2>3. CASE x < u
      <3>1. x \in Words(t, cur) /\ m < x
        BY <1>1, <1>8, <2>2, <2>3
      <3>2. x <= m
        BY <1>3, <3>1
      <3> QED
        BY <1>8, <2>2, <3>1, <3>2
    <2>4. CASE u <= x
      <3>1. r <= x
        BY <1>6, <2>2, <2>4
      <3> QED
        BY <1>7, <2>2, <3>1
    <2> QED
      BY <1>2, <2>2, <2>3, <2>4
  <1>12. r > m + 1
    BY <1>2, <1>7, <1>8
  <1> QED
    BY <1>7, <1>10, <1>11, <1>12 DEF BlanksAfter

-----------------------------------------------------------------------------
(* The paragraphs, one by one.                                             *)

\* Where the first rune of the next paragraph stands, after k of them
NextStart(t, list, k) == IF k < Len(list) THEN list[k + 1][1] ELSE Len(t) + 1

\* A paragraph has its first and its last rune at its ends.
LEMMA ParagraphEnds ==
  ASSUME NEW t \in Seq(Letters), NEW p, NEW a, NEW b, ParagraphOf(t, p, a, b)
  PROVE  /\ a \in Nat /\ b \in Nat /\ a \in 1..b /\ a <= b
         /\ p[1] = a /\ p[Len(p)] = b /\ Len(p) = b - a + 1
         /\ Words(t, p) = WordRunes(t) \cap (a..b)
  <1>1. /\ a \in WordRunes(t) /\ b \in WordRunes(t) /\ p = FromTo(a, b) /\ a <= b
    BY DEF ParagraphOf
  <1>2. a \in Nat /\ b \in Nat /\ a \in 1..b /\ b \in 1..Len(t)
    BY <1>1 DEF WordRunes
  <1>3. /\ Len(p) = b - a + 1
        /\ \A k \in 1..(b - a + 1) : p[k] = a + k - 1
        /\ Words(t, p) = WordRunes(t) \cap (a..b)
    BY <1>1, <1>2, StretchWords
  <1>4. /\ 1 \in 1..(b - a + 1) /\ b - a + 1 \in 1..(b - a + 1)
        /\ a + 1 - 1 = a /\ a + (b - a + 1) - 1 = b
    BY <1>2
  <1> QED
    BY <1>1, <1>2, <1>3, <1>4

\* Between two paragraphs there is no word.
LEMMA NoWordBetween ==
  ASSUME NEW t \in Seq(Letters), NEW list, AreParagraphs(t, list),
         NEW k \in 0..Len(list), NEW u, u = NextStart(t, list, k)
  PROVE  /\ u \in Nat
         /\ k > 0 => list[k][Len(list[k])] < u
         /\ \A w \in WordRunes(t) :
              w < u => k > 0 /\ w <= list[k][Len(list[k])]
  <1> DEFINE first(l) == list[l][1]
             last(l) == list[l][Len(list[l])]
             n == Len(list)
  <1>1. /\ n \in Nat /\ Len(t) \in Nat
        /\ \A w \in WordRunes(t) : w \in Nat /\ w <= Len(t)
    BY WordsInText DEF AreParagraphs
  <1>2. ASSUME NEW l \in 1..n
        PROVE  /\ first(l) \in Nat /\ last(l) \in Nat /\ first(l) <= last(l)
               /\ last(l) <= Len(t)
    <2>1. PICK a, b \in Nat : ParagraphOf(t, list[l], a, b)
      BY DEF AreParagraphs
    <2>2. a <= b /\ first(l) = a /\ last(l) = b /\ b \in WordRunes(t)
      BY <2>1, ParagraphEnds DEF ParagraphOf
    <2> QED
      BY <1>1, <2>1, <2>2
  <1>3. \A l, o \in 1..n : l < o => last(l) < first(o)
    BY DEF AreParagraphs
  <1>4. \A w \in WordRunes(t) : \E l \in 1..n : first(l) <= w /\ w <= last(l)
    BY DEF AreParagraphs
  <1> HIDE DEF first, last, n
  <1>5. /\ k < n => u = first(k + 1)
        /\ ~(k < n) => u = Len(t) + 1
    BY DEF NextStart, first, n
  <1>6. k \in Nat /\ k <= n
    BY <1>1 DEF n
  <1>7. u \in Nat
    BY <1>1, <1>2, <1>5, <1>6
  <1>8. k > 0 => last(k) < u
    <2>1. CASE k > 0 /\ k < n
      <3>1. k \in 1..n /\ k + 1 \in 1..n /\ k < k + 1
        BY <1>1, <1>6, <2>1
      <3> QED
        BY <1>3, <1>5, <2>1, <3>1
    <2>2. CASE k > 0 /\ ~(k < n)
      BY <1>1, <1>2, <1>5, <1>6, <2>2
    <2> QED
      BY <2>1, <2>2
  <1>9. ASSUME NEW w \in WordRunes(t), w < u PROVE k > 0 /\ w <= last(k)
    <2>1. PICK l \in 1..n : first(l) <= w /\ w <= last(l)
      BY <1>4
    <2>2. l <= k
      <3> SUFFICES ASSUME k < l PROVE FALSE
        BY <1>6
      <3>1. k < n /\ k + 1 \in 1..n /\ (k + 1 < l \/ k + 1 = l)
        BY <1>1, <1>6
      <3>2. first(k + 1) <= first(l)
        <4>1. k + 1 < l => last(k + 1) < first(l)
          BY <1>3, <3>1
        <4> QED
          BY <1>2, <3>1, <4>1
      <3> QED
        BY <1>1, <1>2, <1>5, <1>9, <2>1, <3>1, <3>2
    <2>3. k \in 1..n /\ last(l) <= last(k)
      <3>1. k \in 1..n
        BY <1>6, <2>2
      <3>2. l < k => last(l) < first(k)
        BY <1>3, <3>1
      <3> QED
        BY <1>2, <1>6, <2>2, <3>1, <3>2
    <2> QED
      BY <1>1, <1>2, <2>1, <2>3
  <1> QED
    BY <1>7, <1>8, <1>9 DEF last

-----------------------------------------------------------------------------
(* The inductive invariant.                                                *)

SettingsOK ==
    /\ pc \in {"start", "normalized", "rejected", "splitting", "done"}
    /\ text \in Seq(Letters)
    /\ pc = "start" => chunkSize \in Int /\ overlap \in Int
    /\ pc # "start" =>
         chunkSize \in Nat /\ overlap \in Nat /\ 0 < chunkSize /\ overlap < chunkSize

NotBegun ==
    pc \in {"start", "normalized", "rejected"} =>
        /\ i = 0 /\ inputs = <<>> /\ current = <<>>
        /\ hasNewContent = FALSE /\ chunks = <<>>

\* What waits to be appended begins at u: the next paragraph, or the rest of one.
Waiting(u) ==
    \/ inputs = <<>> /\ u = NextStart(text, paragraphs, i)
    \/ /\ i \in 1..Len(paragraphs)
       /\ \E a, b \in Nat :
            /\ ParagraphOf(text, paragraphs[i], a, b)
            /\ u \in a..b
            /\ \/ inputs = <<FromTo(u, b)>>
               \/ /\ inputs = << <<Glue, Glue>>, FromTo(u, b) >>
                  /\ u = a /\ Len(current) + 2 < chunkSize

ReadUpTo(u) ==
    Waiting(u) /\ Sound(text, chunkSize, overlap, u, current, hasNewContent, chunks)

Reading ==
    /\ AreParagraphs(text, paragraphs) /\ i \in 0..Len(paragraphs)
    /\ hasNewContent \in BOOLEAN
    /\ Len(current) < chunkSize
    /\ \E u \in Nat : ReadUpTo(u)
    /\ (inputs = <<>> /\ hasNewContent) =>
         \E w \in Words(text, current) : w \notin Emitted(text, chunks, Len(chunks))

Finished ==
    /\ inputs = <<>> /\ i = Len(paragraphs) /\ Len(paragraphs) \in Nat
    /\ DraftsOK(text, chunkSize, overlap, chunks)
    /\ Emitted(text, chunks, Len(chunks)) = WordRunes(text)

SplitOK ==
    /\ SettingsOK
    /\ NotBegun
    /\ pc = "splitting" => Reading
    /\ pc = "done" => Finished

\* The invariant holds when Split is called.
LEMMA InitOK == Init => SplitOK
  <1> SUFFICES ASSUME Init PROVE SplitOK
    OBVIOUS
  <1>1. SettingsOK
    BY TextsAssumption, SizesAssumption DEF Init, SettingsOK, Letters
  <1> QED
    BY <1>1 DEF Init, SplitOK, NotBegun

\* Putting the text and the settings right makes the overlap smaller than a chunk.
LEMMA NormalizeOK == SplitOK /\ Normalize => SplitOK'
  <1> SUFFICES ASSUME SplitOK, Normalize PROVE SplitOK'
    OBVIOUS
  <1> DEFINE size == IF chunkSize <= 0 THEN DefaultChunkSize ELSE chunkSize
  <1>1. chunkSize \in Int /\ overlap \in Int /\ text \in Seq(Letters)
    BY DEF SplitOK, SettingsOK, Normalize
  <1>2. size \in Nat /\ 0 < size
    BY <1>1, DefaultAssumption
  <1>3. text' = NormalizeText(text) /\ chunkSize' = size
        /\ overlap' = EffectiveOverlap(overlap, size) /\ pc' = "normalized"
    BY DEF Normalize
  <1> HIDE DEF size
  <1>4. EffectiveOverlap(overlap, size) \in Nat /\ EffectiveOverlap(overlap, size) < size
    BY <1>1, <1>2 DEF EffectiveOverlap
  <1>5. SettingsOK'
    BY <1>1, <1>2, <1>3, <1>4, NormalizedIsText DEF SettingsOK
  <1>6. NotBegun'
    BY DEF Normalize, SplitOK, NotBegun
  <1> QED
    BY <1>3, <1>5, <1>6 DEF SplitOK

\* Before the first paragraph there is no word.
LEMMA NothingRead ==
  ASSUME NEW t \in Seq(Letters), NEW size, NEW shared, NEW list, AreParagraphs(t, list)
  PROVE  /\ NextStart(t, list, 0) \in Nat
         /\ Sound(t, size, shared, NextStart(t, list, 0), <<>>, FALSE, <<>>)
  <1> DEFINE u == NextStart(t, list, 0)
  <1>1. 0 \in 0..Len(list)
    BY DEF AreParagraphs
  <1>2. u \in Nat /\ \A w \in WordRunes(t) : ~(w < u)
    BY <1>1, NoWordBetween
  <1> HIDE DEF u
  <1>3. Words(t, <<>>) = {} /\ Emitted(t, <<>>, 0) = {} /\ Rising(t, <<>>)
    BY DEF Words, Emitted, Rising
  <1>4. CurrentOK(t, u, <<>>)
    BY <1>3 DEF CurrentOK
  <1>5. DraftsOK(t, size, shared, <<>>)
    BY DEF DraftsOK
  <1>6. Accounted(t, u, <<>>, FALSE, <<>>)
    BY <1>2, <1>3 DEF Accounted
  <1> QED
    BY <1>2, <1>4, <1>5, <1>6 DEF Sound, Linked, u

\* Before the first paragraph nothing has been read.
LEMMA StartOK == SplitOK /\ Start => SplitOK'
  <1> SUFFICES ASSUME SplitOK, Start PROVE SplitOK'
    OBVIOUS
  <1>1. SettingsOK'
    BY DEF SplitOK, SettingsOK, Start
  <1>2. /\ i = 0 /\ inputs = <<>> /\ current = <<>>
        /\ hasNewContent = FALSE /\ chunks = <<>>
    BY DEF SplitOK, NotBegun, Start
  <1>3. UNCHANGED <<text, chunkSize, overlap, i, inputs, current, hasNewContent, chunks>>
    BY DEF Start
  <1>4. CASE pc' = "rejected"
    BY <1>1, <1>2, <1>3, <1>4 DEF SplitOK, NotBegun
  <1>5. CASE pc' = "splitting"
    <2>1. paragraphs' = SplitParagraphs(text) /\ text \in Seq(Letters)
      BY <1>5 DEF Start, SplitOK, SettingsOK
    <2>2. AreParagraphs(text, paragraphs')
      BY <2>1, ParagraphsFound
    <2>3. PICK u \in Nat : /\ u = NextStart(text, paragraphs', 0)
                           /\ Sound(text, chunkSize, overlap, u, <<>>, FALSE, <<>>)
      BY <2>1, <2>2, NothingRead
    <2>4. Waiting(u)'
      BY <1>2, <1>3, <2>3 DEF Waiting
    <2>5. ReadUpTo(u)'
      BY <1>2, <1>3, <2>3, <2>4 DEF ReadUpTo
    <2>6. Reading'
      <3>1. Len(current') < chunkSize'
        BY <1>1, <1>2, <1>3, <1>5 DEF SettingsOK
      <3>2. i' \in 0..Len(paragraphs')
        BY <1>2, <1>3, <2>2 DEF AreParagraphs
      <3> QED
        BY <1>2, <1>3, <2>2, <2>5, <3>1, <3>2 DEF Reading
    <2> QED
      BY <1>1, <1>5, <2>6 DEF SplitOK, NotBegun
  <1> QED
    BY <1>4, <1>5 DEF Start

\* A paragraph is taken up, with a joint before it or without.
LEMMA NextParagraphOK == SplitOK /\ NextParagraph => SplitOK'
  <1> SUFFICES ASSUME SplitOK, NextParagraph PROVE SplitOK'
    OBVIOUS
  <1>1. SettingsOK' /\ pc' = "splitting"
    BY DEF SplitOK, SettingsOK, NextParagraph
  <1>2. Reading /\ text \in Seq(Letters) /\ chunkSize \in Nat
    BY DEF SplitOK, SettingsOK, NextParagraph
  <1>3. /\ inputs = <<>> /\ i < Len(paragraphs) /\ i' = i + 1
        /\ inputs' = IF i > 0 /\ GlueFits(current)
                     THEN << <<Glue, Glue>>, paragraphs[i + 1] >>
                     ELSE << paragraphs[i + 1] >>
        /\ UNCHANGED <<text, chunkSize, overlap, paragraphs, current, hasNewContent, chunks>>
    BY DEF NextParagraph
  <1>4. /\ i + 1 \in 1..Len(paragraphs) /\ i + 1 \in 0..Len(paragraphs)
        /\ AreParagraphs(text, paragraphs)
    BY <1>2, <1>3 DEF Reading, AreParagraphs
  <1>5. PICK u \in Nat : ReadUpTo(u)
    BY <1>2 DEF Reading
  <1>6. PICK a, b \in Nat : ParagraphOf(text, paragraphs[i + 1], a, b)
    BY <1>4 DEF AreParagraphs
  <1>7. u = a /\ u \in a..b /\ paragraphs[i + 1] = FromTo(u, b)
    <2>1. u = NextStart(text, paragraphs, i)
      BY <1>3, <1>5 DEF ReadUpTo, Waiting
    <2>2. u = paragraphs[i + 1][1]
      BY <1>3, <2>1 DEF NextStart
    <2>3. paragraphs[i + 1][1] = a /\ a <= b /\ paragraphs[i + 1] = FromTo(a, b)
      BY <1>2, <1>6, ParagraphEnds DEF ParagraphOf
    <2> QED
      BY <2>2, <2>3
  <1>8. Waiting(u)'
    <2>1. CASE i > 0 /\ GlueFits(current)
      <3>1. Len(current) + 2 < chunkSize
        <4>1. Len(current) \in Nat
          BY <1>5 DEF ReadUpTo, Sound, CurrentOK
        <4> QED
          BY <1>2, <2>1, <4>1 DEF GlueFits
      <3>2. inputs' = << <<Glue, Glue>>, FromTo(u, b) >>
        BY <1>3, <1>7, <2>1
      <3> QED
        BY <1>3, <1>4, <1>6, <1>7, <3>1, <3>2 DEF Waiting
    <2>2. CASE ~(i > 0 /\ GlueFits(current))
      <3>1. inputs' = <<FromTo(u, b)>>
        BY <1>3, <1>7, <2>2
      <3> QED
        BY <1>3, <1>4, <1>6, <1>7, <3>1 DEF Waiting
    <2> QED
      BY <2>1, <2>2
  <1>9. ReadUpTo(u)'
    BY <1>3, <1>5, <1>8 DEF ReadUpTo
  <1>10. inputs' # <<>>
    BY <1>3
  <1>11. Reading'
    BY <1>2, <1>3, <1>4, <1>9, <1>10 DEF Reading
  <1> QED
    BY <1>1, <1>11 DEF SplitOK, NotBegun

\* The first runes of a stretch, and the rest
LEMMA CutStretch ==
  ASSUME NEW n \in Nat, NEW b \in 1..n, NEW a \in 1..b, NEW k \in 1..(b - a + 1)
  PROVE  /\ SubSeq(FromTo(a, b), 1, k) = FromTo(a, a + k - 1)
         /\ k = b - a + 1 => SubSeq(FromTo(a, b), k + 1, b - a + 1) = <<>>
         /\ k # b - a + 1 =>
              /\ SubSeq(FromTo(a, b), k + 1, b - a + 1) = FromTo(a + k, b)
              /\ FromTo(a + k, b) # <<>> /\ a + k \in a..b
  <1> DEFINE s == FromTo(a, b)
             p == SubSeq(s, 1, k)
             q == SubSeq(s, k + 1, b - a + 1)
  <1>1. /\ a \in 0..n /\ b \in a..n /\ a \in Nat /\ b \in Nat /\ k \in Nat
        /\ a + k - 1 \in a..n /\ b - a + 1 \in Nat /\ (a + k - 1) - a + 1 = k
    OBVIOUS
  <1>2. /\ s \in Seq(0..n) /\ Len(s) = b - a + 1
        /\ \A l \in 1..(b - a + 1) : s[l] = a + l - 1
    BY <1>1, FromToIsSeq
  <1>3. /\ FromTo(a, a + k - 1) \in Seq(0..n) /\ Len(FromTo(a, a + k - 1)) = k
        /\ \A l \in 1..k : FromTo(a, a + k - 1)[l] = a + l - 1
    BY <1>1, FromToIsSeq
  <1> HIDE DEF s
  <1>4. p = FromTo(a, a + k - 1)
    <2>1. \A l \in 1..k : l \in 1..Len(s) /\ 1 + l - 1 = l
      BY <1>2
    <2>2. \A l \in 1..Len(s) : s[l] \in 0..n
      BY <1>2
    <2>3. /\ p \in Seq(0..n) /\ Len(p) = k
          /\ \A l \in 1..k : p[l] = s[l]
      BY <1>1, <1>2, <2>1, <2>2, SubSeqProperties
    <2> HIDE DEF p
    <2>4. \A l \in 1..k : p[l] = FromTo(a, a + k - 1)[l]
      BY <1>2, <1>3, <2>1, <2>3
    <2> QED
      BY <1>3, <2>3, <2>4, SeqEqual
  <1>5. k = b - a + 1 => q = <<>>
    BY <1>1, <1>2, SubSeqProperties
  <1>6. ASSUME k # b - a + 1
        PROVE  q = FromTo(a + k, b) /\ FromTo(a + k, b) # <<>> /\ a + k \in a..b
    <2>1. a + k \in 0..n /\ b \in (a + k)..n /\ b - (a + k) + 1 = b - a + 1 - k
          /\ a + k \in a..b /\ b - a + 1 - k \in 1..n
      BY <1>1, <1>6
    <2>2. PICK c \in 0..n : c = a + k
      BY <2>1
    <2>3. PICK d \in Nat : d = b - a + 1 - k
      BY <2>1
    <2>4. /\ FromTo(c, b) \in Seq(0..n) /\ Len(FromTo(c, b)) = d
          /\ \A l \in 1..d : FromTo(c, b)[l] = c + l - 1
      <3>1. b \in c..n /\ b - c + 1 = d
        BY <2>1, <2>2, <2>3
      <3> QED
        BY <3>1, FromToIsSeq
    <2>5. \A l \in (k + 1)..(b - a + 1) : l \in 1..Len(s) /\ s[l] \in 0..n
      BY <1>2
    <2>6. \A l \in 1..d : (k + 1) + l - 1 \in 1..(b - a + 1)
                          /\ a + ((k + 1) + l - 1) - 1 = c + l - 1
      BY <1>1, <2>2, <2>3
    <2>7. /\ q \in Seq(0..n) /\ Len(q) = d
          /\ \A l \in 1..d : q[l] = s[(k + 1) + l - 1]
      <3>1. (b - a + 1) - (k + 1) + 1 = d /\ k + 1 <= (b - a + 1) + 1
        BY <1>1, <2>3
      <3> QED
        BY <1>1, <1>2, <2>5, <3>1, SubSeqProperties
    <2> HIDE DEF q
    <2>8. \A l \in 1..d : q[l] = FromTo(c, b)[l]
      BY <1>2, <2>4, <2>6, <2>7
    <2>9. q = FromTo(c, b)
      BY <2>4, <2>7, <2>8, SeqEqual
    <2>10. FromTo(c, b) # <<>>
      BY <2>1, <2>3, <2>4
    <2> QED
      BY <2>1, <2>2, <2>9, <2>10
  <1> QED
    BY <1>2, <1>4, <1>5, <1>6 DEF s, p, q

\* A turn of appendRunes with room in the chunk
TurnOf(input, take, filled, left) ==
    /\ input = Head(inputs)
    /\ take = Take(chunkSize - Len(current), input)
    /\ filled = current \o SubSeq(input, 1, take)
    /\ left = SubSeq(input, take + 1, Len(input))
    /\ inputs' = (IF left = <<>> THEN <<>> ELSE <<left>>) \o Tail(inputs)
    /\ Len(filled) # chunkSize =>
         chunks' = chunks /\ current' = filled /\ hasNewContent' = TRUE
    /\ Len(filled) = chunkSize =>
         /\ chunks' = EmitChunk(chunks, filled, TRUE).drafts
         /\ current' = EmitChunk(chunks, filled, TRUE).kept
         /\ hasNewContent' = EmitChunk(chunks, filled, TRUE).new
    /\ UNCHANGED <<text, chunkSize, overlap, paragraphs, i, pc>>

\* Every turn of appendRunes is such a turn as long as there is room.
LEMMA OneTurn ==
  ASSUME AppendRunes, Len(current) # chunkSize
  PROVE  \E input, take, filled, left : TurnOf(input, take, filled, left)
  <1> DEFINE input == Head(inputs)
             take == Take(chunkSize - Len(current), input)
             filled == current \o SubSeq(input, 1, take)
             left == SubSeq(input, take + 1, Len(input))
  <1>1. TurnOf(input, take, filled, left)
    BY DEF AppendRunes, TurnOf
  <1> QED
    BY <1>1

\* The joint between two paragraphs is appended in one turn and fills no chunk.
LEMMA GlueAppended ==
  ASSUME SplitOK, Reading, AppendRunes, NEW a \in Nat, NEW b \in Nat,
         i \in 1..Len(paragraphs), ParagraphOf(text, paragraphs[i], a, b),
         inputs = << <<Glue, Glue>>, FromTo(a, b) >>, Len(current) + 2 < chunkSize,
         text \in Seq(Letters), chunkSize \in Nat, overlap \in Nat,
         Sound(text, chunkSize, overlap, a, current, hasNewContent, chunks)
  PROVE  Reading'
  <1> DEFINE glue == <<Glue, Glue>>
             take == Take(chunkSize - Len(current), glue)
             filled == current \o SubSeq(glue, 1, take)
             left == SubSeq(glue, take + 1, Len(glue))
  <1>1. /\ current \in Seq(Runes(text)) /\ Len(current) \in Nat
    BY DEF Sound, CurrentOK
  <1>2. take = 2 /\ Len(glue) = 2
    BY <1>1 DEF Take
  <1>3. left = <<>> /\ SubSeq(glue, 1, take) = glue
    <2>1. SubSeq(<<Glue, Glue>>, 1, 2) = <<Glue, Glue>>
      BY <<Glue, Glue>> \in Seq({Glue}), Len(<<Glue, Glue>>) = 2, SubSeqFull
    <2>2. SubSeq(<<Glue, Glue>>, 3, 2) = <<>>
      BY DEF Glue
    <2>3. take + 1 = 3
      BY <1>2
    <2> HIDE DEF take
    <2> QED
      BY <1>2, <2>1, <2>2, <2>3
  <1>4. /\ glue \in Seq(Runes(text))
        /\ Words(text, glue) = {}
        /\ Rising(text, glue)
    <2>1. Len(text) \in Nat /\ Glue \in Runes(text) /\ Glue \notin WordRunes(text)
      BY WordsInText DEF Runes, Glue
    <2>2. glue \in Seq(Runes(text))
      BY <2>1
    <2>3. \A k \in 1..Len(glue) : glue[k] = Glue
      BY <1>2
    <2> HIDE DEF glue
    <2> QED
      BY <2>1, <2>2, <2>3 DEF Words, Rising
  <1>5. filled = current \o glue /\ Len(filled) = Len(current) + 2
    <2>1. filled = current \o glue
      BY <1>3
    <2>2. Len(current \o glue) = Len(current) + Len(glue)
      BY <1>1, <1>4, ConcatWords
    <2> QED
      BY <1>2, <2>1, <2>2
  <1>6. Len(current) # chunkSize /\ Len(filled) # chunkSize /\ Len(filled) < chunkSize
    <2> HIDE DEF filled
    <2> QED
      BY <1>1, <1>5
  <1>7. glue = Head(inputs) /\ Tail(inputs) = <<FromTo(a, b)>>
    BY DEF FromTo
  <1> HIDE DEF glue, take, filled, left
  <1>8. /\ inputs' = <<>> \o <<FromTo(a, b)>>
        /\ chunks' = chunks /\ current' = filled /\ hasNewContent' = TRUE
        /\ UNCHANGED <<text, chunkSize, overlap, paragraphs, i, pc>>
    <2>1. /\ inputs' = (IF left = <<>> THEN <<>> ELSE <<left>>) \o Tail(inputs)
          /\ Len(filled) # chunkSize =>
               chunks' = chunks /\ current' = filled /\ hasNewContent' = TRUE
          /\ UNCHANGED <<text, chunkSize, overlap, paragraphs, i, pc>>
      <3>1. PICK input, some, sum, rest : TurnOf(input, some, sum, rest)
        BY <1>6, OneTurn
      <3>2. input = glue
        BY <1>7, <3>1 DEF TurnOf
      <3>3. some = take
        BY <3>1, <3>2 DEF TurnOf, take
      <3>4. sum = filled /\ rest = left
        BY <3>1, <3>2, <3>3 DEF TurnOf, filled, left
      <3> QED
        BY <3>1, <3>4 DEF TurnOf
    <2> QED
      BY <1>3, <1>6, <1>7, <2>1
  <1>9. inputs' = <<FromTo(a, b)>> /\ inputs' # <<>>
    BY <1>8 DEF FromTo
  <1>10. Sound(text, chunkSize, overlap, a, filled, TRUE, chunks)
    <2>1. a <= a /\ \A w \in WordRunes(text) : ~(a <= w /\ w < a)
      BY WordsInText
    <2>2. \A w : w \in Words(text, glue) <=> w \in WordRunes(text) /\ a <= w /\ w < a
      BY <1>4, <2>1
    <2>3. Sound(text, chunkSize, overlap, a, current \o glue, TRUE, chunks)
      BY <1>4, <2>1, <2>2, PieceRead
    <2> QED
      BY <1>5, <2>3
  <1>11. Waiting(a)'
    <2>1. a \in a..b
      BY ParagraphEnds
    <2> QED
      BY <1>8, <1>9, <2>1 DEF Waiting
  <1>12. ReadUpTo(a)'
    BY <1>8, <1>10, <1>11 DEF ReadUpTo
  <1> QED
    BY <1>6, <1>8, <1>9, <1>12 DEF Reading

\* A turn that appends the runes up to v of a paragraph
LEMMA ParagraphAppended ==
  ASSUME SplitOK, Reading, AppendRunes, NEW a \in Nat, NEW b \in Nat, NEW u \in a..b,
         i \in 1..Len(paragraphs), ParagraphOf(text, paragraphs[i], a, b),
         inputs = <<FromTo(u, b)>>,
         text \in Seq(Letters), chunkSize \in Nat, overlap \in Nat, overlap < chunkSize,
         Sound(text, chunkSize, overlap, u, current, hasNewContent, chunks)
  PROVE  Reading'
  <1> DEFINE input == FromTo(u, b)
             take == Take(chunkSize - Len(current), input)
             filled == current \o SubSeq(input, 1, take)
             left == SubSeq(input, take + 1, Len(input))
             next == NextStart(text, paragraphs, i)
  <1>1. /\ current \in Seq(Runes(text)) /\ Len(current) \in Nat /\ Len(current) < chunkSize
        /\ AreParagraphs(text, paragraphs)
    BY DEF Sound, CurrentOK, Reading
  <1>2. /\ a \in WordRunes(text) /\ b \in WordRunes(text) /\ SameParagraph(text, a, b)
        /\ a \in 1..b /\ b \in 1..Len(text) /\ Len(text) \in Nat
        /\ u \in 1..b /\ u \in Nat
        /\ paragraphs[i][Len(paragraphs[i])] = b
    <2>1. a \in WordRunes(text) /\ b \in WordRunes(text) /\ SameParagraph(text, a, b)
      BY DEF ParagraphOf
    <2>2. a \in 1..b /\ paragraphs[i][Len(paragraphs[i])] = b
      BY ParagraphEnds
    <2>3. b \in 1..Len(text) /\ Len(text) \in Nat
      BY <2>1 DEF WordRunes
    <2> QED
      BY <2>1, <2>2, <2>3
  <1>3. input \in Seq(Runes(text)) /\ Len(input) = b - u + 1
    BY <1>2, StretchWords
  <1>4. /\ take \in Nat /\ take \in 1..(b - u + 1) /\ take <= chunkSize - Len(current)
        /\ take # b - u + 1 => take = chunkSize - Len(current)
    <2>1. PICK r \in Nat : r = chunkSize - Len(current) /\ 0 < r
      BY <1>1
    <2>2. PICK c \in Nat : c = b - u + 1 /\ 0 < c
      BY <1>2
    <2>3. take = IF r < c THEN r ELSE c
      BY <1>3, <2>1, <2>2 DEF Take
    <2> HIDE DEF take
    <2> QED
      BY <2>1, <2>2, <2>3
  <1> HIDE DEF take
  <1>5. /\ SubSeq(input, 1, take) = FromTo(u, u + take - 1)
        /\ take = b - u + 1 => left = <<>>
        /\ take # b - u + 1 =>
             left = FromTo(u + take, b) /\ left # <<>> /\ u + take \in u..b
    <2>1. PICK n \in Nat : n = Len(text) /\ b \in 1..n
      BY <1>2
    <2>2. PICK k \in 1..(b - u + 1) : k = take
      BY <1>4
    <2> HIDE DEF input, left
    <2>4. /\ SubSeq(FromTo(u, b), 1, k) = FromTo(u, u + k - 1)
          /\ k = b - u + 1 => SubSeq(FromTo(u, b), k + 1, b - u + 1) = <<>>
          /\ k # b - u + 1 =>
               /\ SubSeq(FromTo(u, b), k + 1, b - u + 1) = FromTo(u + k, b)
               /\ FromTo(u + k, b) # <<>> /\ u + k \in u..b
      <3>1. u \in 1..b
        BY <1>2
      <3> QED
        BY <2>1, <3>1, CutStretch, Zenon
    <2>3. left = SubSeq(FromTo(u, b), take + 1, b - u + 1)
      BY <1>3 DEF input, left
    <2> QED
      BY <2>2, <2>3, <2>4 DEF input
  <1> DEFINE piece == FromTo(u, u + take - 1)
  <1>6. /\ piece \in Seq(Runes(text)) /\ Len(piece) = take
        /\ Words(text, piece) = WordRunes(text) \cap (u..(u + take - 1))
        /\ Rising(text, piece)
    <2>1. PICK c \in Nat : c = u + take - 1
      BY <1>2, <1>4
    <2>2. c \in 1..Len(text) /\ u \in 1..c /\ c - u + 1 = take
      BY <1>2, <1>4, <2>1
    <2> QED
      BY <2>1, <2>2, StretchWords
  <1>7. /\ next \in Nat /\ b < next
        /\ \A w \in WordRunes(text) : w < next => w <= b
    <2>1. i \in 0..Len(paragraphs) /\ i > 0
      BY <1>1 DEF AreParagraphs
    <2> QED
      BY <1>1, <1>2, <2>1, NoWordBetween
  <1> HIDE DEF next, input, left, piece
  <1>8. PICK v \in Nat : v = IF take = b - u + 1 THEN next ELSE u + take
    BY <1>2, <1>4, <1>7
  <1>9. u < v /\ \A w : w \in Words(text, piece) <=> w \in WordRunes(text) /\ u <= w /\ w < v
    <2>1. \A w \in WordRunes(text) : w \in Nat
      BY WordsInText
    <2>2. CASE take = b - u + 1
      <3>1. v = next /\ u + take - 1 = b
        BY <1>2, <1>8, <2>2
      <3>2. Words(text, piece) = WordRunes(text) \cap (u..b)
        BY <1>6, <3>1
      <3>3. b \in Nat /\ u <= b
        BY <1>2
      <3>4. \A w \in WordRunes(text) : w \in u..b <=> u <= w /\ w < v
        BY <1>2, <1>7, <2>1, <3>1, <3>3
      <3>5. u < v
        BY <1>2, <1>7, <3>1, <3>3
      <3> QED
        BY <3>2, <3>4, <3>5
    <2>3. CASE take # b - u + 1
      <3>1. v = u + take /\ u + take - 1 = v - 1
        BY <1>2, <1>4, <1>8, <2>3
      <3>2. Words(text, piece) = WordRunes(text) \cap (u..(v - 1))
        BY <1>6, <3>1
      <3>3. \A w \in WordRunes(text) : w \in u..(v - 1) <=> u <= w /\ w < v
        BY <1>2, <2>1
      <3>4. u < v
        BY <1>2, <1>4, <3>1
      <3> QED
        BY <3>2, <3>3, <3>4
    <2> QED
      BY <2>2, <2>3
  <1>10. filled = current \o piece /\ Len(filled) = Len(current) + take
    <2>1. filled = current \o piece
      BY <1>5 DEF piece
    <2>2. Len(current \o piece) = Len(current) + Len(piece)
      BY <1>1, <1>6, ConcatWords
    <2> QED
      BY <1>6, <2>1, <2>2
  <1>11. Sound(text, chunkSize, overlap, v, filled, TRUE, chunks)
    <2>1. u <= v /\ u \in Nat
      BY <1>2, <1>9
    <2>2. Sound(text, chunkSize, overlap, v, current \o piece, TRUE, chunks)
      BY <1>6, <1>9, <2>1, PieceRead
    <2> QED
      BY <1>10, <2>2
  <1> HIDE DEF filled
  <1>12. /\ inputs' = IF left = <<>> THEN <<>> ELSE <<left>>
         /\ Len(filled) # chunkSize =>
              chunks' = chunks /\ current' = filled /\ hasNewContent' = TRUE
         /\ Len(filled) = chunkSize =>
              /\ chunks' = EmitChunk(chunks, filled, TRUE).drafts
              /\ current' = EmitChunk(chunks, filled, TRUE).kept
              /\ hasNewContent' = EmitChunk(chunks, filled, TRUE).new
         /\ UNCHANGED <<text, chunkSize, overlap, paragraphs, i, pc>>
    <2>1. input = Head(inputs) /\ Tail(inputs) = <<>> /\ Len(current) # chunkSize
      BY <1>1 DEF input
    <2>2. PICK whole, some, sum, rest : TurnOf(whole, some, sum, rest)
      BY <2>1, OneTurn
    <2>3. /\ inputs' = (IF left = <<>> THEN <<>> ELSE <<left>>) \o <<>>
          /\ Len(filled) # chunkSize =>
               chunks' = chunks /\ current' = filled /\ hasNewContent' = TRUE
          /\ Len(filled) = chunkSize =>
               /\ chunks' = EmitChunk(chunks, filled, TRUE).drafts
               /\ current' = EmitChunk(chunks, filled, TRUE).kept
               /\ hasNewContent' = EmitChunk(chunks, filled, TRUE).new
          /\ UNCHANGED <<text, chunkSize, overlap, paragraphs, i, pc>>
      <3>1. whole = input
        BY <2>1, <2>2 DEF TurnOf
      <3>2. some = take
        BY <2>2, <3>1 DEF TurnOf, take
      <3>3. sum = filled /\ rest = left
        BY <2>2, <3>1, <3>2 DEF TurnOf, filled, left
      <3> QED
        BY <2>1, <2>2, <3>3 DEF TurnOf
    <2>4. <<>> \o <<>> = <<>> /\ <<left>> \o <<>> = <<left>>
      OBVIOUS
    <2> QED
      BY <2>3, <2>4
  <1>13. Waiting(v)'
    <2>1. CASE take = b - u + 1
      <3>1. inputs' = <<>> /\ v = next
        BY <1>5, <1>8, <1>12, <2>1
      <3> QED
        BY <1>12, <3>1 DEF Waiting, next
    <2>2. CASE take # b - u + 1
      <3>1. inputs' = <<FromTo(v, b)>> /\ v \in a..b
        BY <1>2, <1>5, <1>8, <1>12, <2>2
      <3> QED
        BY <1>12, <3>1 DEF Waiting
    <2> QED
      BY <2>1, <2>2
  <1>14. CASE Len(filled) # chunkSize
    <2>1. take = b - u + 1 /\ Len(filled) < chunkSize
      <3>1. take # b - u + 1 => Len(filled) = chunkSize
        BY <1>1, <1>4, <1>10
      <3>2. Len(filled) <= chunkSize /\ Len(filled) \in Nat
        BY <1>1, <1>4, <1>10
      <3> QED
        BY <1>14, <3>1, <3>2
    <2>2. b \in Words(text, filled)
      <3>1. b \in Words(text, piece)
        <4>1. u + take - 1 = b /\ b \in u..b
          BY <1>2, <2>1
        <4>2. Words(text, piece) = WordRunes(text) \cap (u..b)
          BY <1>6, <4>1
        <4> QED
          BY <1>2, <4>1, <4>2
      <3>2. Words(text, filled) = Words(text, current) \cup Words(text, piece)
        BY <1>1, <1>6, <1>10, ConcatWords
      <3> QED
        BY <3>1, <3>2
    <2>3. b \notin Emitted(text, chunks, Len(chunks))
      <3>1. ~(b < u)
        BY <1>2
      <3> QED
        BY <3>1 DEF Sound, Accounted
    <2>4. ReadUpTo(v)'
      BY <1>11, <1>12, <1>13, <1>14 DEF ReadUpTo
    <2> QED
      BY <1>1, <1>12, <1>14, <2>1, <2>2, <2>3, <2>4 DEF Reading
  <1>15. CASE Len(filled) = chunkSize
    <2>1. Words(text, filled) \subseteq Emitted(text, chunks, Len(chunks)) =>
            \A m \in Words(text, filled) :
              (\A w \in Words(text, filled) : w <= m) => BlanksAfter(text, m)
      <3> SUFFICES ASSUME Words(text, current \o piece)
                            \subseteq Emitted(text, chunks, Len(chunks)),
                          NEW m \in Words(text, current \o piece),
                          \A w \in Words(text, current \o piece) : w <= m
                   PROVE  BlanksAfter(text, m)
        BY <1>10
      <3> QED
        BY <1>2, <1>6, <1>9, RepeatsAreBlank
    <2>2. filled # <<>>
      BY <1>1, <1>15
    <2>3. Len(filled) <= chunkSize
      BY <1>15
    <2>4. PICK emit : emit = EmitChunk(chunks, filled, TRUE)
      OBVIOUS
    <2>5. /\ Sound(text, chunkSize, overlap, v, emit.kept, FALSE, emit.drafts)
          /\ Len(emit.kept) < chunkSize /\ emit.new = FALSE
      BY <1>11, <2>1, <2>2, <2>3, <2>4, ChunkEmitted
    <2>6. chunks' = emit.drafts /\ current' = emit.kept /\ hasNewContent' = FALSE
      BY <1>12, <1>15, <2>4, <2>5
    <2>7. ReadUpTo(v)'
      BY <1>12, <1>13, <2>5, <2>6 DEF ReadUpTo
    <2> QED
      BY <1>1, <1>12, <2>5, <2>6, <2>7 DEF Reading
  <1> QED
    BY <1>14, <1>15

\* A turn of appendRunes appends the joint or runes of a paragraph.
LEMMA AppendRunesOK == SplitOK /\ AppendRunes => SplitOK'
  <1> SUFFICES ASSUME SplitOK, AppendRunes PROVE SplitOK'
    OBVIOUS
  <1>1. pc = "splitting" /\ inputs # <<>>
    BY DEF SplitOK, SettingsOK, NotBegun, Finished, AppendRunes
  <1>2. UNCHANGED <<text, chunkSize, overlap, pc>>
    BY DEF AppendRunes
  <1>3. /\ Reading /\ SettingsOK
        /\ text \in Seq(Letters) /\ chunkSize \in Nat /\ overlap \in Nat /\ overlap < chunkSize
    BY <1>1 DEF SplitOK, SettingsOK
  <1>4. PICK u \in Nat : ReadUpTo(u)
    BY <1>3 DEF Reading
  <1>5. PICK a, b \in Nat :
          /\ i \in 1..Len(paragraphs)
          /\ ParagraphOf(text, paragraphs[i], a, b) /\ u \in a..b
          /\ \/ inputs = <<FromTo(u, b)>>
             \/ /\ inputs = << <<Glue, Glue>>, FromTo(u, b) >>
                /\ u = a /\ Len(current) + 2 < chunkSize
    BY <1>1, <1>4 DEF ReadUpTo, Waiting
  <1>6. Sound(text, chunkSize, overlap, u, current, hasNewContent, chunks)
    BY <1>4 DEF ReadUpTo
  <1>7. CASE inputs = <<FromTo(u, b)>>
    <2>1. Reading'
      BY <1>3, <1>5, <1>6, <1>7, ParagraphAppended
    <2> QED
      BY <1>1, <1>2, <1>3, <2>1 DEF SplitOK, NotBegun, SettingsOK
  <1>8. CASE /\ inputs = << <<Glue, Glue>>, FromTo(u, b) >>
             /\ u = a /\ Len(current) + 2 < chunkSize
    <2>1. Reading'
      BY <1>3, <1>5, <1>6, <1>8, GlueAppended
    <2> QED
      BY <1>1, <1>2, <1>3, <2>1 DEF SplitOK, NotBegun, SettingsOK
  <1> QED
    BY <1>5, <1>7, <1>8

\* At the end of the text every word is in a chunk.
LEMMA AllEmitted ==
  ASSUME NEW t \in Seq(Letters), NEW size, NEW shared, NEW cur, NEW drafts, NEW u,
         u = Len(t) + 1, Sound(t, size, shared, u, cur, FALSE, drafts)
  PROVE  /\ DraftsOK(t, size, shared, drafts)
         /\ Emitted(t, drafts, Len(drafts)) = WordRunes(t)
  <1>1. \A w \in WordRunes(t) : w < u
    BY WordsInText
  <1>2. \A w \in WordRunes(t) : w \in Emitted(t, drafts, Len(drafts))
    BY <1>1 DEF Sound, Accounted
  <1>3. \A w \in Emitted(t, drafts, Len(drafts)) : w \in WordRunes(t)
    BY DEF Emitted, Words
  <1> QED
    BY <1>2, <1>3 DEF Sound

\* The last chunk is made of what was appended since the one before.
LEMMA LastChunkOK == SplitOK /\ LastChunk => SplitOK'
  <1> SUFFICES ASSUME SplitOK, LastChunk PROVE SplitOK'
    OBVIOUS
  <1>1. SettingsOK' /\ pc' = "done"
    BY DEF SplitOK, SettingsOK, LastChunk
  <1>2. /\ Reading
        /\ text \in Seq(Letters) /\ chunkSize \in Nat /\ overlap \in Nat /\ overlap < chunkSize
    BY DEF SplitOK, SettingsOK, LastChunk
  <1>3. /\ inputs = <<>> /\ i = Len(paragraphs) /\ Len(paragraphs) \in Nat
        /\ UNCHANGED <<text, chunkSize, overlap, paragraphs, i, inputs>>
    BY <1>2 DEF LastChunk, Reading, AreParagraphs
  <1>4. PICK u \in Nat : ReadUpTo(u)
    BY <1>2 DEF Reading
  <1>5. u = Len(text) + 1
    <2>1. u = NextStart(text, paragraphs, i)
      BY <1>3, <1>4 DEF ReadUpTo, Waiting
    <2> QED
      BY <1>3, <2>1 DEF NextStart
  <1>6. /\ DraftsOK(text, chunkSize, overlap, chunks')
        /\ Emitted(text, chunks', Len(chunks')) = WordRunes(text)
    <2>1. CASE hasNewContent = FALSE
      <3>1. chunks' = chunks
        BY <2>1 DEF LastChunk, EmitChunk
      <3>2. Sound(text, chunkSize, overlap, u, current, FALSE, chunks)
        BY <1>4, <2>1 DEF ReadUpTo
      <3> QED
        BY <1>2, <1>5, <3>1, <3>2, AllEmitted
    <2>2. CASE hasNewContent = TRUE
      <3>1. PICK w \in Words(text, current) : w \notin Emitted(text, chunks, Len(chunks))
        BY <1>2, <1>3, <2>2 DEF Reading
      <3>2. current # <<>>
        BY <3>1 DEF Words
      <3>3. Len(current) <= chunkSize
        <4>1. Len(current) \in Nat /\ Len(current) < chunkSize
          BY <1>2, <1>4 DEF ReadUpTo, Sound, CurrentOK, Reading
        <4> QED
          BY <1>2, <4>1
      <3>4. PICK emit : emit = EmitChunk(chunks, current, TRUE)
        OBVIOUS
      <3>5. Sound(text, chunkSize, overlap, u, current, TRUE, chunks)
        BY <1>4, <2>2 DEF ReadUpTo
      <3>6. Sound(text, chunkSize, overlap, u, emit.kept, FALSE, emit.drafts)
        BY <1>2, <3>1, <3>2, <3>3, <3>4, <3>5, ChunkEmitted
      <3>7. chunks' = emit.drafts
        BY <2>2, <3>4 DEF LastChunk
      <3> QED
        BY <1>2, <1>5, <3>6, <3>7, AllEmitted
    <2> QED
      BY <1>2, <2>1, <2>2 DEF Reading
  <1>7. Finished'
    BY <1>3, <1>6 DEF Finished
  <1> QED
    BY <1>1, <1>7 DEF SplitOK, NotBegun

\* The invariant is about the variables only.
LEMMA StutterOK == SplitOK /\ UNCHANGED vars => SplitOK'
  <1> SUFFICES ASSUME SplitOK, UNCHANGED vars PROVE SplitOK'
    OBVIOUS
  <1>1. SettingsOK' /\ NotBegun'
    BY DEF vars, SplitOK, SettingsOK, NotBegun
  <1>2. pc' = "splitting" => Reading'
    BY DEF vars, SplitOK, Reading, ReadUpTo, Waiting
  <1>3. pc' = "done" => Finished'
    BY DEF vars, SplitOK, Finished
  <1> QED
    BY <1>1, <1>2, <1>3 DEF SplitOK

\* The invariant holds in every state of every call of Split.
LEMMA SplitStaysOK == Spec => []SplitOK
  <1>1. SplitOK /\ [Next]_vars => SplitOK'
    BY NormalizeOK, StartOK, NextParagraphOK, AppendRunesOK, LastChunkOK, StutterOK
    DEF Next
  <1> QED
    BY InitOK, <1>1, PTL DEF Spec

\* The chunks are in order at any time.
LEMMA DraftsStayOK ==
  ASSUME SplitOK
  PROVE  /\ text \in Seq(Letters)
         /\ DraftsOK(text, chunkSize, overlap, chunks)
         /\ chunks \in Seq(Seq(Runes(text))) /\ DOMAIN chunks = 1..Len(chunks)
         /\ Len(chunks) \in Nat
         /\ \A k \in 1..Len(chunks) :
              WordsOf(chunks[k]) = Words(text, chunks[k])
              /\ (Ascending(chunks[k]) <=> Rising(text, chunks[k]))
  <1>1. text \in Seq(Letters)
    BY DEF SplitOK, SettingsOK
  <1>2. DraftsOK(text, chunkSize, overlap, chunks)
    <2>1. DraftsOK(text, chunkSize, overlap, <<>>)
      BY DEF DraftsOK
    <2>2. CASE pc \in {"start", "normalized", "rejected"}
      BY <2>1, <2>2 DEF SplitOK, NotBegun
    <2>3. CASE pc = "splitting"
      BY <2>3 DEF SplitOK, Reading, ReadUpTo, Sound
    <2>4. CASE pc = "done"
      BY <2>4 DEF SplitOK, Finished
    <2> QED
      BY <2>2, <2>3, <2>4 DEF SplitOK, SettingsOK
  <1>3. chunks \in Seq(Seq(Runes(text)))
    BY <1>2 DEF DraftsOK
  <1>4. \A k \in 1..Len(chunks) : chunks[k] \in Seq(Runes(text))
    BY <1>3
  <1> QED
    BY <1>1, <1>2, <1>3, <1>4, WordsAre

-----------------------------------------------------------------------------
(* The theorems.                                                           *)

\* Every chunk is within the target size and neither empty nor blank at an end,
\* whatever text, chunk size and overlap Split is called with.
THEOREM ChunksAlwaysFit == Spec => []ChunksFit
  <1>1. SplitOK => ChunksFit
    <2> SUFFICES ASSUME SplitOK, NEW k \in DOMAIN chunks
                 PROVE  /\ Len(chunks[k]) \in 1..chunkSize
                        /\ ~BlankRune(text, Head(chunks[k]))
                        /\ ~BlankRune(text, LastWord(chunks[k]))
      BY DEF ChunksFit
    <2> DEFINE d == chunks[k]
    <2>1. k \in 1..Len(chunks) /\ text \in Seq(Letters)
      BY DraftsStayOK
    <2>2. ChunkOK(text, chunkSize, d)
      BY <2>1, DraftsStayOK DEF DraftsOK
    <2> HIDE DEF d
    <2>3. /\ d \in Seq(Runes(text)) /\ Len(d) \in 1..chunkSize /\ d # <<>>
          /\ d[1] \in WordRunes(text) /\ d[Len(d)] \in WordRunes(text)
      BY <2>2 DEF ChunkOK
    <2>4. Head(d) = d[1] /\ d[1] \in Runes(text) /\ d[Len(d)] \in Runes(text)
      BY <2>3
    <2> QED
      BY <2>1, <2>3, <2>4, WordsInText DEF d, LastWord
  <1> QED
    BY <1>1, SplitStaysOK, PTL

\* Chunks hold consecutive words, follow one another as the text does, and share
\* no more than the overlap.
THEOREM ReadingOrderKept == Spec => []InReadingOrder
  <1>1. SplitOK => InReadingOrder
    <2> SUFFICES ASSUME SplitOK PROVE InReadingOrder
      OBVIOUS
    <2>1. \A k \in 1..Len(chunks) :
            /\ ChunkOK(text, chunkSize, chunks[k])
            /\ WordsOf(chunks[k]) = Words(text, chunks[k])
            /\ (Ascending(chunks[k]) <=> Rising(text, chunks[k]))
            /\ Head(chunks[k]) = chunks[k][1]
      <3>1. \A k \in 1..Len(chunks) : ChunkOK(text, chunkSize, chunks[k])
        BY DraftsStayOK DEF DraftsOK
      <3>2. \A k \in 1..Len(chunks) : Head(chunks[k]) = chunks[k][1]
        BY <3>1 DEF ChunkOK
      <3> QED
        BY <3>1, <3>2, DraftsStayOK
    <2>2. \A k \in 1..Len(chunks) :
            /\ Ascending(chunks[k])
            /\ WordsOf(chunks[k]) =
                 WordRunes(text) \cap (Head(chunks[k])..LastWord(chunks[k]))
      BY <2>1 DEF ChunkOK, LastWord
    <2>3. ASSUME NEW k \in 2..Len(chunks)
          PROVE  /\ LastWord(chunks[k - 1]) <= LastWord(chunks[k])
                 /\ Head(chunks[k - 1]) <= Head(chunks[k])
                 /\ Cardinality(WordsOf(chunks[k - 1]) \cap WordsOf(chunks[k])) <= overlap
      <3>1. k \in 1..Len(chunks) /\ k - 1 \in 1..Len(chunks)
        BY DraftsStayOK
      <3>2. Follows(text, overlap, chunks[k - 1], chunks[k])
        BY DraftsStayOK DEF DraftsOK
      <3> QED
        BY <2>1, <3>1, <3>2 DEF Follows, LastWord
    <2>4. DOMAIN chunks = 1..Len(chunks)
      BY DraftsStayOK
    <2> QED
      BY <2>2, <2>3, <2>4 DEF InReadingOrder
  <1> QED
    BY <1>1, SplitStaysOK, PTL

\* A chunk that only repeats words ends before a run of blanks inside a paragraph.
THEOREM OnlyBlanksRepeat == Spec => []RepeatsOnlyInBlanks
  <1>1. SplitOK => RepeatsOnlyInBlanks
    <2> SUFFICES ASSUME SplitOK, NEW k \in DOMAIN chunks,
                        WordsOf(chunks[k]) \subseteq WordsBefore(k)
                 PROVE  BlanksAfter(text, LastWord(chunks[k]))
      BY DEF RepeatsOnlyInBlanks, BlanksAfter
    <2>1. k \in 1..Len(chunks) /\ Len(chunks) \in Nat
      BY DraftsStayOK
    <2>2. \A l \in 1..(k - 1) : l \in 1..Len(chunks)
      BY <2>1
    <2>3. WordsBefore(k) = Emitted(text, chunks, k - 1)
      BY <2>2, DraftsStayOK DEF WordsBefore, Emitted
    <2>4. WordsOf(chunks[k]) = Words(text, chunks[k])
      BY <2>1, DraftsStayOK
    <2> QED
      BY <2>1, <2>3, <2>4, DraftsStayOK DEF DraftsOK, LastWord
  <1> QED
    BY <1>1, SplitStaysOK, PTL

\* A word that has not been read yet waits in what is left of the paragraph that
\* is being appended or in a later one.
LEMMA UnreadWaits ==
  ASSUME text \in Seq(Letters), AreParagraphs(text, paragraphs),
         i \in 0..Len(paragraphs), NEW u \in Nat, Waiting(u),
         NEW w \in WordRunes(text), ~(w < u)
  PROVE  \/ \E k \in DOMAIN inputs : w \in WordsOf(inputs[k])
         \/ \E k \in (i + 1)..Len(paragraphs) : w \in WordsOf(paragraphs[k])
  <1>1. /\ Len(paragraphs) \in Nat /\ Len(text) \in Nat /\ i \in Nat
        /\ \A r \in WordRunes(text) : r \in Nat /\ r <= Len(text)
    BY WordsInText DEF AreParagraphs
  <1>2. PICK k \in 1..Len(paragraphs) :
          paragraphs[k][1] <= w /\ w <= paragraphs[k][Len(paragraphs[k])]
    BY DEF AreParagraphs
  <1>3. PICK c, d \in Nat : ParagraphOf(text, paragraphs[k], c, d)
    BY DEF AreParagraphs
  <1>4. /\ paragraphs[k][1] = c /\ paragraphs[k][Len(paragraphs[k])] = d
        /\ Words(text, paragraphs[k]) = WordRunes(text) \cap (c..d)
    BY <1>3, ParagraphEnds
  <1>5. c \in 1..d /\ d \in 1..Len(text) /\ paragraphs[k] = FromTo(c, d)
    <2>1. c \in 1..d
      BY <1>3, ParagraphEnds
    <2>2. d \in WordRunes(text) /\ paragraphs[k] = FromTo(c, d)
      BY <1>3 DEF ParagraphOf
    <2> QED
      BY <2>1, <2>2 DEF WordRunes
  <1>6. CASE k \in (i + 1)..Len(paragraphs)
    <2>1. paragraphs[k] \in Seq(Runes(text))
      BY <1>5, StretchWords
    <2>2. w \in Words(text, paragraphs[k])
      BY <1>1, <1>2, <1>3, <1>4
    <2>3. w \in WordsOf(paragraphs[k])
      BY <2>1, <2>2, WordsAre
    <2> QED
      BY <1>6, <2>3
  <1>7. CASE k \notin (i + 1)..Len(paragraphs)
    <2>1. k <= i /\ i \in 1..Len(paragraphs) /\ k \in Nat
      BY <1>1, <1>7
    <2>2. PICK a, b \in Nat : ParagraphOf(text, paragraphs[i], a, b)
      BY <2>1 DEF AreParagraphs
    <2>3. /\ paragraphs[i][1] = a /\ paragraphs[i][Len(paragraphs[i])] = b
          /\ a <= b /\ b \in WordRunes(text)
      BY <2>2, ParagraphEnds DEF ParagraphOf
    <2>4. w <= b /\ (k < i => w < a)
      <3>1. k < i => d < a
        BY <1>4, <2>1, <2>3 DEF AreParagraphs
      <3>2. k = i => d = b
        BY <1>4, <2>3
      <3> QED
        <4>1. w \in Nat /\ w <= d /\ a <= b
          BY <1>1, <1>2, <1>4, <2>3
        <4>2. CASE k < i
          <5>1. d < a
            BY <3>1, <4>2
          <5> QED
            BY <4>1, <5>1
        <4>3. CASE k = i
          <5>1. d = b
            BY <3>2, <4>3
          <5> QED
            BY <4>1, <4>3, <5>1
        <4> QED
          BY <1>1, <2>1, <4>2, <4>3
    <2>5. CASE inputs = <<>> /\ u = NextStart(text, paragraphs, i)
      <3>1. b < u
        <4>1. i > 0
          BY <2>1
        <4> QED
          BY <2>3, <2>5, <4>1, NoWordBetween
      <3> QED
        BY <1>1, <2>2, <2>4, <3>1
    <2>6. CASE inputs # <<>>
      <3>1. PICK e, f \in Nat :
              /\ ParagraphOf(text, paragraphs[i], e, f) /\ u \in e..f
              /\ \/ inputs = <<FromTo(u, f)>>
                 \/ inputs = << <<Glue, Glue>>, FromTo(u, f) >>
        BY <2>6 DEF Waiting
      <3>2. /\ paragraphs[i][1] = e /\ paragraphs[i][Len(paragraphs[i])] = f
            /\ e \in 1..f
        BY <3>1, ParagraphEnds
      <3>3. f = b /\ e = a
        BY <2>3, <3>2
      <3>4. u \in 1..b /\ b \in 1..Len(text) /\ w \in u..b
        <4>1. w \in Nat /\ w <= b /\ u \in a..b
          BY <1>1, <2>4, <3>1, <3>3
        <4>2. a \in 1..b /\ b \in 1..Len(text)
          BY <2>3, <3>2, <3>3 DEF WordRunes
        <4> QED
          BY <4>1, <4>2
      <3>5. /\ FromTo(u, b) \in Seq(Runes(text))
            /\ Words(text, FromTo(u, b)) = WordRunes(text) \cap (u..b)
        BY <3>4, StretchWords
      <3>6. w \in WordsOf(FromTo(u, b))
        BY <3>4, <3>5, WordsAre
      <3>7. \/ 1 \in DOMAIN inputs /\ inputs[1] = FromTo(u, b)
            \/ 2 \in DOMAIN inputs /\ inputs[2] = FromTo(u, b)
        <4> DEFINE rest == FromTo(u, b)
        <4> HIDE DEF rest
        <4>1. \/ inputs = <<rest>>
              \/ inputs = << <<Glue, Glue>>, rest >>
          BY <3>1, <3>3 DEF rest
        <4>2. \/ 1 \in DOMAIN inputs /\ inputs[1] = rest
              \/ 2 \in DOMAIN inputs /\ inputs[2] = rest
          BY <4>1
        <4> QED
          BY <4>2 DEF rest
      <3> QED
        BY <3>6, <3>7
    <2> QED
      BY <2>5, <2>6 DEF Waiting
  <1> QED
    BY <1>6, <1>7

\* All that the model calls a word of some runes is a word of the text.
LEMMA OnlyWords ==
  ASSUME text \in Seq(Letters), NEW s, \A k \in DOMAIN s : s[k] \in Runes(text)
  PROVE  WordsOf(s) \subseteq WordRunes(text)
  BY WordsInText DEF WordsOf

\* No word of the text is lost, at any step.
THEOREM NoWordIsLost == Spec => []NothingLost
  <1>1. SplitOK => NothingLost
    <2> SUFFICES ASSUME SplitOK, pc \in {"splitting", "done"}
                 PROVE  WordRunes(text) =
                          UNION ({WordsOf(chunks[k]) : k \in DOMAIN chunks}
                                 \cup {WordsOf(inputs[k]) : k \in DOMAIN inputs}
                                 \cup {WordsOf(paragraphs[k]) :
                                         k \in (i + 1)..Len(paragraphs)}
                                 \cup (IF pc = "splitting" /\ hasNewContent
                                       THEN {WordsOf(current)} ELSE {}))
      BY DEF NothingLost
    <2> DEFINE drafted == UNION {WordsOf(chunks[k]) : k \in DOMAIN chunks}
               waiting == UNION {WordsOf(inputs[k]) : k \in DOMAIN inputs}
               later == UNION {WordsOf(paragraphs[k]) : k \in (i + 1)..Len(paragraphs)}
               building == IF pc = "splitting" /\ hasNewContent THEN WordsOf(current) ELSE {}
    <2>1. text \in Seq(Letters) /\ drafted = Emitted(text, chunks, Len(chunks))
      BY DraftsStayOK DEF Emitted
    <2>2. drafted \subseteq WordRunes(text)
      BY <2>1 DEF Emitted, Words
    <2>3. WordRunes(text) = drafted \cup waiting \cup later \cup building
      <3>1. CASE pc = "done"
        <4>1. Finished
          BY <3>1 DEF SplitOK
        <4>2. waiting = {} /\ building = {}
          BY <3>1, <4>1 DEF Finished
        <4>3. later = {}
          <5>1. (i + 1)..Len(paragraphs) = {}
            BY <4>1 DEF Finished
          <5> QED
            BY <5>1
        <4>4. drafted = WordRunes(text)
          BY <2>1, <4>1 DEF Finished
        <4> QED
          BY <4>2, <4>3, <4>4
      <3>2. CASE pc = "splitting"
        <4>1. Reading
          BY <3>2 DEF SplitOK
        <4>2. PICK u \in Nat : ReadUpTo(u)
          BY <4>1 DEF Reading
        <4>3. /\ AreParagraphs(text, paragraphs) /\ i \in 0..Len(paragraphs)
              /\ Waiting(u) /\ hasNewContent \in BOOLEAN
              /\ Sound(text, chunkSize, overlap, u, current, hasNewContent, chunks)
          BY <4>1, <4>2 DEF Reading, ReadUpTo
        <4>4. WordsOf(current) = Words(text, current)
          BY <2>1, <4>3, WordsAre DEF Sound, CurrentOK
        <4>5. ASSUME NEW w \in WordRunes(text)
              PROVE  w \in drafted \cup waiting \cup later \cup building
          <5>1. CASE w < u
            <6>1. \/ w \in Emitted(text, chunks, Len(chunks))
                  \/ (hasNewContent /\ w \in Words(text, current))
              BY <4>3, <5>1 DEF Sound, Accounted
            <6>2. hasNewContent => building = Words(text, current)
              BY <3>2, <4>4
            <6> HIDE DEF drafted, waiting, later, building
            <6> QED
              BY <2>1, <6>1, <6>2
          <5>2. CASE ~(w < u)
            <6>1. \/ \E k \in DOMAIN inputs : w \in WordsOf(inputs[k])
                  \/ \E k \in (i + 1)..Len(paragraphs) : w \in WordsOf(paragraphs[k])
              BY <2>1, <4>3, <5>2, UnreadWaits
            <6>2. w \in waiting \/ w \in later
              BY <6>1
            <6> HIDE DEF drafted, waiting, later, building
            <6> QED
              BY <6>2
          <5> QED
            BY <5>1, <5>2
        <4>6. building \subseteq WordRunes(text)
          BY <4>4 DEF Words
        <4>7. later \subseteq WordRunes(text)
          <5> SUFFICES ASSUME NEW k \in (i + 1)..Len(paragraphs)
                       PROVE  WordsOf(paragraphs[k]) \subseteq WordRunes(text)
            OBVIOUS
          <5>1. k \in 1..Len(paragraphs)
            BY <4>3 DEF AreParagraphs
          <5>2. PICK a, b \in Nat : ParagraphOf(text, paragraphs[k], a, b)
            BY <4>3, <5>1 DEF AreParagraphs
          <5>3. a \in 1..b /\ b \in 1..Len(text) /\ paragraphs[k] = FromTo(a, b)
            BY <2>1, <5>2, ParagraphEnds DEF ParagraphOf, WordRunes
          <5>4. paragraphs[k] \in Seq(Runes(text))
            BY <2>1, <5>3, StretchWords
          <5> QED
            BY <2>1, <5>4, OnlyWords
        <4>8. waiting \subseteq WordRunes(text)
          <5> SUFFICES ASSUME NEW k \in DOMAIN inputs
                       PROVE  WordsOf(inputs[k]) \subseteq WordRunes(text)
            OBVIOUS
          <5>1. inputs # <<>>
            OBVIOUS
          <5>2. PICK a, b \in Nat :
                  /\ ParagraphOf(text, paragraphs[i], a, b) /\ u \in a..b
                  /\ \/ inputs = <<FromTo(u, b)>>
                     \/ inputs = << <<Glue, Glue>>, FromTo(u, b) >>
            BY <4>3, <5>1 DEF Waiting
          <5>3. a \in 1..b /\ b \in WordRunes(text)
            BY <2>1, <5>2, ParagraphEnds DEF ParagraphOf
          <5>4. u \in 1..b /\ b \in 1..Len(text)
            BY <2>1, <5>2, <5>3 DEF WordRunes
          <5>5. FromTo(u, b) \in Seq(Runes(text))
            BY <2>1, <5>4, StretchWords
          <5>6. <<Glue, Glue>> \in Seq(Runes(text))
            BY <2>1 DEF Glue, Runes
          <5>7. inputs[k] \in Seq(Runes(text))
            <6> DEFINE rest == FromTo(u, b)
            <6> HIDE DEF rest
            <6>1. \/ inputs = <<rest>>
                  \/ inputs = << <<Glue, Glue>>, rest >>
              BY <5>2 DEF rest
            <6>2. rest \in Seq(Runes(text))
              BY <5>5 DEF rest
            <6>3. inputs[k] = rest \/ inputs[k] = <<Glue, Glue>>
              BY <6>1
            <6> QED
              BY <5>6, <6>2, <6>3
          <5> QED
            BY <2>1, <5>7, OnlyWords
        <4> HIDE DEF drafted, waiting, later, building
        <4> QED
          BY <2>2, <4>5, <4>6, <4>7, <4>8
      <3> QED
        BY <3>1, <3>2
    <2> QED
      <3>1. UNION (IF pc = "splitting" /\ hasNewContent THEN {WordsOf(current)} ELSE {}) = building
        OBVIOUS
      <3> QED
        BY <2>3, <3>1
  <1> QED
    BY <1>1, SplitStaysOK, PTL

=============================================================================
