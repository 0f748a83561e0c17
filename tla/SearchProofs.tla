----------------------------- MODULE SearchProofs -----------------------------
(***************************************************************************)
(* Proofs about Search, for any configurations, requests, queries and rows *)
(* and any number of commits of other calls beside a search: what New      *)
(* accepts is enough for every request that relies on it, and the hits of  *)
(* a search are current, in order and complete.                            *)
(***************************************************************************)
EXTENDS Search, TLAPS, FiniteSetTheorems

\* The Config of an open Store has positive limits in their order.
ConfigSound ==
  pc \notin {"off", "closed"} =>
    /\ cfg.searchLimit \in Int /\ cfg.candidateLimit \in Int
    /\ 0 < cfg.searchLimit /\ cfg.searchLimit <= cfg.candidateLimit
    /\ cfg.rrf \in Nat \ {0}

\* A request is refused for what was asked and what the Config adds to it.
RefusedRight ==
  pc = "refused" =>
    /\ ~ValidSearchRequest(request)
    /\ began.limit \in Int /\ began.candidateLimit \in Int
    /\ request.limit = OrDefault(began.limit, cfg.searchLimit)
    /\ request.candidateLimit = OrDefault(began.candidateLimit, cfg.candidateLimit)

DefaultsInv == ConfigSound /\ RefusedRight

\* Steps of a search that is not refused, and of other calls
LEMMA OthersKeep ==
  ASSUME DefaultsInv, UNCHANGED cfg,
         \/ pc # "off" /\ pc # "closed" /\ pc' # "refused"
         \/ UNCHANGED <<pc, request, began>>
  PROVE  DefaultsInv'
<1>1. ConfigSound'
  BY DEF DefaultsInv, ConfigSound
<1>2. RefusedRight'
  BY DEF DefaultsInv, RefusedRight, ValidSearchRequest
<1> QED  BY <1>1, <1>2 DEF DefaultsInv

\* New keeps the invariant.
LEMMA NewKeeps ==
  ASSUME DefaultsInv, New
  PROVE  DefaultsInv'
<1>1. PICK raw \in RawConfigs :
        /\ cfg' = Normalized(raw)
        /\ pc' = IF Valid(Normalized(raw)) THEN "idle" ELSE "closed"
  BY DEF New
<1>2. /\ Normalized(raw).searchLimit = OrDefault(raw.searchLimit, DefaultSearchLimit)
      /\ Normalized(raw).candidateLimit = OrDefault(raw.candidateLimit, DefaultCandidateLimit)
      /\ Normalized(raw).rrf = OrDefault(raw.rrf, DefaultRRFConstant)
      /\ raw.searchLimit \in Int /\ raw.candidateLimit \in Int /\ raw.rrf \in Int
  BY SearchAssumption DEF SearchAssumption, Normalized
<1>3. ConfigSound'
  BY <1>1, <1>2, SearchAssumption DEF SearchAssumption, ConfigSound, OrDefault, Valid
<1> QED
  BY <1>1, <1>3 DEF DefaultsInv, RefusedRight

\* SearchDetailed keeps the invariant.
LEMMA SearchDetailedKeeps ==
  ASSUME DefaultsInv, NEW asked \in Requests, SearchDetailed(asked)
  PROVE  DefaultsInv'
<1> DEFINE req == NormalizeSearchRequest(asked)
<1>1. /\ pc = "idle" /\ UNCHANGED cfg /\ request' = req
      /\ began'.limit = asked.limit /\ began'.candidateLimit = asked.candidateLimit
      /\ pc' = IF ValidSearchRequest(req) THEN FirstStep(req) ELSE "refused"
  BY DEF SearchDetailed
<1>2. /\ req.limit = OrDefault(asked.limit, cfg.searchLimit)
      /\ req.candidateLimit = OrDefault(asked.candidateLimit, cfg.candidateLimit)
      /\ asked.limit \in Int /\ asked.candidateLimit \in Int
  BY SearchAssumption DEF SearchAssumption, NormalizeSearchRequest
<1> HIDE DEF req
<1>3. ConfigSound'
  BY <1>1 DEF DefaultsInv, ConfigSound
<1>4. RefusedRight'
  BY <1>1, <1>2 DEF RefusedRight, ValidSearchRequest, FirstStep
<1> QED
  BY <1>3, <1>4 DEF DefaultsInv

\* The invariant about the limits holds in every state.
LEMMA DefaultsInvariant == Spec => []DefaultsInv
<1>1. Init => DefaultsInv
  BY DEF Init, DefaultsInv, ConfigSound, RefusedRight
<1>2. DefaultsInv /\ [Next]_vars => DefaultsInv'
  <2> SUFFICES ASSUME DefaultsInv, [Next]_vars PROVE DefaultsInv'
    OBVIOUS
  <2>1. ASSUME NEW req \in Requests, SearchDetailed(req)  PROVE DefaultsInv'
    BY <2>1, SearchDetailedKeeps
  <2>2. CASE SearchKeyword \/ SearchQueryVector \/ SearchVector \/ SearchFails \/ Fuse
    BY <2>2, OthersKeep
    DEF SearchKeyword, SearchQueryVector, SearchVector, SearchFails, Fuse
  <2>3. CASE Return
    BY <2>3, OthersKeep DEF Return
  <2>4. ASSUME NEW asked \in Collections \cup {Blank}, CollectionStats(asked)
        PROVE  DefaultsInv'
    BY <2>4, OthersKeep DEF CollectionStats
  <2>5. ASSUME NEW d \in Documents, NEW newRows, NEW ids, Write(d, newRows, ids)
        PROVE  DefaultsInv'
    BY <2>5, OthersKeep DEF Write
  <2>6. CASE UNCHANGED vars
    BY <2>6, OthersKeep DEF vars
  <2>7. CASE Terminated
    BY <2>6, <2>7 DEF Terminated
  <2> QED
    BY <2>1, <2>2, <2>3, <2>4, <2>5, <2>6, <2>7, NewKeeps
    DEF Next, ReplaceDocumentChunks, RefreshDocumentMetadata, DeleteDocument
<1> QED
  BY <1>1, <1>2, PTL DEF Spec

\* A Store whose Config was accepted refuses no request that leaves both
\* limits to it (config.go, validate; store.go, validateSearchRequest).
THEOREM DefaultsServe == Spec => []DefaultsAccepted
<1>1. DefaultsInv => DefaultsAccepted
  BY DEF DefaultsInv, ConfigSound, RefusedRight, DefaultsAccepted, OrDefault,
         ValidSearchRequest
<1> QED  BY <1>1, DefaultsInvariant, PTL

-----------------------------------------------------------------------------
(***************************************************************************)
(* The invariant of a search beside other calls.                           *)
(***************************************************************************)

\* Rows have ids and chunks of their own; a commit is counted where it was made.
StoreOK ==
  /\ rows \subseteq Rows /\ IsFiniteSet(rows)
  /\ nextID \in Nat
  /\ \A row \in rows : row.id < nextID
  /\ \A x, y \in rows : x.id = y.id \/ ChunkOf(x) = ChunkOf(y) => x = y
  /\ writes \in Nat
  /\ lastWrite \in [Documents -> Nat]
  /\ \A d \in Documents : lastWrite[d] <= writes

\* The request of a search that was accepted
Searching == {"keyword", "embed", "vector", "fuse", "done"}

RequestOK ==
  pc \in Searching =>
    /\ request.query \in Queries
    /\ request.mode \in Modes
    /\ request.limit \in Nat \ {0}
    /\ request.candidateLimit \in Nat
    /\ request.limit <= request.candidateLimit
    /\ began.writes \in Nat
    /\ began.writes <= writes
    /\ pc = "keyword" => request.mode # "vector"
    /\ pc \in {"embed", "vector"} => request.mode # "keyword"

\* A list of hits is what it was when it was read, as far as nobody has written
\* since: wanted rows, each once, and before each of them all those that score
\* better; if not `all', of those that the list has.
Better(score, x, y) == Ahead(score[x.text], x, score[y.text], y)

ListOK(list, score, all) ==
  /\ list \in Seq(Rows)
  /\ \A i \in 1 .. Len(list) :
       /\ Wanted(list[i])
       /\ list[i].id < nextID
       /\ Untouched(list[i]) => list[i] \in rows
  /\ \A i, j \in 1 .. Len(list) :
       list[i].id = list[j].id \/ ChunkOf(list[i]) = ChunkOf(list[j]) => i = j
  /\ \A row \in rows, i \in 1 .. Len(list) :
       /\ Wanted(row) /\ Untouched(row)
       /\ Better(score, row, list[i])
       /\ all \/ \E j \in 1 .. Len(list) : list[j].id = row.id
       => \E j \in 1 .. i - 1 : list[j] = row

\* A row read later is of another chunk, or the same row, or a newer one of a
\* document that was written meanwhile.
SameOrNewer(x, y) ==
  /\ x.id = y.id => ChunkOf(x) = ChunkOf(y)
  /\ ChunkOf(x) = ChunkOf(y) /\ x.id # y.id => x.id < y.id /\ ~Untouched(x)

KeywordsOK ==
  /\ pc \in {"off", "closed", "idle", "refused", "keyword"} => keywordHits = <<>>
  /\ pc \in Searching /\ request.mode = "vector" => keywordHits = <<>>
  /\ pc \in Searching =>
       /\ ListOK(keywordHits, request.query.relevance, TRUE)
       /\ \A i \in 1 .. Len(keywordHits) : Relevance(keywordHits[i]) > 0
       /\ \A i \in 1 .. Len(keywordHits), row \in rows : SameOrNewer(keywordHits[i], row)

VectorsOK ==
  /\ pc \in {"off", "closed", "idle", "refused", "keyword", "embed", "vector"} =>
       vectorHits = <<>> /\ exact = FALSE
  /\ pc \in Searching /\ request.mode = "keyword" => vectorHits = <<>> /\ exact = FALSE
  /\ pc \in Searching =>
       /\ ListOK(vectorHits, request.query.similarity, exact)
       /\ \A i \in 1 .. Len(keywordHits), j \in 1 .. Len(vectorHits) :
            SameOrNewer(keywordHits[i], vectorHits[j])
  /\ pc \in Searching /\ exact /\ request.filter = Blank /\ began.writes = writes =>
       Len(vectorHits) = IF Cardinality(ChunksIn(request.collection)) <= request.candidateLimit
                           THEN Cardinality(ChunksIn(request.collection))
                           ELSE request.candidateLimit

\* Until the next commit, the statistics are those of the rows that are there.
StatsOK ==
  stats # Nothing =>
    /\ stats.at \in Nat /\ stats.at <= writes
    /\ pc \in Searching => stats.at <= began.writes
    /\ stats.at = writes =>
         /\ stats.chunkCount = Cardinality(ChunksIn(stats.collection))
         /\ stats.documentCount =
              Cardinality({row.document : row \in ChunksIn(stats.collection)})

\* The hits are the best of the merged ones, best first.
FusedOK ==
  pc = "done" =>
    /\ hits \in Seq(Merged)
    /\ Len(hits) = IF Cardinality(Merged) <= request.limit THEN Cardinality(Merged)
                   ELSE request.limit
    /\ \A i, j \in 1 .. Len(hits) : hits[i] = hits[j] => i = j
    /\ \A x \in Merged, i \in 1 .. Len(hits) :
         Exceeds(x.score, hits[i].score) => \E j \in 1 .. i - 1 : hits[j] = x

SearchInv == StoreOK /\ RequestOK /\ KeywordsOK /\ VectorsOK /\ StatsOK /\ FusedOK

-----------------------------------------------------------------------------
(***************************************************************************)
(* Ordered lists.                                                          *)
(***************************************************************************)

\* before[x] is what precedes x in a total order of S.
Ordering(S, before) ==
  /\ before \in [S -> SUBSET S]
  /\ \A x \in S : x \notin before[x]
  /\ \A x, y \in S : x \in before[y] => before[x] \subseteq before[y]
  /\ \A x, y \in S : x = y \/ x \in before[y] \/ y \in before[x]

\* What is counted before an element grows along the order.
LEMMA CountsGrow ==
  ASSUME NEW S, IsFiniteSet(S), NEW before, Ordering(S, before), NEW x \in S, NEW y \in S
  PROVE  /\ IsFiniteSet(before[x]) /\ Cardinality(before[x]) \in Nat
         /\ Cardinality(before[x]) < Cardinality(S)
         /\ x \in before[y] => Cardinality(before[x]) < Cardinality(before[y])
  <1>1. /\ before[x] \subseteq S /\ before[y] \subseteq S
        /\ x \notin before[x]
        /\ x \in before[y] => before[x] \subseteq before[y]
    BY DEF Ordering
  <1>2. IsFiniteSet(before[x]) /\ IsFiniteSet(before[y])
    BY <1>1, FS_Subset
  <1>3. /\ Cardinality(before[x]) \in Nat /\ Cardinality(before[y]) \in Nat
        /\ Cardinality(S) \in Nat
    BY <1>2, FS_CardinalityType
  <1>4. Cardinality(before[x]) < Cardinality(S)
    <2>1. Cardinality(before[x]) <= Cardinality(S)
      BY <1>1, FS_Subset
    <2>2. Cardinality(before[x]) # Cardinality(S)
      BY <1>1, FS_Subset
    <2>3. QED  BY <1>3, <2>1, <2>2
  <1>5. ASSUME x \in before[y] PROVE Cardinality(before[x]) < Cardinality(before[y])
    <2>1. before[x] \in SUBSET before[y] /\ before[x] # before[y]
      BY <1>1, <1>5
    <2>2. Cardinality(before[x]) <= Cardinality(before[y])
      BY <1>2, <2>1, FS_Subset
    <2>3. Cardinality(before[x]) # Cardinality(before[y])
      BY <1>2, <2>1, FS_Subset
    <2>4. QED  BY <1>3, <2>2, <2>3
  <1>6. QED  BY <1>2, <1>3, <1>4, <1>5

\* Every place of a finite total order is taken.
LEMMA PlacesTaken ==
  ASSUME NEW S, IsFiniteSet(S), NEW before, Ordering(S, before),
         NEW i \in 1 .. Cardinality(S)
  PROVE  \E x \in S : Cardinality(before[x]) = i - 1
  <1> DEFINE n == Cardinality(S)
             f == [x \in S |-> Cardinality(before[x]) + 1]
  <1>1. n \in Nat
    BY FS_CardinalityType
  <1>2. \A x \in S : f[x] \in 1 .. n
    BY <1>1, CountsGrow
  <1>3. \A x, y \in S : f[x] = f[y] => x = y
    <2> SUFFICES ASSUME NEW x \in S, NEW y \in S, f[x] = f[y], x # y PROVE FALSE
      OBVIOUS
    <2>1. /\ Cardinality(before[x]) \in Nat /\ Cardinality(before[y]) \in Nat
          /\ x \in before[y] => Cardinality(before[x]) < Cardinality(before[y])
          /\ y \in before[x] => Cardinality(before[y]) < Cardinality(before[x])
      BY CountsGrow
    <2>2. x \in before[y] \/ y \in before[x]
      BY DEF Ordering
    <2>3. QED  BY <2>1, <2>2
  <1>4. IsFiniteSet(1 .. n) /\ Cardinality(1 .. n) = n
    BY <1>1, FS_Interval
  <1>5. f \in Injection(S, 1 .. n)
    <2>1. f \in [S -> 1 .. n]
      BY <1>2
    <2> HIDE DEF f
    <2>2. QED  BY <1>3, <2>1 DEF Injection, IsInjective
  <1>6. f \in Surjection(S, 1 .. n)
    BY <1>4, <1>5, FS_Injection
  <1>7. PICK x \in S : f[x] = i
    <2> HIDE DEF f
    <2>1. QED  BY <1>6 DEF Surjection
  <1>8. Cardinality(before[x]) = i - 1
    BY <1>7, CountsGrow
  <1>9. QED  BY <1>8

\* The list has at each place the element before which so many are.
InPlaces(S, before, list) ==
  /\ list = [i \in 1 .. Cardinality(S) |-> list[i]]
  /\ \A i \in 1 .. Cardinality(S) :
       list[i] \in S /\ Cardinality(before[list[i]]) = i - 1

\* A list of all elements in the order
Listing(S, before, list) ==
  /\ list \in Seq(S) /\ Len(list) = Cardinality(S)
  /\ \A x \in S : \E i \in 1 .. Len(list) : list[i] = x
  /\ \A i, j \in 1 .. Len(list) : list[i] \in before[list[j]] <=> i < j

\* The first is one of the second kind.
LEMMA Sorted ==
  ASSUME NEW S, IsFiniteSet(S), NEW before, Ordering(S, before),
         NEW list, InPlaces(S, before, list)
  PROVE  Listing(S, before, list)
  <1> DEFINE n == Cardinality(S)
  <1>1. n \in Nat
    BY FS_CardinalityType
  <1>2. list \in [1 .. n -> S]
    BY DEF InPlaces
  <1>3. list \in Seq(S) /\ Len(list) = n
    BY <1>1, <1>2
  <1>4. ASSUME NEW x \in S, NEW y \in S, Cardinality(before[x]) = Cardinality(before[y])
        PROVE  x = y
    <2>1. /\ Cardinality(before[x]) \in Nat
          /\ x \in before[y] => Cardinality(before[x]) < Cardinality(before[y])
          /\ y \in before[x] => Cardinality(before[y]) < Cardinality(before[x])
      BY CountsGrow
    <2>2. QED  BY <1>4, <2>1 DEF Ordering
  <1>5. ASSUME NEW x \in S PROVE \E i \in 1 .. n : list[i] = x
    <2>1. Cardinality(before[x]) \in Nat /\ Cardinality(before[x]) < n
      BY CountsGrow
    <2>2. Cardinality(before[x]) + 1 \in 1 .. n
      BY <1>1, <2>1
    <2>3. /\ list[Cardinality(before[x]) + 1] \in S
          /\ Cardinality(before[list[Cardinality(before[x]) + 1]]) = Cardinality(before[x])
      BY <2>1, <2>2 DEF InPlaces
    <2>4. QED  BY <1>4, <2>2, <2>3
  <1>6. ASSUME NEW i \in 1 .. n, NEW j \in 1 .. n
        PROVE  list[i] \in before[list[j]] <=> i < j
    <2>1. /\ list[i] \in S /\ Cardinality(before[list[i]]) = i - 1
          /\ list[j] \in S /\ Cardinality(before[list[j]]) = j - 1
      BY DEF InPlaces
    <2>2. list[i] \in before[list[j]] =>
            Cardinality(before[list[i]]) < Cardinality(before[list[j]])
      BY <2>1, CountsGrow
    <2>3. list[j] \in before[list[i]] =>
            Cardinality(before[list[j]]) < Cardinality(before[list[i]])
      BY <2>1, CountsGrow
    <2>4. list[i] = list[j] \/ list[i] \in before[list[j]] \/ list[j] \in before[list[i]]
      BY <2>1 DEF Ordering
    <2>5. list[i] = list[j] => i = j
      BY <2>1
    <2>6. QED  BY <2>1, <2>2, <2>3, <2>4, <2>5
  <1>7. QED  BY <1>3, <1>5, <1>6 DEF Listing

\* LIMIT takes the first n.
LEMMA FirstOnes ==
  ASSUME NEW S, NEW list \in Seq(S), NEW n \in Nat
  PROVE  /\ AtMost(n, list) \in Seq(S)
         /\ Len(AtMost(n, list)) = IF Len(list) <= n THEN Len(list) ELSE n
         /\ \A i \in 1 .. Len(AtMost(n, list)) : AtMost(n, list)[i] = list[i]
  BY DEF AtMost

\* The order of the statements, by score and then by id, and what it puts at a place
BetterOnes(score, S) == [x \in S |-> {y \in S : Better(score, y, x)}]

Place(score, S, i) == CHOOSE x \in S : Cardinality({y \in S : Better(score, y, x)}) = i - 1

\* That order is total.
LEMMA ScoreOrder ==
  ASSUME NEW S \in SUBSET Rows, \A x, y \in S : x.id = y.id => x = y,
         NEW score \in [Texts -> Nat]
  PROVE  Ordering(S, BetterOnes(score, S))
  <1>1. ASSUME NEW x \in S
        PROVE  score[x.text] \in Nat /\ x.id \in Nat
    BY DEF Rows
  <1>2. \A x \in S : ~Better(score, x, x)
    BY <1>1 DEF Better, Ahead
  <1>3. \A x, y, z \in S :
          Better(score, x, y) /\ Better(score, y, z) => Better(score, x, z)
    BY <1>1 DEF Better, Ahead
  <1>4. \A x, y \in S : x = y \/ Better(score, x, y) \/ Better(score, y, x)
    BY <1>1 DEF Better, Ahead
  <1>5. QED  BY <1>2, <1>3, <1>4 DEF Ordering, BetterOnes

\* What a statement returns before its LIMIT
Whole(score, S) == [i \in 1 .. Cardinality(S) |-> Place(score, S, i)]

Ranked(score, S, list) ==
  /\ list \in Seq(S) /\ Len(list) = Cardinality(S)
  /\ \A x \in S : \E i \in 1 .. Len(list) : list[i] = x
  /\ \A i, j \in 1 .. Len(list) : i < j => Better(score, list[i], list[j])
  /\ \A i, j \in 1 .. Len(list) : Better(score, list[i], list[j]) => i < j

\* ORDER BY lists every row, better ones first.
LEMMA ScoreSorted ==
  ASSUME NEW S \in SUBSET Rows, IsFiniteSet(S), \A x, y \in S : x.id = y.id => x = y,
         NEW score \in [Texts -> Nat]
  PROVE  Ranked(score, S, Whole(score, S))
  <1> DEFINE before == BetterOnes(score, S)
             list == Whole(score, S)
  <1>1. Ordering(S, before)
    BY ScoreOrder
  <1>2. \A x \in S : before[x] = {y \in S : Better(score, y, x)}
    BY DEF BetterOnes
  <1>3. ASSUME NEW i \in 1 .. Cardinality(S)
        PROVE  list[i] \in S /\ Cardinality(before[list[i]]) = i - 1
    <2>1. PICK x \in S : Cardinality(before[x]) = i - 1
      <3> HIDE DEF before
      <3>1. QED  BY <1>1, PlacesTaken
    <2>2. Cardinality({y \in S : Better(score, y, x)}) = i - 1
      BY <1>2, <2>1
    <2>3. /\ Place(score, S, i) \in S
          /\ Cardinality({y \in S : Better(score, y, Place(score, S, i))}) = i - 1
      BY <2>2, Zenon DEF Place
    <2>4. list[i] = Place(score, S, i)
      BY DEF Whole
    <2> HIDE DEF before, list
    <2>5. QED  BY <1>2, <2>3, <2>4
  <1>4. InPlaces(S, before, list)
    <2>1. list = [i \in 1 .. Cardinality(S) |-> list[i]]
      BY DEF Whole
    <2> HIDE DEF before, list
    <2>2. QED  BY <1>3, <2>1 DEF InPlaces
  <1> HIDE DEF before, list
  <1>a. Listing(S, before, list)
    BY <1>1, <1>4, Sorted
  <1>5. /\ list \in Seq(S) /\ Len(list) = Cardinality(S)
        /\ \A x \in S : \E i \in 1 .. Len(list) : list[i] = x
        /\ \A i, j \in 1 .. Len(list) : list[i] \in before[list[j]] <=> i < j
    BY <1>a DEF Listing
  <1>6. ASSUME NEW i \in 1 .. Len(list), NEW j \in 1 .. Len(list)
        PROVE  /\ i < j => Better(score, list[i], list[j])
               /\ Better(score, list[i], list[j]) => i < j
    <2>1. list[i] \in S /\ list[j] \in S
      BY <1>3, <1>5
    <2>2. /\ list[i] \in before[list[j]] => Better(score, list[i], list[j])
          /\ Better(score, list[i], list[j]) => list[i] \in before[list[j]]
      BY <1>2, <2>1
    <2>3. QED  BY <1>5, <2>2
  <1>7. Ranked(score, S, list)
    BY <1>5, <1>6 DEF Ranked
  <1>8. QED  BY <1>7 DEF list

\* What a statement returns of the rows S
Listed(S, score, n, list) ==
  /\ list \in Seq(S)
  /\ Len(list) = IF Cardinality(S) <= n THEN Cardinality(S) ELSE n
  /\ \A i, j \in 1 .. Len(list) :
       list[i].id = list[j].id \/ ChunkOf(list[i]) = ChunkOf(list[j]) => i = j
  /\ \A x \in S, i \in 1 .. Len(list) :
       Better(score, x, list[i]) => \E j \in 1 .. i - 1 : list[j] = x

\* ORDER BY and LIMIT return the best of them.
LEMMA StatementLists ==
  ASSUME StoreOK, NEW S \in SUBSET rows, NEW score \in [Texts -> Nat], NEW n \in Nat
  PROVE  Listed(S, score, n, AtMost(n, Whole(score, S)))
  <1> DEFINE whole == Whole(score, S)
             list == AtMost(n, whole)
  <1>1. /\ S \in SUBSET Rows
        /\ \A x, y \in S : x.id = y.id \/ ChunkOf(x) = ChunkOf(y) => x = y
    BY DEF StoreOK
  <1>2. IsFiniteSet(S)
    BY FS_Subset DEF StoreOK
  <1>3. Cardinality(S) \in Nat
    BY <1>2, FS_CardinalityType
  <1>4. /\ whole \in Seq(S) /\ Len(whole) = Cardinality(S)
        /\ \A x \in S : \E i \in 1 .. Len(whole) : whole[i] = x
        /\ \A i, j \in 1 .. Len(whole) : i < j => Better(score, whole[i], whole[j])
        /\ \A i, j \in 1 .. Len(whole) : Better(score, whole[i], whole[j]) => i < j
    BY <1>1, <1>2, ScoreSorted DEF Ranked
  <1> HIDE DEF whole
  <1>5. /\ list \in Seq(S)
        /\ Len(list) = IF Len(whole) <= n THEN Len(whole) ELSE n
        /\ \A i \in 1 .. Len(list) : list[i] = whole[i]
    BY <1>4, FirstOnes
  <1>6. Len(list) \in Nat /\ Len(list) <= Len(whole)
    BY <1>3, <1>4, <1>5
  <1> HIDE DEF list
  <1>7. ASSUME NEW i \in 1 .. Len(list), NEW j \in 1 .. Len(list),
               list[i].id = list[j].id \/ ChunkOf(list[i]) = ChunkOf(list[j])
        PROVE  i = j
    <2>1. /\ i \in 1 .. Len(whole) /\ j \in 1 .. Len(whole)
          /\ list[i] = whole[i] /\ list[j] = whole[j]
          /\ list[i] \in S /\ list[j] \in S
      BY <1>3, <1>4, <1>5, <1>6
    <2>2. whole[i] = whole[j]
      BY <1>1, <1>7, <2>1
    <2>3. ~(i < j) /\ ~(j < i)
      BY <1>4, <2>1, <2>2
    <2>4. QED  BY <2>3
  <1>8. ASSUME NEW x \in S, NEW i \in 1 .. Len(list), Better(score, x, list[i])
        PROVE  \E j \in 1 .. i - 1 : list[j] = x
    <2>1. i \in 1 .. Len(whole)
      BY <1>3, <1>4, <1>6
    <2>a. list[i] = whole[i]
      BY <1>5
    <2>2. PICK j \in 1 .. Len(whole) : whole[j] = x
      BY <1>4
    <2>3. j < i
      BY <1>4, <1>8, <2>1, <2>2, <2>a
    <2>4. j \in 1 .. i - 1 /\ j \in 1 .. Len(list)
      BY <1>6, <2>3
    <2>5. QED  BY <1>5, <2>2, <2>4
  <1>9. Listed(S, score, n, list)
    BY <1>3, <1>4, <1>5, <1>7, <1>8 DEF Listed
  <1>10. QED  BY <1>9 DEF list, whole

-----------------------------------------------------------------------------
(***************************************************************************)
(* Commits of other calls.                                                 *)
(***************************************************************************)

\* The rows of a commit have new ids, or those of the same chunks before.
CommitOK(d, newRows, ids) ==
  /\ d \in Documents /\ ids \in Nat
  /\ newRows \subseteq Rows /\ IsFiniteSet(newRows)
  /\ \A row \in newRows : row.document = d /\ row.id < nextID + ids
  /\ \A x, y \in newRows : x.id = y.id \/ ChunkOf(x) = ChunkOf(y) => x = y
  /\ \A row \in newRows :
       \/ row.id >= nextID
       \/ \E old \in rows : old.id = row.id /\ ChunkOf(old) = ChunkOf(row)

\* A rewrite inserts rows with new ids.
LEMMA ReplaceCommits ==
  ASSUME StoreOK, NEW d \in Documents, NEW content \in Contents, NEW meta \in Metas
  PROVE  CommitOK(d, RowsFor(d, content, meta, nextID), Len(content))
  <1> DEFINE new == RowsFor(d, content, meta, nextID)
             row(n) == [id |-> nextID + n - 1, document |-> d, number |-> n,
                        text |-> content[n], meta |-> meta]
             f == [n \in 1 .. Len(content) |-> row(n)]
  <1>1. /\ content \in Seq(Texts) /\ Len(content) \in Nat
        /\ \A n \in 1 .. Len(content) : content[n] \in Texts
    BY SearchAssumption DEF SearchAssumption
  <1>2. nextID \in Nat
    BY DEF StoreOK
  <1>3. \A n \in 1 .. Len(content) : row(n) \in Rows
    BY <1>1, <1>2 DEF Rows
  <1>4. /\ \A x \in new : \E n \in 1 .. Len(content) : x = row(n)
        /\ \A n \in 1 .. Len(content) : row(n) \in new
    BY DEF RowsFor
  <1>5. new \subseteq Rows
    BY <1>3, <1>4
  <1>6. IsFiniteSet(new)
    <2>1. IsFiniteSet(1 .. Len(content))
      BY <1>1, FS_Interval
    <2>2. f \in Surjection(1 .. Len(content), new)
      <3>1. f \in [1 .. Len(content) -> new]
        BY <1>4
      <3>2. \A x \in new : \E n \in 1 .. Len(content) : f[n] = x
        BY <1>4
      <3> HIDE DEF f, new
      <3>3. QED  BY <3>1, <3>2 DEF Surjection
    <2> HIDE DEF f, new
    <2>3. QED  BY <2>1, <2>2, FS_Surjection
  <1>7. \A x \in new : x.document = d /\ x.id < nextID + Len(content) /\ x.id >= nextID
    BY <1>1, <1>2, <1>4
  <1>8. ASSUME NEW x \in new, NEW y \in new, x.id = y.id \/ ChunkOf(x) = ChunkOf(y)
        PROVE  x = y
    <2>1. PICK n \in 1 .. Len(content) : x = row(n)
      BY <1>4
    <2>2. PICK m \in 1 .. Len(content) : y = row(m)
      BY <1>4
    <2>3. n = m
      BY <1>1, <1>2, <1>8, <2>1, <2>2 DEF ChunkOf
    <2>4. QED  BY <2>1, <2>2, <2>3
  <1> HIDE DEF new
  <1>9. CommitOK(d, new, Len(content))
    BY <1>1, <1>5, <1>6, <1>7, <1>8 DEF CommitOK
  <1>10. QED  BY <1>9 DEF new

\* A refresh changes the metadata of rows that are there.
LEMMA RefreshCommits ==
  ASSUME StoreOK, NEW d \in Documents, NEW meta \in Metas
  PROVE  CommitOK(d, {[row EXCEPT !.meta = meta] : row \in rows \ RowsWithout(d)}, 0)
  <1> DEFINE old == rows \ RowsWithout(d)
             new == {[row EXCEPT !.meta = meta] : row \in old}
             f == [row \in old |-> [row EXCEPT !.meta = meta]]
  <1>1. old \subseteq rows /\ \A row \in old : row.document = d
    BY DEF RowsWithout
  <1>2. /\ rows \subseteq Rows /\ IsFiniteSet(rows) /\ nextID \in Nat
        /\ \A row \in rows : row.id < nextID
        /\ \A x, y \in rows : x.id = y.id \/ ChunkOf(x) = ChunkOf(y) => x = y
    BY DEF StoreOK
  <1>3. ASSUME NEW x \in new
        PROVE  /\ x \in Rows
               /\ \E row \in old : /\ x = [row EXCEPT !.meta = meta]
                                   /\ x.id = row.id /\ ChunkOf(x) = ChunkOf(row)
                                   /\ x.document = d
    <2>1. PICK row \in old : x = [row EXCEPT !.meta = meta]
      OBVIOUS
    <2>2. row \in Rows /\ row.document = d
      BY <1>1, <1>2
    <2>3. /\ x \in Rows /\ x.id = row.id /\ x.document = row.document
          /\ x.number = row.number
      BY <2>1, <2>2 DEF Rows
    <2>4. QED  BY <2>1, <2>2, <2>3 DEF ChunkOf
  <1>4. IsFiniteSet(new)
    <2>1. IsFiniteSet(old)
      BY <1>1, <1>2, FS_Subset
    <2>2. f \in Surjection(old, new)
      <3>1. f \in [old -> new] /\ \A x \in new : \E row \in old : f[row] = x
        OBVIOUS
      <3> HIDE DEF f, new, old
      <3>2. QED  BY <3>1 DEF Surjection
    <2> HIDE DEF f, new, old
    <2>3. QED  BY <2>1, <2>2, FS_Surjection
  <1>5. ASSUME NEW x \in new, NEW y \in new, x.id = y.id \/ ChunkOf(x) = ChunkOf(y)
        PROVE  x = y
    <2>1. PICK r \in old : /\ x = [r EXCEPT !.meta = meta]
                           /\ x.id = r.id /\ ChunkOf(x) = ChunkOf(r)
      BY <1>3
    <2>2. PICK q \in old : /\ y = [q EXCEPT !.meta = meta]
                           /\ y.id = q.id /\ ChunkOf(y) = ChunkOf(q)
      BY <1>3
    <2>3. r = q
      BY <1>1, <1>2, <1>5, <2>1, <2>2
    <2>4. QED  BY <2>1, <2>2, <2>3
  <1>6. \A x \in new : /\ x \in Rows /\ x.document = d
                      /\ \E row \in rows : row.id = x.id /\ ChunkOf(row) = ChunkOf(x)
    BY <1>1, <1>3
  <1> HIDE DEF new, old
  <1>7. \A x \in new : x.id < nextID + 0
    BY <1>2, <1>6 DEF Rows
  <1>8. CommitOK(d, new, 0)
    BY <1>4, <1>5, <1>6, <1>7 DEF CommitOK
  <1>9. QED  BY <1>8 DEF new, old

\* A delete inserts nothing.
LEMMA DeleteCommits ==
  ASSUME NEW d \in Documents
  PROVE  CommitOK(d, {}, 0)
  BY FS_EmptySet DEF CommitOK

\* A commit leaves rows with ids and chunks of their own.
LEMMA CommitKeepsStore ==
  ASSUME StoreOK, NEW d, NEW newRows, NEW ids, CommitOK(d, newRows, ids),
         Write(d, newRows, ids)
  PROVE  StoreOK'
  <1>1. /\ rows' = RowsWithout(d) \cup newRows /\ nextID' = nextID + ids
        /\ writes' = writes + 1 /\ lastWrite' = [lastWrite EXCEPT ![d] = writes + 1]
    BY DEF Write
  <1>2. RowsWithout(d) \subseteq rows /\ \A row \in RowsWithout(d) : row.document # d
    BY DEF RowsWithout
  <1>3. rows' \subseteq Rows /\ IsFiniteSet(rows')
    <2>1. IsFiniteSet(RowsWithout(d))
      BY <1>2, FS_Subset DEF StoreOK
    <2>2. QED  BY <1>1, <1>2, <2>1, FS_Union DEF StoreOK, CommitOK
  <1>4. nextID' \in Nat /\ \A row \in rows' : row.id < nextID'
    <2>1. nextID' \in Nat /\ nextID \in Nat /\ ids \in Nat
      BY <1>1 DEF StoreOK, CommitOK
    <2>2. ASSUME NEW row \in rows' PROVE row.id < nextID'
      <3>1. row.id \in Nat
        BY <1>3 DEF Rows
      <3>2. CASE row \in newRows
        BY <1>1, <3>2 DEF CommitOK
      <3>3. CASE row \in RowsWithout(d)
        BY <1>1, <1>2, <2>1, <3>1, <3>3 DEF StoreOK
      <3>4. QED  BY <1>1, <3>2, <3>3
    <2>3. QED  BY <2>1, <2>2
  <1>5. ASSUME NEW x \in rows', NEW y \in rows', x.id = y.id \/ ChunkOf(x) = ChunkOf(y)
        PROVE  x = y
    <2>1. ASSUME NEW r \in RowsWithout(d), NEW w \in newRows,
                 r.id = w.id \/ ChunkOf(r) = ChunkOf(w)
          PROVE  FALSE
      <3>1. /\ r \in rows /\ r.document # d /\ w.document = d /\ r.id < nextID
            /\ r.id \in Nat /\ w.id \in Nat /\ nextID \in Nat
        BY <1>2 DEF CommitOK, StoreOK, Rows
      <3>2. ChunkOf(r) # ChunkOf(w)
        BY <3>1 DEF ChunkOf
      <3>3. r.id = w.id
        BY <2>1, <3>2
      <3>4. PICK old \in rows : old.id = w.id /\ ChunkOf(old) = ChunkOf(w)
        BY <3>1, <3>3 DEF CommitOK
      <3>5. old = r
        BY <3>1, <3>3, <3>4 DEF StoreOK
      <3>6. QED  BY <3>2, <3>4, <3>5
    <2>2. CASE x \in RowsWithout(d) /\ y \in RowsWithout(d)
      BY <1>2, <1>5, <2>2 DEF StoreOK
    <2>3. CASE x \in newRows /\ y \in newRows
      BY <1>5, <2>3 DEF CommitOK
    <2>4. QED  BY <1>1, <1>5, <2>1, <2>2, <2>3
  <1>6. /\ writes' \in Nat /\ lastWrite' \in [Documents -> Nat]
        /\ \A e \in Documents : lastWrite'[e] <= writes'
    BY <1>1 DEF StoreOK, CommitOK
  <1>7. QED
    <2>1. \A x, y \in rows' : x.id = y.id \/ ChunkOf(x) = ChunkOf(y) => x = y
      BY <1>5
    <2>2. QED  BY <1>3, <1>4, <1>6, <2>1 DEF StoreOK, ChunkOf

\* What a commit of a document leaves as it was during a search
LEMMA CommitLeaves ==
  ASSUME StoreOK, RequestOK, pc \in Searching,
         NEW d, NEW newRows, NEW ids, CommitOK(d, newRows, ids), Write(d, newRows, ids)
  PROVE  /\ UNCHANGED <<pc, cfg, request, began, keywordHits, vectorHits, exact, hits, stats>>
         /\ writes' = writes + 1 /\ began.writes < writes'
         /\ nextID \in Nat /\ nextID' \in Nat /\ nextID <= nextID'
         /\ \A x \in Rows : Untouched(x)' => x.document # d /\ Untouched(x)
         /\ \A x \in Rows : x.document # d => (x \in rows <=> x \in rows')
         /\ \A x \in rows' : x \in Rows /\ (x.document = d => x \in newRows)
  <1>1. /\ UNCHANGED <<pc, cfg, request, began, keywordHits, vectorHits, exact, hits, stats>>
        /\ rows' = RowsWithout(d) \cup newRows /\ nextID' = nextID + ids
        /\ writes' = writes + 1 /\ lastWrite' = [lastWrite EXCEPT ![d] = writes + 1]
    BY DEF Write
  <1>2. /\ writes \in Nat /\ began.writes \in Nat /\ began.writes <= writes
        /\ nextID \in Nat /\ ids \in Nat
    BY DEF StoreOK, RequestOK, CommitOK
  <1>3. ASSUME NEW x \in Rows, Untouched(x)'
        PROVE  x.document # d /\ Untouched(x)
    <2>1. x.document \in Documents /\ lastWrite \in [Documents -> Nat]
      BY DEF Rows, StoreOK
    <2>2. lastWrite'[x.document] <= began.writes
      BY <1>1, <1>3 DEF Untouched
    <2>3. lastWrite'[d] = writes + 1
      BY <1>1 DEF CommitOK, StoreOK
    <2>4. x.document # d
      BY <1>2, <2>2, <2>3
    <2>5. lastWrite'[x.document] = lastWrite[x.document]
      BY <1>1, <2>1, <2>4
    <2>6. QED  BY <2>2, <2>4, <2>5 DEF Untouched
  <1>4. \A x \in Rows : x.document # d => (x \in rows <=> x \in rows')
    BY <1>1 DEF RowsWithout, CommitOK
  <1>5. \A x \in rows' : x \in Rows /\ (x.document = d => x \in newRows)
    BY <1>1 DEF RowsWithout, CommitOK, StoreOK
  <1>6. QED  BY <1>1, <1>2, <1>3, <1>4, <1>5

\* A list is as good after a step as ListOK says.
ListStays(list, score, all) ==
  /\ list \in Seq(Rows)
  /\ \A i \in 1 .. Len(list) :
       /\ Wanted(list[i])'
       /\ list[i].id < nextID'
       /\ Untouched(list[i])' => list[i] \in rows'
  /\ \A i, j \in 1 .. Len(list) :
       list[i].id = list[j].id \/ ChunkOf(list[i]) = ChunkOf(list[j]) => i = j
  /\ \A row \in rows', i \in 1 .. Len(list) :
       /\ Wanted(row)' /\ Untouched(row)'
       /\ Better(score, row, list[i])
       /\ all \/ \E j \in 1 .. Len(list) : list[j].id = row.id
       => \E j \in 1 .. i - 1 : list[j] = row

\* A list stays as good as it was.
LEMMA CommitKeepsList ==
  ASSUME StoreOK, RequestOK, pc \in Searching,
         NEW d, NEW newRows, NEW ids, CommitOK(d, newRows, ids), Write(d, newRows, ids),
         NEW list, NEW score, NEW all, ListOK(list, score, all)
  PROVE  ListStays(list, score, all)
  <1>1. /\ UNCHANGED request /\ nextID \in Nat /\ nextID' \in Nat /\ nextID <= nextID'
        /\ \A x \in Rows : Untouched(x)' => x.document # d /\ Untouched(x)
        /\ \A x \in Rows : x.document # d => (x \in rows <=> x \in rows')
        /\ \A x \in rows' : x \in Rows
    BY CommitLeaves
  <1>2. \A x \in Rows : Wanted(x)' <=> Wanted(x)
    BY <1>1 DEF Wanted
  <1>3. \A i \in 1 .. Len(list) : list[i] \in Rows
    BY DEF ListOK
  <1>4. ASSUME NEW i \in 1 .. Len(list)
        PROVE  /\ Wanted(list[i])'
               /\ list[i].id < nextID'
               /\ Untouched(list[i])' => list[i] \in rows'
    <2>1. list[i].id \in Nat
      BY <1>3 DEF Rows
    <2>2. Wanted(list[i]) /\ list[i].id < nextID /\ (Untouched(list[i]) => list[i] \in rows)
      BY DEF ListOK
    <2>3. QED  BY <1>1, <1>2, <1>3, <2>1, <2>2
  <1>5. ASSUME NEW row \in rows', NEW i \in 1 .. Len(list),
               Wanted(row)', Untouched(row)', Better(score, row, list[i]),
               all \/ \E j \in 1 .. Len(list) : list[j].id = row.id
        PROVE  \E j \in 1 .. i - 1 : list[j] = row
    <2>1. row \in rows /\ Wanted(row) /\ Untouched(row)
      BY <1>1, <1>2, <1>5
    <2>2. QED  BY <1>5, <2>1 DEF ListOK
  <1>6. list \in Seq(Rows) /\ \A i, j \in 1 .. Len(list) :
          list[i].id = list[j].id \/ ChunkOf(list[i]) = ChunkOf(list[j]) => i = j
    BY DEF ListOK
  <1>7. QED  BY <1>4, <1>5, <1>6 DEF ListStays

\* A row that was read stays another one, or the same, or an older one.
LEMMA CommitKeepsOlder ==
  ASSUME StoreOK, RequestOK, pc \in Searching,
         NEW d, NEW newRows, NEW ids, CommitOK(d, newRows, ids), Write(d, newRows, ids),
         NEW x \in Rows, x.id < nextID, \A row \in rows : SameOrNewer(x, row)
  PROVE  \A row \in rows' : SameOrNewer(x, row)'
  <1>1. /\ nextID \in Nat /\ UNCHANGED began
        /\ \A y \in Rows : Untouched(y)' => y.document # d /\ Untouched(y)
        /\ \A y \in Rows : y.document # d => (y \in rows <=> y \in rows')
        /\ \A y \in rows' : y \in Rows /\ (y.document = d => y \in newRows)
    BY CommitLeaves
  <1> SUFFICES ASSUME NEW row \in rows'
               PROVE  /\ x.id = row.id => ChunkOf(x) = ChunkOf(row)
                      /\ ChunkOf(x) = ChunkOf(row) /\ x.id # row.id =>
                           x.id < row.id /\ ~Untouched(x)'
    BY DEF SameOrNewer, ChunkOf
  <1>2. CASE row.document # d
    <2>1. row \in rows
      BY <1>1, <1>2
    <2>2. SameOrNewer(x, row)
      BY <2>1
    <2>3. QED  BY <1>1, <2>2 DEF SameOrNewer
  <1>3. CASE row.document = d
    <2>1. row \in newRows
      BY <1>1, <1>3
    <2>2. x.id \in Nat /\ row.id \in Nat
      BY <1>1 DEF Rows
    <2>3. ChunkOf(x) = ChunkOf(row) => ~Untouched(x)'
      BY <1>1, <1>3 DEF ChunkOf
    <2>4. CASE row.id >= nextID
      BY <1>1, <2>2, <2>3, <2>4
    <2>5. CASE \E old \in rows : old.id = row.id /\ ChunkOf(old) = ChunkOf(row)
      <3>1. PICK old \in rows : old.id = row.id /\ ChunkOf(old) = ChunkOf(row)
        BY <2>5
      <3>2. SameOrNewer(x, old)
        BY <3>1
      <3>3. QED  BY <2>3, <3>1, <3>2 DEF SameOrNewer
    <2>6. QED  BY <2>1, <2>4, <2>5 DEF CommitOK
  <1>4. QED  BY <1>2, <1>3

\* Commits of other calls keep the invariant.
LEMMA CommitKeeps ==
  ASSUME SearchInv,
         NEW d, NEW newRows, NEW ids, CommitOK(d, newRows, ids), Write(d, newRows, ids)
  PROVE  SearchInv'
  <1>1. StoreOK /\ RequestOK /\ KeywordsOK /\ VectorsOK /\ StatsOK /\ FusedOK
    BY DEF SearchInv
  <1>2. StoreOK'
    BY <1>1, CommitKeepsStore
  <1>3. /\ UNCHANGED <<pc, cfg, request, began, keywordHits, vectorHits, exact, hits, stats>>
        /\ writes' = writes + 1 /\ writes \in Nat
    BY <1>1 DEF Write, StoreOK
  <1>4. RequestOK'
    BY <1>1, <1>3 DEF RequestOK, Searching
  <1>5. ASSUME pc \in Searching
        PROVE  /\ ListOK(keywordHits, request.query.relevance, TRUE)'
               /\ \A i \in 1 .. Len(keywordHits), row \in rows' :
                    SameOrNewer(keywordHits[i], row)'
               /\ ListOK(vectorHits, request.query.similarity, exact)'
               /\ \A i \in 1 .. Len(keywordHits), j \in 1 .. Len(vectorHits) :
                    SameOrNewer(keywordHits[i], vectorHits[j])'
    <2>1. /\ ListOK(keywordHits, request.query.relevance, TRUE)
          /\ ListOK(vectorHits, request.query.similarity, exact)
      BY <1>1, <1>5 DEF KeywordsOK, VectorsOK
    <2>2. ListOK(keywordHits, request.query.relevance, TRUE)'
      <3>1. ListStays(keywordHits, request.query.relevance, TRUE)
        BY <1>1, <1>5, <2>1, CommitKeepsList
      <3>2. QED  BY <1>3, <3>1 DEF ListStays, ListOK, ChunkOf, Better, Ahead, Wanted, Untouched
    <2>3. ListOK(vectorHits, request.query.similarity, exact)'
      <3>1. ListStays(vectorHits, request.query.similarity, exact)
        BY <1>1, <1>5, <2>1, CommitKeepsList
      <3>2. QED  BY <1>3, <3>1 DEF ListStays, ListOK, ChunkOf, Better, Ahead, Wanted, Untouched
    <2>4. ASSUME NEW i \in 1 .. Len(keywordHits)
          PROVE  \A row \in rows' : SameOrNewer(keywordHits[i], row)'
      <3>1. keywordHits[i] \in Rows /\ keywordHits[i].id < nextID
        BY <2>1 DEF ListOK
      <3>2. \A row \in rows : SameOrNewer(keywordHits[i], row)
        BY <1>1, <1>5 DEF KeywordsOK
      <3>3. PICK x \in Rows : x = keywordHits[i]
        BY <3>1
      <3>4. \A row \in rows' : SameOrNewer(x, row)'
        BY <1>1, <1>5, <3>1, <3>2, <3>3, CommitKeepsOlder
      <3>5. QED  BY <1>3, <3>3, <3>4 DEF SameOrNewer, ChunkOf, Untouched
    <2>5. ASSUME NEW i \in 1 .. Len(keywordHits), NEW j \in 1 .. Len(vectorHits)
          PROVE  SameOrNewer(keywordHits[i], vectorHits[j])'
      <3>1. keywordHits[i] \in Rows
        BY <2>1 DEF ListOK
      <3>2. SameOrNewer(keywordHits[i], vectorHits[j])
        BY <1>1, <1>5 DEF VectorsOK
      <3>3. Untouched(keywordHits[i])' => Untouched(keywordHits[i])
        BY <1>1, <1>5, <3>1, CommitLeaves
      <3>4. QED  BY <1>3, <3>2, <3>3 DEF SameOrNewer, ChunkOf
    <2>6. QED  BY <2>2, <2>3, <2>4, <2>5
  <1>6. KeywordsOK'
    <2>1. ASSUME pc \in Searching, NEW i \in 1 .. Len(keywordHits)
          PROVE  Relevance(keywordHits[i])' > 0
      BY <1>1, <1>3, <2>1 DEF KeywordsOK, Relevance
    <2>2. QED  BY <1>1, <1>3, <1>5, <2>1 DEF KeywordsOK, Searching
  <1>7. VectorsOK'
    <2>1. pc \in Searching => began'.writes # writes'
      BY <1>1, <1>3 DEF RequestOK
    <2>2. QED  BY <1>1, <1>3, <1>5, <2>1 DEF VectorsOK, Searching
  <1>8. StatsOK'
    <2> SUFFICES ASSUME stats # Nothing
                 PROVE  /\ stats.at \in Nat /\ stats.at <= writes'
                        /\ pc \in Searching => stats.at <= began.writes
                        /\ stats.at # writes'
      BY <1>3 DEF StatsOK, Searching
    <2>1. QED  BY <1>1, <1>3 DEF StatsOK
  <1>9. FusedOK'
    <2>1. Merged' = Merged
      BY <1>3 DEF Merged, RowsOf, MergedHit, RankOf, Plus, Fraction, ReciprocalRank
    <2>2. QED  BY <1>1, <1>3, <2>1 DEF FusedOK, Exceeds
  <1>10. QED  BY <1>2, <1>4, <1>6, <1>7, <1>8, <1>9 DEF SearchInv

-----------------------------------------------------------------------------
(***************************************************************************)
(* Steps of a search.                                                      *)
(***************************************************************************)

\* What does not change, where no step changes it
LEMMA StoreKept ==
  ASSUME StoreOK, UNCHANGED store
  PROVE  StoreOK'
  BY DEF StoreOK, store, ChunkOf

\* The lists stay as good as they were.
LEMMA ListKept ==
  ASSUME UNCHANGED <<store, request, began>>,
         NEW list, NEW score, NEW all, ListOK(list, score, all)
  PROVE  ListStays(list, score, all)
  <1>1. UNCHANGED <<rows, nextID, lastWrite, request, began>>
    BY DEF store
  <1>2. /\ \A x : Wanted(x)' <=> Wanted(x)
        /\ \A x : Untouched(x)' <=> Untouched(x)
    BY <1>1 DEF Wanted, Untouched
  <1>3. /\ list \in Seq(Rows)
        /\ \A k, j \in 1 .. Len(list) :
             list[k].id = list[j].id \/ ChunkOf(list[k]) = ChunkOf(list[j]) => k = j
    BY DEF ListOK
  <1>4. ASSUME NEW k \in 1 .. Len(list)
        PROVE  /\ Wanted(list[k])' /\ list[k].id < nextID'
               /\ Untouched(list[k])' => list[k] \in rows'
    BY <1>1, <1>2 DEF ListOK
  <1>5. ASSUME NEW row \in rows', NEW k \in 1 .. Len(list),
               Wanted(row)', Untouched(row)', Better(score, row, list[k]),
               all \/ \E j \in 1 .. Len(list) : list[j].id = row.id
        PROVE  \E j \in 1 .. k - 1 : list[j] = row
    BY <1>1, <1>2, <1>5 DEF ListOK
  <1>6. QED  BY <1>3, <1>4, <1>5 DEF ListStays

\* Steps that leave the keyword hits, or end the search
LEMMA KeywordsKept ==
  ASSUME KeywordsOK, UNCHANGED <<store, request, began, keywordHits>>,
         pc' \in Searching => pc \in Searching,
         pc' \notin {"off", "closed", "idle", "refused", "keyword"}
  PROVE  KeywordsOK'
  <1>1. CASE pc' \in Searching
    <2>1. ListStays(keywordHits, request.query.relevance, TRUE)
      BY <1>1, ListKept DEF KeywordsOK
    <2>2. ListOK(keywordHits, request.query.relevance, TRUE)'
      BY <2>1 DEF ListStays, ListOK, ChunkOf, Better, Ahead, Wanted, Untouched
    <2>3. \A i \in 1 .. Len(keywordHits) : Relevance(keywordHits[i])' > 0
      BY <1>1 DEF KeywordsOK, Relevance
    <2>4. \A i \in 1 .. Len(keywordHits), row \in rows' : SameOrNewer(keywordHits[i], row)'
      BY <1>1 DEF KeywordsOK, SameOrNewer, ChunkOf, Untouched, store
    <2>5. QED  BY <1>1, <2>2, <2>3, <2>4 DEF KeywordsOK, Searching
  <1>2. CASE pc' \notin Searching
    BY <1>2 DEF KeywordsOK
  <1>3. QED  BY <1>1, <1>2

\* The statistics are still of the rows that are there.
LEMMA StatsKept ==
  ASSUME StatsOK, UNCHANGED <<store, stats, began>>,
         pc' \in Searching => pc \in Searching
  PROVE  StatsOK'
  BY DEF StatsOK, store, ChunksIn

\* New opens no search.
LEMMA NewKeepsSearch ==
  ASSUME SearchInv, New
  PROVE  SearchInv'
  <1>1. /\ pc = "off" /\ pc' \in {"idle", "closed"}
        /\ UNCHANGED <<rows, nextID, writes, lastWrite, request, began, keywordHits,
                       vectorHits, exact, hits, stats>>
    BY DEF New
  <1>2. StoreOK'
    BY <1>1, StoreKept DEF SearchInv, store
  <1>3. StatsOK'
    BY <1>1, StatsKept DEF SearchInv, store, Searching
  <1>4. KeywordsOK' /\ VectorsOK'
    BY <1>1 DEF SearchInv, KeywordsOK, VectorsOK, Searching
  <1>5. RequestOK' /\ FusedOK'
    BY <1>1 DEF RequestOK, FusedOK, Searching
  <1>6. QED  BY <1>2, <1>3, <1>4, <1>5 DEF SearchInv

\* A search begins with empty lists and a request that is in order.
LEMMA SearchDetailedKeepsSearch ==
  ASSUME DefaultsInv, SearchInv, NEW asked \in Requests, SearchDetailed(asked)
  PROVE  SearchInv'
  <1> DEFINE req == NormalizeSearchRequest(asked)
  <1>1. /\ pc = "idle" /\ request' = req
        /\ began'.writes = writes
        /\ pc' = IF ValidSearchRequest(req) THEN FirstStep(req) ELSE "refused"
        /\ UNCHANGED <<cfg, store, keywordHits, vectorHits, exact, hits, stats>>
    BY DEF SearchDetailed
  <1>2. /\ req.limit = OrDefault(asked.limit, cfg.searchLimit)
        /\ req.candidateLimit = OrDefault(asked.candidateLimit, cfg.candidateLimit)
        /\ req.query = asked.query
        /\ asked.limit \in Int /\ asked.candidateLimit \in Int
        /\ asked.query \in Queries \cup {Blank}
    BY SearchAssumption DEF SearchAssumption, NormalizeSearchRequest
  <1>3. keywordHits = <<>> /\ vectorHits = <<>> /\ exact = FALSE
    BY <1>1 DEF SearchInv, KeywordsOK, VectorsOK
  <1>4. /\ cfg.searchLimit \in Int /\ cfg.candidateLimit \in Int
        /\ 0 < cfg.searchLimit /\ cfg.searchLimit <= cfg.candidateLimit
    BY <1>1 DEF DefaultsInv, ConfigSound
  <1> HIDE DEF req
  <1>5. StoreOK' /\ writes \in Nat /\ writes' = writes
    BY <1>1, StoreKept DEF SearchInv, StoreOK, store
  <1>6. pc' \in Searching => ValidSearchRequest(req) /\ pc' = FirstStep(req)
    BY <1>1 DEF Searching
  <1>7. pc' \in {"keyword", "embed", "refused"}
    BY <1>1 DEF FirstStep
  <1>8. RequestOK'
    <2> SUFFICES ASSUME pc' \in Searching
                 PROVE  /\ req.query \in Queries /\ req.mode \in Modes
                        /\ req.limit \in Nat \ {0} /\ req.candidateLimit \in Nat
                        /\ req.limit <= req.candidateLimit
                        /\ pc' = "keyword" => req.mode # "vector"
                        /\ pc' = "embed" => req.mode # "keyword"
      BY <1>1, <1>5, <1>7 DEF RequestOK
    <2>1. /\ req.query # Blank /\ req.mode \in Modes
          /\ req.candidateLimit >= req.limit
      BY <1>6 DEF ValidSearchRequest
    <2>2. req.limit \in Nat \ {0} /\ req.candidateLimit \in Nat
      BY <1>2, <1>4 DEF OrDefault
    <2>3. pc' = "keyword" => req.mode # "vector"
      BY <1>6 DEF FirstStep
    <2>4. pc' = "embed" => req.mode # "keyword"
      BY <1>6 DEF FirstStep
    <2>5. QED  BY <1>2, <2>1, <2>2, <2>3, <2>4
  <1>9. KeywordsOK'
    BY <1>1, <1>3 DEF KeywordsOK, ListOK
  <1>10. VectorsOK'
    BY <1>1, <1>3 DEF VectorsOK, ListOK
  <1>11. StatsOK'
    BY <1>1, <1>5 DEF SearchInv, StatsOK, store, ChunksIn
  <1>12. FusedOK'
    BY <1>7 DEF FusedOK
  <1>13. QED  BY <1>5, <1>8, <1>9, <1>10, <1>11, <1>12 DEF SearchInv

\* The rows of a statement are those that are selected, of all rows or of a scan.
LEMMA ReadList ==
  ASSUME StoreOK, NEW S \in SUBSET rows, \A row \in S : Selected(row),
         NEW score, NEW n, NEW all, NEW list, Listed(S, score, n, list),
         \A row \in rows, x \in S : all /\ Wanted(row) /\ Better(score, row, x) => row \in S,
         UNCHANGED <<store, request, began>>
  PROVE  /\ ListStays(list, score, all)
         /\ \A i \in 1 .. Len(list) : list[i] \in S
  <1>1. UNCHANGED <<rows, nextID, lastWrite, request, began>>
    BY DEF store
  <1>2. \A i \in 1 .. Len(list) : list[i] \in S /\ list[i] \in rows
    BY DEF Listed
  <1>3. list \in Seq(Rows)
    BY DEF Listed, StoreOK
  <1>4. /\ \A x : Wanted(x)' <=> Wanted(x)
        /\ \A x : Selected(x) => Wanted(x)
    BY <1>1 DEF Wanted, Selected
  <1>5. ASSUME NEW i \in 1 .. Len(list)
        PROVE  /\ Wanted(list[i])' /\ list[i].id < nextID' /\ list[i] \in rows'
    BY <1>1, <1>2, <1>4 DEF StoreOK
  <1>6. \A i, j \in 1 .. Len(list) :
          list[i].id = list[j].id \/ ChunkOf(list[i]) = ChunkOf(list[j]) => i = j
    BY DEF Listed
  <1>7. ASSUME NEW row \in rows', NEW i \in 1 .. Len(list),
               Wanted(row)', Better(score, row, list[i]),
               all \/ \E j \in 1 .. Len(list) : list[j].id = row.id
        PROVE  \E j \in 1 .. i - 1 : list[j] = row
    <2>1. row \in rows /\ Wanted(row)
      BY <1>1, <1>4, <1>7
    <2>2. row \in S
      <3>1. CASE all
        BY <1>2, <1>7, <2>1, <3>1
      <3>2. CASE \E j \in 1 .. Len(list) : list[j].id = row.id
        <4>1. PICK j \in 1 .. Len(list) : list[j].id = row.id
          BY <3>2
        <4>2. list[j] = row
          BY <1>2, <2>1, <4>1 DEF StoreOK
        <4>3. QED  BY <1>2, <4>2
      <3>3. QED  BY <1>7, <3>1, <3>2
    <2>3. QED  BY <1>7, <2>2 DEF Listed
  <1>8. QED  BY <1>2, <1>3, <1>5, <1>6, <1>7 DEF ListStays

\* The first statement
LEMMA SearchKeywordKeeps ==
  ASSUME SearchInv, SearchKeyword
  PROVE  SearchInv'
  <1> DEFINE S == {row \in rows : Selected(row) /\ Relevance(row) > 0}
             score == request.query.relevance
             n == request.candidateLimit
  <1>1. /\ pc = "keyword" /\ pc' \in {"embed", "fuse"}
        /\ pc' = IF request.mode = "hybrid" THEN "embed" ELSE "fuse"
        /\ UNCHANGED <<cfg, store, request, began, vectorHits, exact, hits, stats>>
    BY DEF SearchKeyword
  <1>2. StoreOK /\ RequestOK /\ KeywordsOK /\ VectorsOK /\ StatsOK
    BY DEF SearchInv
  <1>3. /\ request.query \in Queries /\ n \in Nat /\ request.mode \in {"hybrid", "keyword"}
        /\ score \in [Texts -> Nat]
    BY <1>1, <1>2, SearchAssumption DEF SearchAssumption, RequestOK, Searching, Modes
  <1>4. keywordHits' = AtMost(n, Whole(score, S))
    BY DEF SearchKeyword, InOrder, Whole, Place, MoreRelevant, Better, Relevance
  <1>5. S \in SUBSET rows /\ \A row \in S : Selected(row) /\ score[row.text] > 0
    BY DEF Relevance
  <1>6. Listed(S, score, n, keywordHits')
    <2> HIDE DEF S, score, n
    <2>1. QED  BY <1>2, <1>3, <1>4, <1>5, StatementLists
  <1>7. ASSUME NEW row \in rows, NEW x \in S, Wanted(row), Better(score, row, x)
        PROVE  row \in S
    <2>1. x \in Rows /\ row \in Rows
      BY <1>2, <1>5 DEF StoreOK
    <2>2. score[x.text] \in Nat /\ score[row.text] \in Nat /\ score[x.text] > 0
      BY <1>3, <1>5, <2>1 DEF Rows
    <2>3. score[row.text] > 0
      BY <1>7, <2>2 DEF Better, Ahead
    <2>4. Selected(row)
      BY <1>7 DEF Wanted, Selected
    <2>5. QED  BY <2>3, <2>4 DEF Relevance
  <1>18. PICK K : K = keywordHits'
    OBVIOUS
  <1>8. /\ ListStays(K, score, TRUE)
        /\ \A i \in 1 .. Len(K) : K[i] \in S
    <2> HIDE DEF S, score, n
    <2>1. QED  BY <1>1, <1>2, <1>5, <1>6, <1>7, <1>18, ReadList
  <1>9. ListOK(keywordHits, request.query.relevance, TRUE)'
    BY <1>1, <1>8, <1>18 DEF ListStays, ListOK, ChunkOf, Better, Ahead, Wanted, Untouched
  <1>10. \A i \in 1 .. Len(keywordHits') : Relevance(keywordHits[i])' > 0
    BY <1>1, <1>8, <1>18 DEF Relevance
  <1>11. ASSUME NEW i \in 1 .. Len(keywordHits'), NEW row \in rows'
         PROVE  SameOrNewer(keywordHits[i], row)'
    <2>1. keywordHits'[i] \in rows /\ row \in rows
      BY <1>1, <1>8, <1>18 DEF store
    <2>2. keywordHits'[i].id = row.id \/ ChunkOf(keywordHits'[i]) = ChunkOf(row)
            => keywordHits'[i] = row
      BY <1>2, <2>1 DEF StoreOK
    <2>3. QED  BY <2>2 DEF SameOrNewer, ChunkOf
  <1>12. KeywordsOK'
    BY <1>1, <1>3, <1>9, <1>10, <1>11 DEF KeywordsOK
  <1>13. vectorHits' = <<>> /\ exact' = FALSE
    BY <1>1, <1>2 DEF VectorsOK
  <1>14. VectorsOK'
    BY <1>13 DEF VectorsOK, ListOK
  <1>15. RequestOK'
    BY <1>1, <1>2, <1>3 DEF RequestOK, Searching, store
  <1>16. StoreOK' /\ StatsOK' /\ FusedOK'
    BY <1>1, <1>2, StoreKept, StatsKept DEF Searching, FusedOK
  <1>17. QED  BY <1>12, <1>14, <1>15, <1>16 DEF SearchInv

\* The second statement
LEMMA SearchVectorKeeps ==
  ASSUME SearchInv, SearchVector
  PROVE  SearchInv'
  <1>1. /\ pc = "vector" /\ pc' = "fuse" /\ exact' \in BOOLEAN
        /\ UNCHANGED <<cfg, store, request, began, keywordHits, hits, stats>>
    BY DEF SearchVector
  <1>2. StoreOK /\ RequestOK /\ KeywordsOK /\ VectorsOK /\ StatsOK
    BY DEF SearchInv
  <1>3. PICK scan \in IF exact' THEN {rows} ELSE IndexScans :
          vectorHits' = AtMost(request.candidateLimit,
                               InOrder({row \in scan : Selected(row)}, MoreSimilar))
    BY DEF SearchVector
  <1> DEFINE S == {row \in scan : Selected(row)}
             score == request.query.similarity
             n == request.candidateLimit
  <1>4. /\ request.query \in Queries /\ n \in Nat /\ request.mode \in {"hybrid", "vector"}
        /\ score \in [Texts -> Nat]
    BY <1>1, <1>2, SearchAssumption DEF SearchAssumption, RequestOK, Searching, Modes
  <1>5. vectorHits' = AtMost(n, Whole(score, S))
    BY <1>3 DEF InOrder, Whole, Place, MoreSimilar, Better, Similarity
  <1>6. /\ scan \subseteq rows
        /\ exact' => scan = rows
    BY <1>3 DEF IndexScans
  <1>7. S \in SUBSET rows /\ \A row \in S : Selected(row)
    BY <1>6
  <1>8. Listed(S, score, n, vectorHits')
    <2> HIDE DEF S, score, n
    <2>1. QED  BY <1>2, <1>4, <1>5, <1>7, StatementLists
  <1>9. \A row \in rows, x \in S : exact' /\ Wanted(row) /\ Better(score, row, x) => row \in S
    BY <1>6 DEF Wanted, Selected
  <1>19. PICK V : V = vectorHits'
    OBVIOUS
  <1>20. PICK all : all = exact'
    OBVIOUS
  <1>10. /\ ListStays(V, score, all)
         /\ \A i \in 1 .. Len(V) : V[i] \in S
    <2> HIDE DEF S, score, n
    <2>1. QED  BY <1>1, <1>2, <1>7, <1>8, <1>9, <1>19, <1>20, ReadList
  <1>11. ListOK(vectorHits, request.query.similarity, exact)'
    BY <1>1, <1>10, <1>19, <1>20 DEF ListStays, ListOK, ChunkOf, Better, Ahead, Wanted, Untouched
  <1>12. ASSUME NEW i \in 1 .. Len(keywordHits), NEW j \in 1 .. Len(vectorHits')
         PROVE  SameOrNewer(keywordHits[i], vectorHits[j])'
    <2>1. vectorHits'[j] \in rows
      BY <1>7, <1>10, <1>19
    <2>2. SameOrNewer(keywordHits[i], vectorHits'[j])
      BY <1>1, <1>2, <2>1 DEF KeywordsOK, Searching
    <2>3. QED  BY <1>1, <2>2 DEF SameOrNewer, ChunkOf, Untouched, store
  <1>13. ASSUME exact', request.filter = Blank
         PROVE  Len(vectorHits') = IF Cardinality(ChunksIn(request.collection)) <= n
                                     THEN Cardinality(ChunksIn(request.collection)) ELSE n
    <2>1. S = ChunksIn(request.collection)
      BY <1>6, <1>13 DEF Selected, ChunksIn
    <2> HIDE DEF S, score, n
    <2>2. QED  BY <1>8, <2>1 DEF Listed
  <1>14. VectorsOK'
    <2>1. ChunksIn(request.collection)' = ChunksIn(request.collection)
      BY <1>1 DEF ChunksIn, store
    <2>2. request'.mode # "keyword"
      BY <1>1, <1>4
    <2> HIDE DEF S
    <2>3. QED  BY <1>1, <1>11, <1>12, <1>13, <2>1, <2>2 DEF VectorsOK
  <1>15. KeywordsOK'
    BY <1>1, <1>2, KeywordsKept DEF Searching
  <1>16. RequestOK'
    BY <1>1, <1>2 DEF RequestOK, Searching, store
  <1>17. StoreOK' /\ StatsOK' /\ FusedOK'
    BY <1>1, <1>2, StoreKept, StatsKept DEF Searching, FusedOK
  <1>18. QED  BY <1>14, <1>15, <1>16, <1>17 DEF SearchInv

-----------------------------------------------------------------------------
(***************************************************************************)
(* Fractions.                                                              *)
(***************************************************************************)

Fractions == [num: Nat, den: Nat \ {0}]

\* Multiplication by a positive number keeps the order.
LEMMA Scale ==
  ASSUME NEW a \in Nat, NEW b \in Nat, NEW e \in Nat \ {0}
  PROVE  a > b <=> a * e > b * e
  <1>1. ASSUME NEW x \in Nat, NEW y \in Nat, x > y PROVE x * e > y * e
    <2>1. (x - y) * e > 0
      BY <1>1
    <2>2. (x - y) * e = x * e - y * e
      OBVIOUS
    <2>3. QED  BY <2>1, <2>2
  <1>2. a > b => a * e > b * e
    BY <1>1
  <1>3. b > a => b * e > a * e
    BY <1>1
  <1>4. a = b => a * e = b * e
    OBVIOUS
  <1>5. a * e \in Nat /\ b * e \in Nat
    OBVIOUS
  <1>6. QED  BY <1>2, <1>3, <1>4, <1>5

\* Exceeds is a strict weak order.
LEMMA FractionOrder ==
  ASSUME NEW p \in Fractions, NEW q \in Fractions, NEW r \in Fractions
  PROVE  /\ Exceeds(p, q) => ~Exceeds(q, p)
         /\ Exceeds(p, r) => Exceeds(p, q) \/ Exceeds(q, r)
  <1>1. PICK pn \in Nat, pd \in Nat \ {0} : p.num = pn /\ p.den = pd
    BY DEF Fractions
  <1>2. PICK qn \in Nat, qd \in Nat \ {0} : q.num = qn /\ q.den = qd
    BY DEF Fractions
  <1>3. PICK rn \in Nat, rd \in Nat \ {0} : r.num = rn /\ r.den = rd
    BY DEF Fractions
  <1>4. /\ pn * qd \in Nat /\ qn * pd \in Nat /\ pn * rd \in Nat /\ rn * pd \in Nat
        /\ qn * rd \in Nat /\ rn * qd \in Nat
    OBVIOUS
  <1>5. Exceeds(p, q) => ~Exceeds(q, p)
    BY <1>1, <1>2, <1>4 DEF Exceeds
  <1>6. ASSUME pn * rd > rn * pd, ~(pn * qd > qn * pd), ~(qn * rd > rn * qd)
        PROVE  FALSE
    <2>1. (pn * rd) * qd > (rn * pd) * qd
      BY <1>4, <1>6, Scale
    <2>2. ~((pn * qd) * rd > (qn * pd) * rd)
      BY <1>4, <1>6, Scale
    <2>3. ~((qn * rd) * pd > (rn * qd) * pd)
      BY <1>4, <1>6, Scale
    <2>4. /\ (pn * rd) * qd = (pn * qd) * rd
          /\ (qn * pd) * rd = (qn * rd) * pd
          /\ (rn * pd) * qd = (rn * qd) * pd
      OBVIOUS
    <2>5. (pn * rd) * qd \in Nat /\ (rn * pd) * qd \in Nat /\ (qn * pd) * rd \in Nat
      OBVIOUS
    <2>6. QED  BY <2>1, <2>2, <2>3, <2>4, <2>5
  <1>7. QED  BY <1>1, <1>2, <1>3, <1>5, <1>6 DEF Exceeds

\* A sum is larger if one part is larger and the other is no smaller.
LEMMA SumExceeds ==
  ASSUME NEW p \in Fractions, NEW q \in Fractions, NEW r \in Fractions, NEW s \in Fractions
  PROVE  /\ Plus(p, q) \in Fractions
         /\ Exceeds(p, r) /\ ~Exceeds(s, q) => Exceeds(Plus(p, q), Plus(r, s))
         /\ Exceeds(q, s) /\ ~Exceeds(r, p) => Exceeds(Plus(p, q), Plus(r, s))
  <1>1. PICK pn \in Nat, pd \in Nat \ {0} : p.num = pn /\ p.den = pd
    BY DEF Fractions
  <1>2. PICK qn \in Nat, qd \in Nat \ {0} : q.num = qn /\ q.den = qd
    BY DEF Fractions
  <1>3. PICK rn \in Nat, rd \in Nat \ {0} : r.num = rn /\ r.den = rd
    BY DEF Fractions
  <1>4. PICK sn \in Nat, sd \in Nat \ {0} : s.num = sn /\ s.den = sd
    BY DEF Fractions
  <1>5. ASSUME NEW x \in Nat \ {0}, NEW y \in Nat \ {0} PROVE x * y \in Nat \ {0}
    OBVIOUS
  <1>6. /\ pd * qd \in Nat \ {0} /\ rd * sd \in Nat \ {0}
        /\ qd * sd \in Nat \ {0} /\ pd * rd \in Nat \ {0}
    BY <1>5
  <1>7. /\ pn * rd \in Nat /\ rn * pd \in Nat /\ qn * sd \in Nat /\ sn * qd \in Nat
        /\ pn * qd + qn * pd \in Nat
    OBVIOUS
  <1>8. /\ (pn * qd + qn * pd) * (rd * sd) = (pn * rd) * (qd * sd) + (qn * sd) * (pd * rd)
        /\ (rn * sd + sn * rd) * (pd * qd) = (rn * pd) * (qd * sd) + (sn * qd) * (pd * rd)
    OBVIOUS
  <1>9. /\ (pn * rd) * (qd * sd) \in Nat /\ (qn * sd) * (pd * rd) \in Nat
        /\ (rn * pd) * (qd * sd) \in Nat /\ (sn * qd) * (pd * rd) \in Nat
    OBVIOUS
  <1>10. /\ pn * rd > rn * pd <=> (pn * rd) * (qd * sd) > (rn * pd) * (qd * sd)
         /\ rn * pd > pn * rd <=> (rn * pd) * (qd * sd) > (pn * rd) * (qd * sd)
         /\ qn * sd > sn * qd <=> (qn * sd) * (pd * rd) > (sn * qd) * (pd * rd)
         /\ sn * qd > qn * sd <=> (sn * qd) * (pd * rd) > (qn * sd) * (pd * rd)
    BY <1>6, <1>7, Scale
  <1>11. /\ Exceeds(p, r) <=> pn * rd > rn * pd
         /\ Exceeds(r, p) <=> rn * pd > pn * rd
         /\ Exceeds(q, s) <=> qn * sd > sn * qd
         /\ Exceeds(s, q) <=> sn * qd > qn * sd
         /\ Exceeds(Plus(p, q), Plus(r, s)) <=>
              (pn * qd + qn * pd) * (rd * sd) > (rn * sd + sn * rd) * (pd * qd)
    BY <1>1, <1>2, <1>3, <1>4 DEF Exceeds, Plus, Fraction
  <1>12. Plus(p, q) \in Fractions
    BY <1>1, <1>2, <1>6, <1>7 DEF Fractions, Plus, Fraction
  <1>13. QED  BY <1>8, <1>9, <1>10, <1>11, <1>12

\* One rank is before another if it is smaller, or the other is none.
RankBefore(i, j) == i > 0 /\ (j = 0 \/ i < j)

\* The share of a rank in a score
LEMMA ShareOfRank ==
  ASSUME cfg.rrf \in Nat \ {0}, NEW i \in Nat, NEW j \in Nat
  PROVE  /\ ReciprocalRank(i) \in Fractions
         /\ RankBefore(i, j) => Exceeds(ReciprocalRank(i), ReciprocalRank(j))
         /\ RankBefore(i, j) \/ i = j => ~Exceeds(ReciprocalRank(j), ReciprocalRank(i))
  <1>1. ASSUME NEW n \in Nat
        PROVE  /\ n = 0 => ReciprocalRank(n) = [num |-> 0, den |-> 1]
               /\ n > 0 => ReciprocalRank(n) = [num |-> 1, den |-> cfg.rrf + n]
    BY DEF ReciprocalRank, Fraction
  <1>2. \A n \in Nat : ReciprocalRank(n) \in Fractions
    BY <1>1 DEF Fractions
  <1>3. RankBefore(i, j) => Exceeds(ReciprocalRank(i), ReciprocalRank(j))
    <2>1. CASE j = 0
      BY <1>1, <2>1 DEF RankBefore, Exceeds
    <2>2. CASE j > 0
      BY <1>1, <2>2 DEF RankBefore, Exceeds
    <2>3. QED  BY <2>1, <2>2
  <1>4. RankBefore(i, j) => ~Exceeds(ReciprocalRank(j), ReciprocalRank(i))
    BY <1>2, <1>3, FractionOrder
  <1>5. i = j => ~Exceeds(ReciprocalRank(j), ReciprocalRank(i))
    BY <1>2, FractionOrder
  <1>6. QED  BY <1>2, <1>3, <1>4, <1>5

-----------------------------------------------------------------------------
(***************************************************************************)
(* Merged hits.                                                            *)
(***************************************************************************)

\* The rank of an id is the place of the only row that has it, or 0.
LEMMA RankFacts ==
  ASSUME NEW list \in Seq(Rows), NEW id,
         \A i, j \in 1 .. Len(list) : list[i].id = list[j].id => i = j
  PROVE  /\ RankOf(id, list) \in Nat /\ RankOf(id, list) <= Len(list)
         /\ RankOf(id, list) > 0 => list[RankOf(id, list)].id = id
         /\ \A i \in 1 .. Len(list) : list[i].id = id => RankOf(id, list) = i
  <1>1. CASE \E i \in 1 .. Len(list) : list[i].id = id
    <2>1. PICK i \in 1 .. Len(list) : list[i].id = id
      BY <1>1
    <2>2. RankOf(id, list) = CHOOSE k \in 1 .. Len(list) : list[k].id = id
      BY <1>1 DEF RankOf
    <2>3. RankOf(id, list) \in 1 .. Len(list) /\ list[RankOf(id, list)].id = id
      BY <2>1, <2>2
    <2>4. QED  BY <2>3
  <1>2. CASE ~\E i \in 1 .. Len(list) : list[i].id = id
    BY <1>2 DEF RankOf
  <1>3. QED  BY <1>1, <1>2

\* What a search knows when its lists are there
ListsRead ==
  /\ keywordHits \in Seq(Rows) /\ vectorHits \in Seq(Rows)
  /\ \A i, j \in 1 .. Len(keywordHits) : keywordHits[i].id = keywordHits[j].id => i = j
  /\ \A i, j \in 1 .. Len(vectorHits) : vectorHits[i].id = vectorHits[j].id => i = j
  /\ cfg.rrf \in Nat \ {0}

\* A hit has the row of the first list that has it, and the score of its ranks.
HitOK(x) ==
  LET k == RankOf(x.row.id, keywordHits)
      v == RankOf(x.row.id, vectorHits)
  IN  /\ x = MergedHit(x.row.id)
      /\ x.row \in Rows /\ x.score \in Fractions
      /\ k \in Nat /\ k <= Len(keywordHits) /\ v \in Nat /\ v <= Len(vectorHits)
      /\ k > 0 => x.row = keywordHits[k]
      /\ k = 0 => v > 0 /\ x.row = vectorHits[v]
      /\ x.score = Plus(ReciprocalRank(k), ReciprocalRank(v))

\* The hit of an id that a list has
LEMMA HitOfID ==
  ASSUME ListsRead, NEW id,
         \/ \E i \in 1 .. Len(keywordHits) : keywordHits[i].id = id
         \/ \E i \in 1 .. Len(vectorHits) : vectorHits[i].id = id
  PROVE  HitOK(MergedHit(id)) /\ MergedHit(id).row.id = id
  <1> DEFINE k == RankOf(id, keywordHits)
             v == RankOf(id, vectorHits)
             x == MergedHit(id)
  <1>1. /\ k \in Nat /\ k <= Len(keywordHits)
        /\ k > 0 => keywordHits[k].id = id
        /\ \A i \in 1 .. Len(keywordHits) : keywordHits[i].id = id => k = i
    BY RankFacts DEF ListsRead
  <1>2. /\ v \in Nat /\ v <= Len(vectorHits)
        /\ v > 0 => vectorHits[v].id = id
        /\ \A i \in 1 .. Len(vectorHits) : vectorHits[i].id = id => v = i
    BY RankFacts DEF ListsRead
  <1>3. /\ x.row = IF k > 0 THEN keywordHits[k] ELSE vectorHits[v]
        /\ x.score = Plus(ReciprocalRank(k), ReciprocalRank(v))
    BY DEF MergedHit
  <1> HIDE DEF k, v, x
  <1>4. k = 0 => v > 0
    BY <1>1, <1>2
  <1>5. x.row.id = id /\ x.row \in Rows
    <2>1. CASE k > 0
      BY <1>1, <1>3, <2>1 DEF ListsRead
    <2>2. CASE k = 0
      BY <1>2, <1>3, <1>4, <2>2 DEF ListsRead
    <2>3. QED  BY <1>1, <2>1, <2>2
  <1>6. x.score \in Fractions
    <2>1. ReciprocalRank(k) \in Fractions /\ ReciprocalRank(v) \in Fractions
      BY <1>1, <1>2, ShareOfRank DEF ListsRead
    <2>2. QED  BY <1>3, <2>1, SumExceeds
  <1>7. x = MergedHit(x.row.id) /\ k = RankOf(x.row.id, keywordHits)
        /\ v = RankOf(x.row.id, vectorHits)
    BY <1>5 DEF x, k, v
  <1>8. HitOK(x)
    BY <1>1, <1>2, <1>3, <1>4, <1>5, <1>6, <1>7 DEF HitOK
  <1>9. QED  BY <1>5, <1>8 DEF x

\* Merged has one hit for each id of the lists.
LEMMA MergedFacts ==
  ASSUME ListsRead
  PROVE  /\ IsFiniteSet(Merged)
         /\ \A x \in Merged : HitOK(x)
         /\ \A x, y \in Merged : x.row.id = y.row.id => x = y
         /\ \A i \in 1 .. Len(keywordHits) : MergedHit(keywordHits[i].id) \in Merged
         /\ \A i \in 1 .. Len(vectorHits) : MergedHit(vectorHits[i].id) \in Merged
  <1> DEFINE both == RowsOf(keywordHits) \cup RowsOf(vectorHits)
  <1>1. ASSUME NEW list \in Seq(Rows) PROVE IsFiniteSet(RowsOf(list))
    <2> DEFINE f == [i \in 1 .. Len(list) |-> list[i]]
               image == RowsOf(list)
    <2>1. Len(list) \in Nat
      OBVIOUS
    <2>2. IsFiniteSet(1 .. Len(list))
      BY <2>1, FS_Interval
    <2>3. f \in Surjection(1 .. Len(list), image)
      <3>1. f \in [1 .. Len(list) -> image] /\ \A x \in image : \E i \in 1 .. Len(list) : f[i] = x
        BY DEF RowsOf
      <3> HIDE DEF f, image
      <3>2. QED  BY <3>1 DEF Surjection
    <2> HIDE DEF f, image
    <2>4. IsFiniteSet(image)
      BY <2>2, <2>3, FS_Surjection
    <2>5. QED  BY <2>4 DEF image
  <1>2. IsFiniteSet(both)
    BY <1>1, FS_Union DEF ListsRead
  <1>3. IsFiniteSet(Merged)
    <2> DEFINE f == [row \in both |-> MergedHit(row.id)]
    <2>1. f \in Surjection(both, Merged)
      <3>1. f \in [both -> Merged] /\ \A x \in Merged : \E row \in both : f[row] = x
        BY DEF Merged
      <3> HIDE DEF f, both
      <3>2. QED  BY <3>1 DEF Surjection
    <2> HIDE DEF f, both
    <2>2. QED  BY <1>2, <2>1, FS_Surjection
  <1>4. ASSUME NEW x \in Merged PROVE HitOK(x)
    <2>1. PICK row \in both : x = MergedHit(row.id)
      BY DEF Merged
    <2>2. \/ \E i \in 1 .. Len(keywordHits) : keywordHits[i].id = row.id
          \/ \E i \in 1 .. Len(vectorHits) : vectorHits[i].id = row.id
      BY DEF RowsOf
    <2> HIDE DEF both
    <2>3. HitOK(MergedHit(row.id))
      BY <2>2, HitOfID
    <2>4. QED  BY <2>1, <2>3
  <1>5. \A x, y \in Merged : x.row.id = y.row.id => x = y
    BY <1>4 DEF HitOK
  <1>6. \A i \in 1 .. Len(keywordHits) : MergedHit(keywordHits[i].id) \in Merged
    BY DEF Merged, RowsOf
  <1>7. \A i \in 1 .. Len(vectorHits) : MergedHit(vectorHits[i].id) \in Merged
    BY DEF Merged, RowsOf
  <1>8. QED  BY <1>3, <1>4, <1>5, <1>6, <1>7

\* The less function is a total order of the merged hits.
LEMMA LessOrder ==
  ASSUME ListsRead, NEW newFirst
  PROVE  Ordering(Merged, [x \in Merged |-> {y \in Merged : Less(newFirst, y, x)}])
  <1>1. ASSUME NEW x \in Merged
        PROVE  /\ x.score \in Fractions /\ x.row.document \in Int
               /\ x.row.number \in Nat /\ x.row.id \in Nat
    <2>1. x.row \in Rows /\ x.score \in Fractions
      BY MergedFacts DEF HitOK
    <2>2. QED  BY <2>1, SearchAssumption DEF SearchAssumption, Rows
  <1>2. ASSUME NEW x \in Merged PROVE ~Less(newFirst, x, x)
    <2>1. ~Exceeds(x.score, x.score)
      BY <1>1, FractionOrder
    <2>2. QED  BY <1>1, <2>1 DEF Less, ChunkOf
  <1>3. ASSUME NEW x \in Merged, NEW y \in Merged, NEW z \in Merged,
               Less(newFirst, x, y), Less(newFirst, y, z)
        PROVE  Less(newFirst, x, z)
    <2>1. CASE Exceeds(x.score, z.score)
      BY <2>1 DEF Less
    <2>2. CASE ~Exceeds(x.score, z.score)
      <3>1. ~Exceeds(y.score, x.score) /\ ~Exceeds(z.score, y.score)
        BY <1>1, <1>3, FractionOrder DEF Less
      <3>2. ~Exceeds(z.score, x.score)
        BY <1>1, <3>1, FractionOrder
      <3>3. ~Exceeds(x.score, y.score)
        BY <1>1, <2>2, <3>1, FractionOrder
      <3>4. ~Exceeds(y.score, z.score)
        BY <1>1, <2>2, <3>1, FractionOrder
      <3>5. QED  BY <1>1, <1>3, <3>2, <3>3, <3>4 DEF Less, ChunkOf
    <2>3. QED  BY <2>1, <2>2
  <1>4. ASSUME NEW x \in Merged, NEW y \in Merged
        PROVE  x = y \/ Less(newFirst, x, y) \/ Less(newFirst, y, x)
    <2>1. x.row.id = y.row.id => x = y
      BY MergedFacts
    <2>2. QED  BY <1>1, <2>1 DEF Less, ChunkOf
  <1> DEFINE before == [x \in Merged |-> {y \in Merged : Less(newFirst, y, x)}]
  <1>5. /\ before \in [Merged -> SUBSET Merged]
        /\ \A x \in Merged : x \notin before[x]
    BY <1>2
  <1>6. \A x, y \in Merged : x \in before[y] => before[x] \subseteq before[y]
    BY <1>3
  <1>7. \A x, y \in Merged : x = y \/ x \in before[y] \/ y \in before[x]
    BY <1>4
  <1> HIDE DEF before
  <1>8. Ordering(Merged, before)
    BY <1>5, <1>6, <1>7 DEF Ordering
  <1>9. QED  BY <1>8 DEF before

\* The place of a hit, and the whole list
HitAt(newFirst, i) ==
  CHOOSE x \in Merged : Cardinality({y \in Merged : Less(newFirst, y, x)}) = i - 1

AllHits(newFirst) == [i \in 1 .. Cardinality(Merged) |-> HitAt(newFirst, i)]

\* The sort lists every merged hit once, those with larger scores first.
LEMMA HitsSorted ==
  ASSUME ListsRead, NEW newFirst
  PROVE  /\ AllHits(newFirst) \in Seq(Merged)
         /\ Len(AllHits(newFirst)) = Cardinality(Merged)
         /\ \A x \in Merged : \E i \in 1 .. Len(AllHits(newFirst)) : AllHits(newFirst)[i] = x
         /\ \A i, j \in 1 .. Len(AllHits(newFirst)) :
              /\ AllHits(newFirst)[i] = AllHits(newFirst)[j] => i = j
              /\ Exceeds(AllHits(newFirst)[i].score, AllHits(newFirst)[j].score) => i < j
  <1> DEFINE before == [x \in Merged |-> {y \in Merged : Less(newFirst, y, x)}]
             list == AllHits(newFirst)
  <1>1. Ordering(Merged, before)
    BY LessOrder
  <1>2. \A x \in Merged : before[x] = {y \in Merged : Less(newFirst, y, x)}
    OBVIOUS
  <1>3. IsFiniteSet(Merged)
    BY MergedFacts
  <1>4. ASSUME NEW i \in 1 .. Cardinality(Merged)
        PROVE  list[i] \in Merged /\ Cardinality(before[list[i]]) = i - 1
    <2>1. PICK x \in Merged : Cardinality(before[x]) = i - 1
      <3> HIDE DEF before
      <3>1. QED  BY <1>1, <1>3, PlacesTaken
    <2>2. Cardinality({y \in Merged : Less(newFirst, y, x)}) = i - 1
      BY <1>2, <2>1
    <2>3. /\ HitAt(newFirst, i) \in Merged
          /\ Cardinality({y \in Merged : Less(newFirst, y, HitAt(newFirst, i))}) = i - 1
      BY <2>2, Zenon DEF HitAt
    <2>4. list[i] = HitAt(newFirst, i)
      BY DEF AllHits
    <2> HIDE DEF before, list
    <2>5. QED  BY <1>2, <2>3, <2>4
  <1>5. list = [i \in 1 .. Cardinality(Merged) |-> list[i]]
    BY DEF AllHits
  <1> HIDE DEF before, list
  <1>6. InPlaces(Merged, before, list)
    BY <1>4, <1>5 DEF InPlaces
  <1>7. Listing(Merged, before, list)
    BY <1>1, <1>3, <1>6, Sorted
  <1>8. /\ list \in Seq(Merged) /\ Len(list) = Cardinality(Merged)
        /\ \A x \in Merged : \E i \in 1 .. Len(list) : list[i] = x
        /\ \A i, j \in 1 .. Len(list) : list[i] \in before[list[j]] <=> i < j
    BY <1>7 DEF Listing
  <1>9. ASSUME NEW i \in 1 .. Len(list), NEW j \in 1 .. Len(list)
        PROVE  /\ list[i] = list[j] => i = j
               /\ Exceeds(list[i].score, list[j].score) => i < j
    <2>1. /\ list[i] \in Merged /\ Cardinality(before[list[i]]) = i - 1
          /\ list[j] \in Merged /\ Cardinality(before[list[j]]) = j - 1
      BY <1>4, <1>8
    <2>2. list[i] = list[j] => i = j
      BY <2>1
    <2>3. Exceeds(list[i].score, list[j].score) => list[i] \in before[list[j]]
      BY <1>2, <2>1 DEF Less
    <2>4. QED  BY <1>8, <2>2, <2>3
  <1>10. QED  BY <1>8, <1>9 DEF list

\* The lists of a search in its last steps
LEMMA ListsAreRead ==
  ASSUME DefaultsInv, SearchInv, pc \in {"fuse", "done"}
  PROVE  ListsRead
  BY DEF DefaultsInv, ConfigSound, SearchInv, KeywordsOK, VectorsOK, ListOK, ListsRead,
         Searching

\* The fusion
LEMMA FuseKeeps ==
  ASSUME DefaultsInv, SearchInv, Fuse
  PROVE  SearchInv'
  <1>1. /\ pc = "fuse" /\ pc' = "done"
        /\ UNCHANGED <<cfg, store, request, began, keywordHits, vectorHits, exact, stats>>
    BY DEF Fuse
  <1>2. StoreOK /\ RequestOK /\ KeywordsOK /\ VectorsOK /\ StatsOK
    BY DEF SearchInv
  <1>3. ListsRead
    BY <1>1, ListsAreRead
  <1>4. request.limit \in Nat
    BY <1>1, <1>2 DEF RequestOK, Searching
  <1>5. PICK newFirst \in SUBSET Tied : hits' = AtMost(request.limit, AllHits(newFirst))
    BY DEF Fuse, InOrder, AllHits, HitAt
  <1> DEFINE all == AllHits(newFirst)
  <1>6. /\ all \in Seq(Merged)
        /\ Len(all) = Cardinality(Merged)
        /\ \A x \in Merged : \E i \in 1 .. Len(all) : all[i] = x
        /\ \A i, j \in 1 .. Len(all) :
             /\ all[i] = all[j] => i = j
             /\ Exceeds(all[i].score, all[j].score) => i < j
    BY <1>3, HitsSorted
  <1>7. hits' = AtMost(request.limit, all)
    BY <1>5
  <1> HIDE DEF all
  <1>8. /\ hits' \in Seq(Merged)
        /\ Len(hits') = IF Len(all) <= request.limit THEN Len(all) ELSE request.limit
        /\ \A i \in 1 .. Len(hits') : hits'[i] = all[i]
    BY <1>4, <1>6, <1>7, FirstOnes
  <1>9. Len(all) \in Nat /\ Len(hits') \in Nat /\ Len(hits') <= Len(all)
    BY <1>4, <1>6, <1>8
  <1>10. ASSUME NEW i \in 1 .. Len(hits'), NEW j \in 1 .. Len(hits'), hits'[i] = hits'[j]
         PROVE  i = j
    <2>1. i \in 1 .. Len(all) /\ j \in 1 .. Len(all)
      BY <1>9
    <2>2. QED  BY <1>6, <1>8, <1>10, <2>1
  <1>11. ASSUME NEW x \in Merged, NEW i \in 1 .. Len(hits'),
                Exceeds(x.score, hits'[i].score)
         PROVE  \E j \in 1 .. i - 1 : hits'[j] = x
    <2>1. i \in 1 .. Len(all) /\ hits'[i] = all[i]
      BY <1>8, <1>9
    <2>2. PICK j \in 1 .. Len(all) : all[j] = x
      BY <1>6
    <2>3. j < i
      BY <1>6, <1>11, <2>1, <2>2
    <2>4. j \in 1 .. i - 1 /\ j \in 1 .. Len(hits')
      BY <1>9, <2>3
    <2>5. QED  BY <1>8, <2>2, <2>4
  <1>12. Merged' = Merged
    BY <1>1 DEF Merged, RowsOf, MergedHit, RankOf, Plus, Fraction, ReciprocalRank
  <1>13. FusedOK'
    BY <1>1, <1>6, <1>8, <1>10, <1>11, <1>12 DEF FusedOK, Exceeds
  <1>14. KeywordsOK'
    BY <1>1, <1>2, KeywordsKept DEF Searching
  <1>15. VectorsOK'
    <2>1. ListStays(vectorHits, request.query.similarity, exact)
      BY <1>1, <1>2, ListKept DEF VectorsOK, Searching
    <2>2. ListOK(vectorHits, request.query.similarity, exact)'
      BY <1>1, <2>1 DEF ListStays, ListOK, ChunkOf, Better, Ahead, Wanted, Untouched
    <2>3. \A i \in 1 .. Len(keywordHits), j \in 1 .. Len(vectorHits) :
            SameOrNewer(keywordHits[i], vectorHits[j])'
      BY <1>1, <1>2 DEF VectorsOK, Searching, SameOrNewer, ChunkOf, Untouched, store
    <2>4. ChunksIn(request.collection)' = ChunksIn(request.collection)
      BY <1>1 DEF ChunksIn, store
    <2>5. QED  BY <1>1, <1>2, <2>2, <2>3, <2>4 DEF VectorsOK, Searching, store
  <1>16. RequestOK'
    BY <1>1, <1>2 DEF RequestOK, Searching, store
  <1>17. StoreOK' /\ StatsOK'
    BY <1>1, <1>2, StoreKept, StatsKept DEF Searching
  <1>18. QED  BY <1>13, <1>14, <1>15, <1>16, <1>17 DEF SearchInv

\* Steps that read nothing
LEMMA OtherStepsKeep ==
  ASSUME SearchInv, SearchQueryVector \/ SearchFails \/ Return \/ UNCHANGED vars
  PROVE  SearchInv'
  <1>1. StoreOK /\ RequestOK /\ KeywordsOK /\ VectorsOK /\ StatsOK /\ FusedOK
    BY DEF SearchInv
  <1>2. CASE SearchQueryVector
    <2>1. /\ pc = "embed" /\ pc' = "vector"
          /\ UNCHANGED <<cfg, store, request, began, keywordHits, vectorHits, exact, hits, stats>>
      BY <1>2 DEF SearchQueryVector
    <2>2. vectorHits' = <<>> /\ exact' = FALSE
      BY <1>1, <2>1 DEF VectorsOK
    <2>3. VectorsOK'
      BY <2>2 DEF VectorsOK, ListOK
    <2>4. KeywordsOK'
      BY <1>1, <2>1, KeywordsKept DEF Searching
    <2>5. RequestOK'
      BY <1>1, <2>1 DEF RequestOK, Searching, store
    <2>6. StoreOK' /\ StatsOK' /\ FusedOK'
      BY <1>1, <2>1, StoreKept, StatsKept DEF Searching, FusedOK
    <2>7. QED  BY <2>3, <2>4, <2>5, <2>6 DEF SearchInv
  <1>3. CASE SearchFails
    <2>1. /\ pc' = "failed"
          /\ UNCHANGED <<cfg, store, request, began, keywordHits, vectorHits, exact, hits, stats>>
      BY <1>3 DEF SearchFails
    <2>2. RequestOK' /\ KeywordsOK' /\ VectorsOK' /\ FusedOK'
      BY <2>1 DEF RequestOK, KeywordsOK, VectorsOK, FusedOK, Searching
    <2>3. StoreOK' /\ StatsOK'
      BY <1>1, <2>1, StoreKept, StatsKept DEF Searching
    <2>4. QED  BY <2>2, <2>3 DEF SearchInv
  <1>4. CASE Return
    <2>1. /\ pc' = "idle" /\ UNCHANGED <<cfg, store, stats>>
          /\ keywordHits' = <<>> /\ vectorHits' = <<>> /\ exact' = FALSE
      BY <1>4 DEF Return
    <2>2. RequestOK' /\ KeywordsOK' /\ VectorsOK' /\ FusedOK'
      BY <2>1 DEF RequestOK, KeywordsOK, VectorsOK, FusedOK, Searching
    <2>3. StoreOK'
      BY <1>1, <2>1, StoreKept
    <2>4. StatsOK'
      BY <1>1, <2>1 DEF StatsOK, store, ChunksIn, Searching
    <2>5. QED  BY <2>2, <2>3, <2>4 DEF SearchInv
  <1>5. CASE UNCHANGED vars
    <2>1. /\ UNCHANGED <<pc, cfg, store, request, began, keywordHits, vectorHits, exact, hits,
                         stats>>
      BY <1>5 DEF vars, store
    <2>2. StoreOK' /\ StatsOK'
      BY <1>1, <2>1, StoreKept, StatsKept
    <2>3. RequestOK'
      BY <1>1, <2>1 DEF RequestOK, store
    <2>4. KeywordsOK'
      BY <1>1, <2>1 DEF KeywordsOK, store, ListOK, Wanted, Untouched, ChunkOf, Better, Ahead,
                        Relevance, SameOrNewer
    <2>5. VectorsOK'
      BY <1>1, <2>1 DEF VectorsOK, store, ListOK, Wanted, Untouched, ChunkOf, Better, Ahead,
                        SameOrNewer, ChunksIn
    <2>6. FusedOK'
      <3>1. Merged' = Merged
        BY <2>1 DEF Merged, RowsOf, MergedHit, RankOf, Plus, Fraction, ReciprocalRank
      <3>2. QED  BY <1>1, <2>1, <3>1 DEF FusedOK, Exceeds
    <2>7. QED  BY <2>2, <2>3, <2>4, <2>5, <2>6 DEF SearchInv
  <1>6. QED  BY <1>2, <1>3, <1>4, <1>5

\* CollectionStats counts the rows that are there.
LEMMA StatsKeeps ==
  ASSUME SearchInv, NEW asked, CollectionStats(asked)
  PROVE  SearchInv'
  <1> DEFINE collection == ResolveCollection(asked)
  <1>1. /\ pc = "idle" /\ pc' = "idle"
        /\ stats' = [collection |-> collection, at |-> writes,
                     documentCount |-> Cardinality({row.document : row \in ChunksIn(collection)}),
                     chunkCount |-> Cardinality(ChunksIn(collection))]
        /\ UNCHANGED <<cfg, store, request, began, keywordHits, vectorHits, exact, hits>>
    BY DEF CollectionStats
  <1> HIDE DEF collection
  <1>2. StoreOK /\ KeywordsOK /\ VectorsOK
    BY DEF SearchInv
  <1>3. StoreOK'
    BY <1>1, <1>2, StoreKept
  <1>4. StatsOK'
    <2>1. /\ stats'.at = writes /\ stats'.collection = collection
          /\ stats'.documentCount = Cardinality({row.document : row \in ChunksIn(collection)})
          /\ stats'.chunkCount = Cardinality(ChunksIn(collection))
      BY <1>1
    <2>2. ChunksIn(stats.collection)' = ChunksIn(collection)
      BY <1>1, <2>1 DEF ChunksIn, store
    <2>3. writes \in Nat /\ writes' = writes
      BY <1>1, <1>2 DEF StoreOK, store
    <2>4. QED  BY <1>1, <2>1, <2>2, <2>3 DEF StatsOK, Searching
  <1>5. RequestOK' /\ KeywordsOK' /\ VectorsOK' /\ FusedOK'
    BY <1>1, <1>2 DEF RequestOK, KeywordsOK, VectorsOK, FusedOK, Searching
  <1>6. QED  BY <1>3, <1>4, <1>5 DEF SearchInv

\* The invariant of a search holds in every state.
LEMMA SearchInvariant == Spec => [](DefaultsInv /\ SearchInv)
  <1>1. Init => SearchInv
    <2> SUFFICES ASSUME Init PROVE SearchInv
      OBVIOUS
    <2>1. rows \in Seeds /\ nextID = FirstID /\ pc = "off"
      BY DEF Init
    <2>2. StoreOK
      BY <2>1, SearchAssumption, SeedAssumption DEF Init, StoreOK, ChunkOf, SearchAssumption
    <2>3. RequestOK /\ KeywordsOK /\ VectorsOK /\ StatsOK /\ FusedOK
      BY DEF Init, RequestOK, KeywordsOK, VectorsOK, StatsOK, FusedOK, Searching
    <2>4. QED  BY <2>2, <2>3 DEF SearchInv
  <1>2. DefaultsInv /\ SearchInv /\ [Next]_vars => SearchInv'
    <2> SUFFICES ASSUME DefaultsInv, SearchInv, [Next]_vars PROVE SearchInv'
      OBVIOUS
    <2>1. CASE New
      BY <2>1, NewKeepsSearch
    <2>2. ASSUME NEW req \in Requests, SearchDetailed(req)  PROVE SearchInv'
      BY <2>2, SearchDetailedKeepsSearch
    <2>3. CASE SearchKeyword
      BY <2>3, SearchKeywordKeeps
    <2>4. CASE SearchVector
      BY <2>4, SearchVectorKeeps
    <2>5. CASE Fuse
      BY <2>5, FuseKeeps
    <2>6. CASE SearchQueryVector \/ SearchFails \/ Return \/ UNCHANGED vars
      BY <2>6, OtherStepsKeep
    <2>7. ASSUME NEW asked \in Collections \cup {Blank}, CollectionStats(asked)
          PROVE  SearchInv'
      BY <2>7, StatsKeeps
    <2>8. ASSUME NEW d \in Documents, NEW content \in Contents, NEW meta \in Metas,
                 ReplaceDocumentChunks(d, content, meta)
          PROVE  SearchInv'
      BY <2>8, ReplaceCommits, CommitKeeps DEF ReplaceDocumentChunks, SearchInv
    <2>9. ASSUME NEW d \in Documents, NEW meta \in Metas, RefreshDocumentMetadata(d, meta)
          PROVE  SearchInv'
      BY <2>9, RefreshCommits, CommitKeeps DEF RefreshDocumentMetadata, SearchInv
    <2>10. ASSUME NEW d \in Documents, DeleteDocument(d)  PROVE SearchInv'
      BY <2>10, DeleteCommits, CommitKeeps DEF DeleteDocument
    <2>11. CASE Terminated
      BY <2>6, <2>11 DEF Terminated
    <2>12. QED
      BY <2>1, <2>2, <2>3, <2>4, <2>5, <2>6, <2>7, <2>8, <2>9, <2>10, <2>11 DEF Next
  <1>3. QED  BY <1>1, <1>2, DefaultsInvariant, PTL DEF Spec

-----------------------------------------------------------------------------
(***************************************************************************)
(* The answer.                                                             *)
(***************************************************************************)

\* What the invariant says of a search that has its hits
LEMMA AnswerFacts ==
  ASSUME DefaultsInv, SearchInv, pc = "done"
  PROVE  /\ StoreOK /\ RequestOK /\ ListsRead
         /\ ListOK(keywordHits, request.query.relevance, TRUE)
         /\ \A i \in 1 .. Len(keywordHits) : Relevance(keywordHits[i]) > 0
         /\ \A i \in 1 .. Len(keywordHits), row \in rows : SameOrNewer(keywordHits[i], row)
         /\ ListOK(vectorHits, request.query.similarity, exact)
         /\ \A i \in 1 .. Len(keywordHits), j \in 1 .. Len(vectorHits) :
              SameOrNewer(keywordHits[i], vectorHits[j])
         /\ request.mode = "vector" => keywordHits = <<>>
         /\ request.mode = "keyword" => vectorHits = <<>>
         /\ \A i \in 1 .. Len(hits) : hits[i] \in Merged /\ HitOK(hits[i])
  <1>1. ListsRead
    BY ListsAreRead
  <1>2. hits \in Seq(Merged)
    BY DEF SearchInv, FusedOK
  <1>3. \A i \in 1 .. Len(hits) : hits[i] \in Merged /\ HitOK(hits[i])
    BY <1>1, <1>2, MergedFacts
  <1>4. QED
    BY <1>1, <1>3 DEF SearchInv, KeywordsOK, VectorsOK, Searching

\* A hit is wanted, and one of a document that nobody touched is stored.
LEMMA HitIsStored ==
  ASSUME DefaultsInv, SearchInv, pc = "done", NEW i \in 1 .. Len(hits)
  PROVE  /\ Wanted(hits[i].row)
         /\ Untouched(hits[i].row) => hits[i].row \in rows
  <1> DEFINE k == RankOf(hits[i].row.id, keywordHits)
             v == RankOf(hits[i].row.id, vectorHits)
  <1>1. /\ k \in Nat /\ k <= Len(keywordHits) /\ v \in Nat /\ v <= Len(vectorHits)
        /\ k > 0 => hits[i].row = keywordHits[k]
        /\ k = 0 => v > 0 /\ hits[i].row = vectorHits[v]
    BY AnswerFacts DEF HitOK
  <1>2. /\ ListOK(keywordHits, request.query.relevance, TRUE)
        /\ ListOK(vectorHits, request.query.similarity, exact)
    BY AnswerFacts
  <1> HIDE DEF k, v
  <1>3. CASE k > 0
    BY <1>1, <1>2, <1>3 DEF ListOK
  <1>4. CASE k = 0
    BY <1>1, <1>2, <1>4 DEF ListOK
  <1>5. QED  BY <1>1, <1>3, <1>4

\* Two hits of one chunk are an older row that only the first list has, and
\* a newer one that only the second has.
LEMMA TwiceOnlyRebuilt ==
  ASSUME DefaultsInv, SearchInv, pc = "done",
         NEW i \in 1 .. Len(hits), NEW j \in 1 .. Len(hits), i # j,
         ChunkOf(hits[i].row) = ChunkOf(hits[j].row),
         RankOf(hits[i].row.id, keywordHits) > 0
  PROVE  /\ request.mode = "hybrid" /\ ~Untouched(hits[i].row)
         /\ hits[i].row.id < hits[j].row.id
         /\ RankOf(hits[i].row.id, vectorHits) = 0
         /\ RankOf(hits[j].row.id, keywordHits) = 0
  <1> DEFINE x == hits[i].row
             y == hits[j].row
             kx == RankOf(x.id, keywordHits)
             vx == RankOf(x.id, vectorHits)
             ky == RankOf(y.id, keywordHits)
             vy == RankOf(y.id, vectorHits)
  <1>1. /\ StoreOK /\ RequestOK /\ ListsRead
        /\ ListOK(keywordHits, request.query.relevance, TRUE)
        /\ ListOK(vectorHits, request.query.similarity, exact)
        /\ \A a \in 1 .. Len(keywordHits), b \in 1 .. Len(vectorHits) :
             SameOrNewer(keywordHits[a], vectorHits[b])
        /\ request.mode = "vector" => keywordHits = <<>>
        /\ request.mode = "keyword" => vectorHits = <<>>
        /\ hits[i] \in Merged /\ HitOK(hits[i])
        /\ hits[j] \in Merged /\ HitOK(hits[j])
    BY AnswerFacts
  <1>2. /\ kx \in Nat /\ kx <= Len(keywordHits) /\ vx \in Nat /\ vx <= Len(vectorHits)
        /\ kx > 0 => x = keywordHits[kx]
        /\ x \in Rows
    BY <1>1 DEF HitOK
  <1>3. /\ ky \in Nat /\ ky <= Len(keywordHits) /\ vy \in Nat /\ vy <= Len(vectorHits)
        /\ ky > 0 => y = keywordHits[ky]
        /\ ky = 0 => vy > 0 /\ y = vectorHits[vy]
        /\ y \in Rows
    BY <1>1 DEF HitOK
  <1>4. vx > 0 => vectorHits[vx].id = x.id
    BY <1>1, RankFacts DEF ListsRead
  <1>5. x.id # y.id
    <2>1. hits[i] # hits[j]
      BY DEF SearchInv, FusedOK
    <2>2. QED  BY <1>1, <2>1, MergedFacts
  <1>6. kx > 0 /\ ChunkOf(x) = ChunkOf(y)
    OBVIOUS
  <1> HIDE DEF x, y, kx, vx, ky, vy
  <1>7. ky = 0
    <2> SUFFICES ASSUME ky > 0 PROVE FALSE
      BY <1>3
    <2>1. kx \in 1 .. Len(keywordHits) /\ ky \in 1 .. Len(keywordHits)
      BY <1>2, <1>3, <1>6
    <2>2. ChunkOf(keywordHits[kx]) = ChunkOf(keywordHits[ky])
      BY <1>2, <1>3, <1>6
    <2>3. kx = ky
      BY <1>1, <2>1, <2>2 DEF ListOK
    <2>4. QED  BY <1>2, <1>3, <1>5, <1>6, <2>3
  <1>8. /\ kx \in 1 .. Len(keywordHits) /\ vy \in 1 .. Len(vectorHits)
        /\ x = keywordHits[kx] /\ y = vectorHits[vy]
    BY <1>2, <1>3, <1>6, <1>7
  <1>9. x.id < y.id /\ ~Untouched(x)
    <2>1. SameOrNewer(x, y)
      BY <1>1, <1>8
    <2>2. QED  BY <1>5, <1>6, <2>1 DEF SameOrNewer
  <1>10. vx = 0
    <2> SUFFICES ASSUME vx > 0 PROVE FALSE
      BY <1>2
    <2>1. vx \in 1 .. Len(vectorHits) /\ vectorHits[vx].id = x.id
      BY <1>2, <1>4
    <2>2. ChunkOf(vectorHits[vx]) = ChunkOf(x)
      BY <1>1, <1>8, <2>1 DEF SameOrNewer
    <2>3. vx = vy
      BY <1>1, <1>6, <1>8, <2>1, <2>2 DEF ListOK
    <2>4. QED  BY <1>5, <1>8, <2>1, <2>3
  <1>11. request.mode = "hybrid"
    <2>1. request.mode \in {"hybrid", "keyword", "vector"}
      BY <1>1 DEF RequestOK, Searching, Modes
    <2>2. keywordHits # <<>> /\ vectorHits # <<>>
      BY <1>8
    <2>3. QED  BY <1>1, <2>1, <2>2
  <1>12. QED  BY <1>7, <1>9, <1>10, <1>11 DEF x, y, vx, ky

\* The hits are what was asked for and as it is stored; a chunk comes twice
\* only if its document was rebuilt between the statements of a hybrid search
\* (store.go, SearchDetailed, searchKeywordHits, searchVectorHits, mergeSearchHits).
THEOREM HitsAreCurrent == Spec => []HitsCurrent
  <1>1. DefaultsInv /\ SearchInv => HitsCurrent
    <2> SUFFICES ASSUME DefaultsInv, SearchInv, pc = "done"
                 PROVE  HitsCurrent
      BY DEF HitsCurrent
    <2>1. Len(hits) <= request.limit
      <3>1. Cardinality(Merged) \in Nat
        BY AnswerFacts, MergedFacts, FS_CardinalityType
      <3>2. request.limit \in Nat
        BY DEF SearchInv, RequestOK, Searching
      <3>3. QED  BY <3>1, <3>2 DEF SearchInv, FusedOK
    <2>2. ASSUME NEW i \in 1 .. Len(hits)
          PROVE  /\ Wanted(hits[i].row)
                 /\ Untouched(hits[i].row) => hits[i].row \in rows
      BY HitIsStored
    <2>3. ASSUME NEW i \in 1 .. Len(hits), NEW j \in 1 .. Len(hits), i # j,
                 ChunkOf(hits[i].row) = ChunkOf(hits[j].row)
          PROVE  /\ request.mode = "hybrid" /\ ~Untouched(hits[i].row)
                 /\ \E old, new \in {i, j} :
                      /\ hits[old].row.id < hits[new].row.id
                      /\ RankOf(hits[old].row.id, vectorHits) = 0
                      /\ RankOf(hits[new].row.id, keywordHits) = 0
      <3>1. CASE RankOf(hits[i].row.id, keywordHits) > 0
        BY <2>3, <3>1, TwiceOnlyRebuilt
      <3>2. CASE RankOf(hits[j].row.id, keywordHits) > 0
        <4>1. /\ request.mode = "hybrid" /\ ~Untouched(hits[j].row)
              /\ hits[j].row.id < hits[i].row.id
              /\ RankOf(hits[j].row.id, vectorHits) = 0
              /\ RankOf(hits[i].row.id, keywordHits) = 0
          BY <2>3, <3>2, TwiceOnlyRebuilt
        <4>2. ~Untouched(hits[i].row)
          BY <2>3, <4>1 DEF Untouched, ChunkOf
        <4>3. QED  BY <4>1, <4>2
      <3>3. CASE /\ ~(RankOf(hits[i].row.id, keywordHits) > 0)
                 /\ ~(RankOf(hits[j].row.id, keywordHits) > 0)
        <4> DEFINE vi == RankOf(hits[i].row.id, vectorHits)
                   vj == RankOf(hits[j].row.id, vectorHits)
        <4>1. /\ vi \in Nat /\ vi <= Len(vectorHits) /\ vi > 0
              /\ hits[i].row = vectorHits[vi]
              /\ vj \in Nat /\ vj <= Len(vectorHits) /\ vj > 0
              /\ hits[j].row = vectorHits[vj]
          BY <3>3, AnswerFacts DEF HitOK
        <4> HIDE DEF vi, vj
        <4>2. vi \in 1 .. Len(vectorHits) /\ vj \in 1 .. Len(vectorHits)
          BY <4>1
        <4>3. vi = vj
          BY <2>3, <4>1, <4>2, AnswerFacts DEF ListOK
        <4>4. hits[i].row.id = hits[j].row.id
          BY <4>1, <4>3
        <4>5. hits[i] = hits[j]
          BY <4>4, AnswerFacts, MergedFacts
        <4>6. QED  BY <2>3, <4>5 DEF SearchInv, FusedOK
      <3>4. QED  BY <3>1, <3>2, <3>3
    <2>4. QED  BY <2>1, <2>2, <2>3 DEF HitsCurrent
  <1>2. QED  BY <1>1, SearchInvariant, PTL

\* A row that nobody touched and that ranks before a hit in every list of the
\* mode has a hit with a larger score.
LEMMA BetterScoresMore ==
  ASSUME DefaultsInv, SearchInv, pc = "done",
         NEW i \in 1 .. Len(hits), NEW row \in rows,
         Wanted(row), Untouched(row), Untouched(hits[i].row),
         request.mode # "vector" => AheadInKeyword(row, hits[i].row),
         request.mode # "keyword" => AheadInVector(row, hits[i].row) /\ NotMissed(row)
  PROVE  /\ MergedHit(row.id) \in Merged /\ MergedHit(row.id).row = row
         /\ Exceeds(MergedHit(row.id).score, hits[i].score)
  <1> DEFINE h == hits[i].row
             kh == RankOf(h.id, keywordHits)
             vh == RankOf(h.id, vectorHits)
             kr == RankOf(row.id, keywordHits)
             vr == RankOf(row.id, vectorHits)
             r == MergedHit(row.id)
  <1>1. /\ StoreOK /\ RequestOK /\ ListsRead
        /\ ListOK(keywordHits, request.query.relevance, TRUE)
        /\ ListOK(vectorHits, request.query.similarity, exact)
        /\ request.mode = "vector" => keywordHits = <<>>
        /\ request.mode = "keyword" => vectorHits = <<>>
        /\ hits[i] \in Merged /\ HitOK(hits[i])
    BY AnswerFacts
  <1>2. /\ kh \in Nat /\ kh <= Len(keywordHits) /\ vh \in Nat /\ vh <= Len(vectorHits)
        /\ kh > 0 => h = keywordHits[kh]
        /\ kh = 0 => vh > 0 /\ h = vectorHits[vh]
        /\ h \in Rows
        /\ hits[i].score = Plus(ReciprocalRank(kh), ReciprocalRank(vh))
    BY <1>1 DEF HitOK
  <1>3. /\ kr \in Nat /\ kr <= Len(keywordHits)
        /\ kr > 0 => keywordHits[kr].id = row.id
        /\ \A a \in 1 .. Len(keywordHits) : keywordHits[a].id = row.id => kr = a
    BY <1>1, RankFacts DEF ListsRead
  <1>4. /\ vr \in Nat /\ vr <= Len(vectorHits)
        /\ vr > 0 => vectorHits[vr].id = row.id
        /\ \A a \in 1 .. Len(vectorHits) : vectorHits[a].id = row.id => vr = a
    BY <1>1, RankFacts DEF ListsRead
  <1>5. vh > 0 => vectorHits[vh].id = h.id
    BY <1>1, RankFacts DEF ListsRead
  <1>6. h \in rows
    BY HitIsStored
  <1>7. /\ Wanted(row) /\ Untouched(row) /\ Untouched(h)
        /\ request.mode # "vector" => AheadInKeyword(row, h)
        /\ request.mode # "keyword" => AheadInVector(row, h)
        /\ request.mode # "keyword" => exact \/ vr > 0
    BY DEF NotMissed
  <1> HIDE DEF h, kh, vh, kr, vr
  <1>8. ASSUME kh > 0 PROVE kr > 0 /\ kr < kh
    <2>1. kh \in 1 .. Len(keywordHits) /\ h = keywordHits[kh]
      BY <1>2, <1>8
    <2>2. request.mode # "vector"
      BY <1>1, <2>1
    <2>3. Relevance(h) > 0
      BY <2>1, AnswerFacts
    <2>4. Better(request.query.relevance, row, keywordHits[kh])
      BY <1>7, <2>1, <2>2, <2>3 DEF AheadInKeyword, Relevance, Better
    <2>5. PICK j \in 1 .. kh - 1 : keywordHits[j] = row
      BY <1>1, <1>7, <2>1, <2>4 DEF ListOK
    <2>6. j \in 1 .. Len(keywordHits) /\ kr = j
      BY <1>2, <1>3, <2>5
    <2>7. QED  BY <1>2, <2>5, <2>6
  <1>9. ASSUME vh > 0 PROVE vr > 0 /\ vr < vh /\ vectorHits[vr] = row
    <2>1. vh \in 1 .. Len(vectorHits) /\ vectorHits[vh].id = h.id
      BY <1>2, <1>5, <1>9
    <2>2. request.mode # "keyword"
      BY <1>1, <2>1
    <2>3. vectorHits[vh] = h
      <3>1. CASE kh = 0
        BY <1>2, <3>1
      <3>2. CASE kh > 0
        <4>1. kh \in 1 .. Len(keywordHits) /\ h = keywordHits[kh]
          BY <1>2, <3>2
        <4>2. SameOrNewer(h, vectorHits[vh])
          BY <2>1, <4>1, AnswerFacts
        <4>3. Untouched(vectorHits[vh])
          BY <1>7, <2>1, <4>2 DEF SameOrNewer, ChunkOf, Untouched
        <4>4. vectorHits[vh] \in rows
          BY <1>1, <2>1, <4>3 DEF ListOK
        <4>5. QED  BY <1>1, <1>6, <2>1, <4>4 DEF StoreOK
      <3>3. QED  BY <1>2, <3>1, <3>2
    <2>4. Better(request.query.similarity, row, vectorHits[vh])
      BY <1>7, <2>2, <2>3 DEF AheadInVector, Similarity, Better
    <2>5. exact \/ \E j \in 1 .. Len(vectorHits) : vectorHits[j].id = row.id
      BY <1>4, <1>7, <2>2
    <2>6. PICK j \in 1 .. vh - 1 : vectorHits[j] = row
      BY <1>1, <1>7, <2>1, <2>4, <2>5 DEF ListOK
    <2>7. j \in 1 .. Len(vectorHits) /\ vr = j
      BY <1>2, <1>4, <2>6
    <2>8. QED  BY <1>2, <2>6, <2>7
  <1>10. \/ \E a \in 1 .. Len(keywordHits) : keywordHits[a].id = row.id
         \/ \E a \in 1 .. Len(vectorHits) : vectorHits[a].id = row.id
    <2>1. kr > 0 => kr \in 1 .. Len(keywordHits) /\ keywordHits[kr].id = row.id
      BY <1>3
    <2>2. vr > 0 => vr \in 1 .. Len(vectorHits) /\ vectorHits[vr].id = row.id
      BY <1>4
    <2>3. kr > 0 \/ vr > 0
      BY <1>2, <1>8, <1>9
    <2>4. QED  BY <2>1, <2>2, <2>3
  <1>11. HitOK(r) /\ r.row.id = row.id /\ r \in Merged
    <2>1. HitOK(r) /\ r.row.id = row.id
      BY <1>1, <1>10, HitOfID
    <2>2. r \in Merged
      BY <1>1, <1>10, MergedFacts
    <2>3. QED  BY <2>1, <2>2
  <1> HIDE DEF r
  <1>12. /\ kr > 0 => r.row = keywordHits[kr]
         /\ kr = 0 => vr > 0 /\ r.row = vectorHits[vr]
         /\ r.score = Plus(ReciprocalRank(kr), ReciprocalRank(vr))
    BY <1>11 DEF HitOK, kr, vr
  <1>13. r.row = row
    <2>1. CASE kr > 0
      <3>1. kr \in 1 .. Len(keywordHits) /\ r.row = keywordHits[kr]
        BY <1>3, <1>12, <2>1
      <3>2. SameOrNewer(r.row, row)
        BY <3>1, AnswerFacts
      <3>3. Untouched(r.row)
        BY <1>7, <1>11, <3>2 DEF SameOrNewer, ChunkOf, Untouched
      <3>4. r.row \in rows
        BY <1>1, <3>1, <3>3 DEF ListOK
      <3>5. QED  BY <1>1, <1>11, <3>4 DEF StoreOK
    <2>2. CASE kr = 0
      BY <1>2, <1>8, <1>9, <1>12, <2>2
    <2>3. QED  BY <1>3, <2>1, <2>2
  <1>14. Exceeds(r.score, hits[i].score)
    <2> DEFINE p == ReciprocalRank(kr)
               q == ReciprocalRank(vr)
               s == ReciprocalRank(kh)
               t == ReciprocalRank(vh)
    <2>1. /\ p \in Fractions /\ q \in Fractions /\ s \in Fractions /\ t \in Fractions
          /\ RankBefore(kr, kh) => Exceeds(p, s)
          /\ RankBefore(kr, kh) \/ kr = kh => ~Exceeds(s, p)
          /\ RankBefore(vr, vh) => Exceeds(q, t)
          /\ RankBefore(vr, vh) \/ vr = vh => ~Exceeds(t, q)
      BY <1>1, <1>2, <1>3, <1>4, ShareOfRank DEF ListsRead
    <2> HIDE DEF p, q, s, t
    <2>2. CASE kh > 0
      <3>1. Exceeds(p, s) /\ ~Exceeds(t, q)
        BY <1>2, <1>4, <1>8, <1>9, <2>1, <2>2 DEF RankBefore
      <3>2. Exceeds(Plus(p, q), Plus(s, t))
        BY <2>1, <3>1, SumExceeds
      <3>3. QED  BY <1>2, <1>12, <3>2 DEF p, q, s, t
    <2>3. CASE kh = 0
      <3>1. Exceeds(q, t) /\ ~Exceeds(s, p)
        BY <1>2, <1>3, <1>9, <2>1, <2>3 DEF RankBefore
      <3>2. Exceeds(Plus(p, q), Plus(s, t))
        BY <2>1, <3>1, SumExceeds
      <3>3. QED  BY <1>2, <1>12, <3>2 DEF p, q, s, t
    <2>4. QED  BY <1>2, <2>2, <2>3
  <1>15. QED  BY <1>11, <1>13, <1>14 DEF r

\* Whatever other calls write meanwhile, a row that nobody touched and that ranks
\* before a hit in every list of the mode is a hit before that one: the limits of the
\* statements, the fusion, its sort and the limit of the request drop only
\* the worst (store.go, SearchDetailed, mergeSearchHits).
THEOREM BetterIsFirst == Spec => []BetterComesFirst
  <1>1. DefaultsInv /\ SearchInv => BetterComesFirst
    <2> SUFFICES ASSUME DefaultsInv, SearchInv, pc = "done",
                        NEW i \in 1 .. Len(hits), NEW row \in rows,
                        Wanted(row), Untouched(row), Untouched(hits[i].row),
                        request.mode # "vector" => AheadInKeyword(row, hits[i].row),
                        request.mode # "keyword" =>
                          AheadInVector(row, hits[i].row) /\ NotMissed(row)
                 PROVE  \E j \in 1 .. i - 1 : hits[j].row = row
      BY DEF BetterComesFirst
    <2>1. /\ MergedHit(row.id) \in Merged /\ MergedHit(row.id).row = row
          /\ Exceeds(MergedHit(row.id).score, hits[i].score)
      BY BetterScoresMore
    <2>2. \E j \in 1 .. i - 1 : hits[j] = MergedHit(row.id)
      BY <2>1 DEF SearchInv, FusedOK
    <2>3. QED  BY <2>1, <2>2
  <1>2. QED  BY <1>1, SearchInvariant, PTL

\* If nobody has written since the statistics, every hit is a row they counted.
LEMMA CountedHits ==
  ASSUME DefaultsInv, SearchInv, pc = "done", stats # Nothing,
         stats.at = writes, stats.collection = request.collection
  PROVE  /\ began.writes = writes
         /\ IsFiniteSet(ChunksIn(request.collection))
         /\ stats.chunkCount = Cardinality(ChunksIn(request.collection))
         /\ stats.documentCount =
              Cardinality({row.document : row \in ChunksIn(request.collection)})
         /\ \A x \in Merged : x.row \in ChunksIn(request.collection)
  <1>1. /\ StoreOK /\ RequestOK /\ StatsOK /\ ListsRead
        /\ ListOK(keywordHits, request.query.relevance, TRUE)
        /\ ListOK(vectorHits, request.query.similarity, exact)
    BY AnswerFacts DEF SearchInv
  <1>2. began.writes = writes
    BY <1>1 DEF RequestOK, StatsOK, Searching
  <1>3. /\ stats.chunkCount = Cardinality(ChunksIn(request.collection))
        /\ stats.documentCount =
             Cardinality({row.document : row \in ChunksIn(request.collection)})
    BY <1>1 DEF StatsOK
  <1>4. IsFiniteSet(ChunksIn(request.collection))
    <2>1. ChunksIn(request.collection) \in SUBSET rows
      BY DEF ChunksIn
    <2>2. QED  BY <1>1, <2>1, FS_Subset DEF StoreOK
  <1>5. \A row \in Rows : Untouched(row)
    BY <1>1, <1>2 DEF StoreOK, Untouched, Rows
  <1>6. ASSUME NEW row \in Rows, Wanted(row), Untouched(row) => row \in rows
        PROVE  row \in ChunksIn(request.collection)
    BY <1>5, <1>6 DEF Wanted, ChunksIn
  <1>7. ASSUME NEW x \in Merged PROVE x.row \in ChunksIn(request.collection)
    <2> DEFINE k == RankOf(x.row.id, keywordHits)
               v == RankOf(x.row.id, vectorHits)
    <2>1. /\ k \in Nat /\ k <= Len(keywordHits) /\ v \in Nat /\ v <= Len(vectorHits)
          /\ k > 0 => x.row = keywordHits[k]
          /\ k = 0 => v > 0 /\ x.row = vectorHits[v]
      BY <1>1, MergedFacts DEF HitOK
    <2> HIDE DEF k, v
    <2>2. CASE k > 0
      BY <1>1, <1>6, <2>1, <2>2 DEF ListOK
    <2>3. CASE k = 0
      BY <1>1, <1>6, <2>1, <2>3 DEF ListOK
    <2>4. QED  BY <2>1, <2>2, <2>3
  <1>8. QED  BY <1>2, <1>3, <1>4, <1>7

\* Until somebody writes, a search finds no more than CollectionStats has counted,
\* and one by vectors that does not depend on the index finds all of it, or as
\* much as it was asked for (store.go, CollectionStats, searchVectorHits).
THEOREM AllCountedFound == Spec => []FindsAllCounted
  <1>1. DefaultsInv /\ SearchInv => FindsAllCounted
    <2> SUFFICES ASSUME DefaultsInv, SearchInv, pc = "done", stats # Nothing,
                        stats.at = writes, stats.collection = request.collection
                 PROVE  /\ Len(hits) <= stats.chunkCount
                        /\ Cardinality({hits[i].row.document : i \in 1 .. Len(hits)})
                             <= stats.documentCount
                        /\ exact /\ request.filter = Blank =>
                             Len(hits) = IF stats.chunkCount < request.limit
                                           THEN stats.chunkCount ELSE request.limit
      BY DEF FindsAllCounted
    <2> DEFINE counted == ChunksIn(request.collection)
               documents == {row.document : row \in counted}
               n == Cardinality(Merged)
    <2>1. /\ began.writes = writes /\ IsFiniteSet(counted)
          /\ stats.chunkCount = Cardinality(counted)
          /\ stats.documentCount = Cardinality(documents)
          /\ \A x \in Merged : x.row \in counted
      BY CountedHits
    <2>2. /\ IsFiniteSet(Merged)
          /\ \A x, y \in Merged : x.row.id = y.row.id => x = y
          /\ \A i \in 1 .. Len(vectorHits) :
               MergedHit(vectorHits[i].id) \in Merged /\ MergedHit(vectorHits[i].id).row.id
                                                          = vectorHits[i].id
      BY AnswerFacts, MergedFacts, HitOfID
    <2>3. /\ hits \in Seq(Merged)
          /\ Len(hits) = IF n <= request.limit THEN n ELSE request.limit
      BY DEF SearchInv, FusedOK
    <2>4. /\ request.limit \in Nat /\ request.candidateLimit \in Nat
          /\ request.limit <= request.candidateLimit
      BY DEF SearchInv, RequestOK, Searching
    <2>5. n \in Nat /\ Cardinality(counted) \in Nat
      BY <2>1, <2>2, FS_CardinalityType
    <2>6. n <= Cardinality(counted)
      <3> DEFINE f == [x \in Merged |-> x.row]
      <3>1. f \in [Merged -> counted]
        BY <2>1
      <3>2. \A x, y \in Merged : f[x] = f[y] => x = y
        BY <2>2
      <3> HIDE DEF f, counted
      <3>3. f \in Injection(Merged, counted)
        BY <3>1, <3>2 DEF Injection, IsInjective
      <3>4. QED  BY <2>1, <3>3, FS_Injection
    <2>7. Cardinality({hits[i].row.document : i \in 1 .. Len(hits)}) <= Cardinality(documents)
      <3>1. IsFiniteSet(documents)
        <4> DEFINE f == [row \in counted |-> row.document]
        <4>1. f \in [counted -> documents] /\ \A d \in documents : \E row \in counted : f[row] = d
          OBVIOUS
        <4> HIDE DEF f, counted, documents
        <4>2. f \in Surjection(counted, documents)
          BY <4>1 DEF Surjection
        <4>3. QED  BY <2>1, <4>2, FS_Surjection
      <3>2. \A i \in 1 .. Len(hits) : hits[i].row \in counted
        BY <2>1, <2>3
      <3>3. {hits[i].row.document : i \in 1 .. Len(hits)} \in SUBSET documents
        BY <3>2
      <3> HIDE DEF documents
      <3>4. QED  BY <3>1, <3>3, FS_Subset
    <2>8. ASSUME exact, request.filter = Blank
          PROVE  /\ Len(vectorHits) = IF Cardinality(counted) <= request.candidateLimit
                                        THEN Cardinality(counted) ELSE request.candidateLimit
                 /\ Len(vectorHits) <= n
      <3>1. Len(vectorHits) = IF Cardinality(counted) <= request.candidateLimit
                                THEN Cardinality(counted) ELSE request.candidateLimit
        BY <2>1, <2>8 DEF SearchInv, VectorsOK, Searching
      <3> DEFINE f == [i \in 1 .. Len(vectorHits) |-> MergedHit(vectorHits[i].id)]
      <3>2. f \in [1 .. Len(vectorHits) -> Merged]
        BY <2>2
      <3>3. ASSUME NEW i \in 1 .. Len(vectorHits), NEW j \in 1 .. Len(vectorHits), f[i] = f[j]
            PROVE  i = j
        <4>1. vectorHits[i].id = vectorHits[j].id
          BY <2>2, <3>3
        <4>2. QED  BY <4>1, AnswerFacts DEF ListsRead
      <3> HIDE DEF f
      <3>4. f \in Injection(1 .. Len(vectorHits), Merged)
        BY <3>2, <3>3 DEF Injection, IsInjective
      <3>5. Cardinality(1 .. Len(vectorHits)) <= n
        BY <2>2, <3>4, FS_Injection
      <3>6. Len(vectorHits) \in Nat /\ Cardinality(1 .. Len(vectorHits)) = Len(vectorHits)
        <4>1. Len(vectorHits) \in Nat
          BY AnswerFacts DEF ListsRead
        <4>2. Cardinality(1 .. Len(vectorHits)) = Len(vectorHits)
          BY <4>1, FS_Interval
        <4>3. QED  BY <4>1, <4>2
      <3>7. QED  BY <3>1, <3>5, <3>6
    <2> HIDE DEF counted, documents, n
    <2>9. Len(hits) <= stats.chunkCount
      BY <2>1, <2>3, <2>4, <2>5, <2>6
    <2>10. exact /\ request.filter = Blank =>
             Len(hits) = IF stats.chunkCount < request.limit THEN stats.chunkCount
                         ELSE request.limit
      BY <2>1, <2>3, <2>4, <2>5, <2>6, <2>8
    <2>11. QED  BY <2>1, <2>7, <2>9, <2>10
  <1>2. QED  BY <1>1, SearchInvariant, PTL
====
