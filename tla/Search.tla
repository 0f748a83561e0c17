-------------------------------- MODULE Search --------------------------------
(***************************************************************************)
(* SearchDetailed and CollectionStats of a Store, and the Config that New  *)
(* accepts for it, beside calls that rewrite, refresh and delete documents *)
(* (each an atomic commit, as KnowledgeBase says).                         *)
(*                                                                         *)
(* A hybrid search is two statements on two snapshots with the embedding   *)
(* of the query in between.  A query is what it makes of each text: its    *)
(* full-text score (0: no match) and the similarity of their vectors.      *)
(* The vector index is approximate, and knows nothing of collections.      *)
(* Scores of fused hits are exact fractions; rounding makes no difference  *)
(* at ranks as small as those checked.                                     *)
(***************************************************************************)
EXTENDS Integers, Sequences, FiniteSets

CONSTANTS
  Documents,      \* document ids: numbers, because hits are ordered by them
  Collections, CollectionOf,
  Texts,          \* the contents of single chunks
  Contents,       \* the contents of documents: sequences of Texts
  Metas,
  Queries,        \* records [relevance, similarity] of functions of Texts
  RawConfigs,     \* the Configs that New is given
  Requests,       \* the requests that are made
  EfSearch,       \* as many rows does the vector index (HNSW) return
  Seeds, FirstID, \* sets of chunk rows to begin with, and the next id
  MaxWrites,      \* a bound on the commits of other calls
  Nothing, Blank, \* no value yet; an empty string, or no filter
  DefaultCollection, DefaultSearchLimit, DefaultCandidateLimit, DefaultRRFConstant

ASSUME SearchAssumption ==
  /\ Documents \subseteq Int /\ IsFiniteSet(Documents)
  /\ \A content \in Contents : content \in Seq(Texts) /\ content # <<>>
  /\ \A q \in Queries : q.relevance \in [Texts -> Nat] /\ q.similarity \in [Texts -> Nat]
  /\ RawConfigs \subseteq [searchLimit: Int, candidateLimit: Int, rrf: Int,
                           collection: Collections \cup {Blank}, sound: BOOLEAN]
  /\ Requests \subseteq [collection: Collections \cup {Blank}, query: Queries \cup {Blank},
                         limit: Int, candidateLimit: Int,
                         mode: {Blank} \cup STRING, filter: Metas \cup {Blank}]
  /\ DefaultSearchLimit \in Nat \ {0}
  /\ DefaultCandidateLimit \in Nat \ {0} /\ DefaultRRFConstant \in Nat \ {0}
  /\ EfSearch \in Nat /\ FirstID \in Nat /\ MaxWrites \in Nat

\* A row of kb_chunks.
Rows == [id: Nat, document: Documents, number: Nat, text: Texts, meta: Metas]

\* The keys of kb_chunks: an id, and the document and number of the chunk
ASSUME SeedAssumption ==
  \A seed \in Seeds :
    /\ seed \subseteq Rows /\ IsFiniteSet(seed)
    /\ \A row \in seed : row.id < FirstID
    /\ \A x, y \in seed :
         \/ x.id = y.id
         \/ x.document = y.document /\ x.number = y.number
         => x = y

Modes == {"hybrid", "keyword", "vector"}

VARIABLES
  pc,
  cfg,          \* the Config of the Store
  rows,         \* kb_chunks
  nextID,       \* the next id of a chunk row
  writes,       \* commits of other calls so far
  lastWrite,    \* (history) which of them touched each document last
  request,      \* the request, as normalised
  began,        \* (history) writes when the search was called, and the limits asked for
  keywordHits,  \* the rows of the first statement, best first
  vectorHits,   \* the rows of the second
  exact,        \* (history) the second did not use the vector index
  hits,         \* the answer
  stats         \* what CollectionStats told last, and when

vars == <<pc, cfg, rows, nextID, writes, lastWrite, request, began,
          keywordHits, vectorHits, exact, hits, stats>>

store == <<rows, nextID, writes, lastWrite>>

-----------------------------------------------------------------------------
(***************************************************************************)
(* Configuration.                                                          *)
(***************************************************************************)

OrDefault(n, default) == IF n <= 0 THEN default ELSE n

\* Config.normalized
Normalized(raw) ==
  [raw EXCEPT !.collection = IF @ = Blank THEN DefaultCollection ELSE @,
              !.searchLimit = OrDefault(@, DefaultSearchLimit),
              !.candidateLimit = OrDefault(@, DefaultCandidateLimit),
              !.rrf = OrDefault(@, DefaultRRFConstant)]

\* mutant: the limits are not compared
ValidAlone(c) == c.sound
\* Config.validate; `sound' stands for its checks of the other fields.
Valid(c) == c.sound /\ c.searchLimit <= c.candidateLimit

New ==
  /\ pc = "off"
  /\ \E raw \in RawConfigs :
       /\ cfg' = Normalized(raw)
       /\ pc' = IF Valid(Normalized(raw)) THEN "idle" ELSE "closed"
  /\ UNCHANGED <<rows, nextID, writes, lastWrite, request, began, keywordHits,
                 vectorHits, exact, hits, stats>>

-----------------------------------------------------------------------------
(***************************************************************************)
(* Requests.                                                               *)
(***************************************************************************)

ResolveCollection(collection) == IF collection = Blank THEN cfg.collection ELSE collection

NormalizeSearchRequest(req) ==
  [req EXCEPT !.collection = ResolveCollection(@),
              !.limit = OrDefault(@, cfg.searchLimit),
              !.candidateLimit = OrDefault(@, cfg.candidateLimit),
              !.mode = IF @ = Blank THEN "hybrid" ELSE @]

\* mutant: fewer candidates than the limit
AnyCandidates(req) == req.query # Blank /\ req.mode \in Modes
ValidSearchRequest(req) ==
  req.query # Blank /\ req.mode \in Modes /\ req.candidateLimit >= req.limit

\* The statement of a mode that leaves one out is passed over.
FirstStep(req) == IF req.mode = "vector" THEN "embed" ELSE "keyword"

SearchDetailed(asked) ==
  LET req == NormalizeSearchRequest(asked)
  IN  /\ pc = "idle"
      /\ request' = req
      /\ began' = [writes |-> writes, limit |-> asked.limit,
                   candidateLimit |-> asked.candidateLimit]
      /\ pc' = IF ValidSearchRequest(req) THEN FirstStep(req) ELSE "refused"
      /\ UNCHANGED <<cfg, store, keywordHits, vectorHits, exact, hits, stats>>

-----------------------------------------------------------------------------
(***************************************************************************)
(* The statements.                                                         *)
(***************************************************************************)

\* The sequence of the elements of S in the total order `Precedes'.
InOrder(S, Precedes(_, _)) ==
  [i \in 1 .. Cardinality(S) |->
     CHOOSE x \in S : Cardinality({y \in S : Precedes(y, x)}) = i - 1]

AtMost(n, s) == SubSeq(s, 1, IF Len(s) <= n THEN Len(s) ELSE n)

\* WHERE collection = $1 AND metadata @> filter; mutant: no collection
InAnyCollection(row) == request.filter \in {Blank, row.meta}
Selected(row) ==
  /\ CollectionOf[row.document] = request.collection
  /\ request.filter \in {Blank, row.meta}

Relevance(row) == request.query.relevance[row.text]
Similarity(row) == request.query.similarity[row.text]

\* ORDER BY score DESC, id DESC
Ahead(score1, row1, score2, row2) ==
  score1 > score2 \/ (score1 = score2 /\ row1.id > row2.id)
MoreRelevant(x, y) == Ahead(Relevance(x), x, Relevance(y), y)
MoreSimilar(x, y) == Ahead(Similarity(x), x, Similarity(y), y)

SearchKeyword ==
  /\ pc = "keyword"
  /\ keywordHits' = AtMost(request.candidateLimit,
       InOrder({row \in rows : Selected(row) /\ Relevance(row) > 0}, MoreRelevant))
  /\ pc' = IF request.mode = "hybrid" THEN "embed" ELSE "fuse"
  /\ UNCHANGED <<cfg, store, request, began, vectorHits, exact, hits, stats>>

\* searchQueryVector, which QueryCache models: other calls go on meanwhile.
SearchQueryVector ==
  /\ pc = "embed"
  /\ pc' = "vector"
  /\ UNCHANGED <<cfg, store, request, began, keywordHits, vectorHits, exact, hits, stats>>

\* A scan of the index returns some rows of the table, of any collection; which
\* ones is up to its graph.  WHERE, ORDER BY and LIMIT apply to what it returns.
IndexScans == {scan \in SUBSET rows : Cardinality(scan) <= EfSearch}

\* PostgreSQL takes the index or sorts all the rows that are selected.
SearchVector ==
  /\ pc = "vector"
  /\ exact' \in BOOLEAN
  /\ \E scan \in IF exact' THEN {rows} ELSE IndexScans :
       vectorHits' = AtMost(request.candidateLimit,
                            InOrder({row \in scan : Selected(row)}, MoreSimilar))
  /\ pc' = "fuse"
  /\ UNCHANGED <<cfg, store, request, began, keywordHits, hits, stats>>

\* Any of the three may fail or run out of time, and fails the search.
SearchFails ==
  /\ pc \in {"keyword", "embed", "vector"}
  /\ pc' = "failed"
  /\ UNCHANGED <<cfg, store, request, began, keywordHits, vectorHits, exact, hits, stats>>

-----------------------------------------------------------------------------
(***************************************************************************)
(* Reciprocal rank fusion, in fractions.                                   *)
(***************************************************************************)

Fraction(num, den) == [num |-> num, den |-> den]
Plus(p, q) == Fraction(p.num * q.den + q.num * p.den, p.den * q.den)
Exceeds(p, q) == p.num * q.den > q.num * p.den

\* mutant: ranks are counted from 0
FromZero(rank) == IF rank <= 1 THEN Fraction(0, 1) ELSE Fraction(1, cfg.rrf + rank - 1)
ReciprocalRank(rank) == IF rank <= 0 THEN Fraction(0, 1) ELSE Fraction(1, cfg.rrf + rank)

RankOf(id, list) ==
  IF \E i \in 1 .. Len(list) : list[i].id = id
    THEN CHOOSE i \in 1 .. Len(list) : list[i].id = id ELSE 0

\* What `merged' has for one internal id: the row as the first statement that
\* returned it read it.
MergedHit(id) ==
  LET k == RankOf(id, keywordHits)
      v == RankOf(id, vectorHits)
  IN  [row |-> IF k > 0 THEN keywordHits[k] ELSE vectorHits[v],
       score |-> Plus(ReciprocalRank(k), ReciprocalRank(v))]

RowsOf(list) == {list[i] : i \in 1 .. Len(list)}
Merged == {MergedHit(row.id) : row \in RowsOf(keywordHits) \cup RowsOf(vectorHits)}

ChunkOf(row) == <<row.document, row.number>>

\* The less function of the sort: score, document id, chunk number.  Two rows
\* of one chunk with the same score come in either order: the later one comes
\* first for the chunks of `newFirst'.
Less(newFirst, x, y) ==
  \/ Exceeds(x.score, y.score)
  \/ /\ ~Exceeds(y.score, x.score)
     /\ \/ x.row.document < y.row.document
        \/ x.row.document = y.row.document /\ x.row.number < y.row.number
        \/ /\ ChunkOf(x.row) = ChunkOf(y.row)
           /\ IF ChunkOf(x.row) \in newFirst THEN x.row.id > y.row.id
                                             ELSE x.row.id < y.row.id

\* The chunks of which two rows are there with one score
Tied == {ChunkOf(x.row) : x \in {z \in Merged : \E y \in Merged \ {z} :
           ChunkOf(y.row) = ChunkOf(z.row) /\ y.score = z.score}}

Fuse ==
  /\ pc = "fuse"
  /\ \E newFirst \in SUBSET Tied :
       hits' = AtMost(request.limit,
                      InOrder(Merged, LAMBDA x, y : Less(newFirst, x, y)))
  /\ pc' = "done"
  /\ UNCHANGED <<cfg, store, request, began, keywordHits, vectorHits, exact, stats>>

\* The caller has the answer, or the error, and goes on.
Return ==
  /\ pc \in {"done", "failed", "refused"}
  /\ pc' = "idle"
  /\ request' = Nothing /\ began' = Nothing
  /\ hits' = <<>> /\ keywordHits' = <<>> /\ vectorHits' = <<>> /\ exact' = FALSE
  /\ UNCHANGED <<cfg, store, stats>>

-----------------------------------------------------------------------------
(***************************************************************************)
(* Other calls.                                                            *)
(***************************************************************************)

\* mutant: every chunk is counted
CountAll(collection) == rows
ChunksIn(collection) == {row \in rows : CollectionOf[row.document] = collection}

\* Two counts, one statement: one snapshot.  Every document has chunks.
CollectionStats(asked) ==
  LET collection == ResolveCollection(asked)
  IN  /\ pc = "idle"
      /\ stats' = [collection |-> collection, at |-> writes,
                   documentCount |-> Cardinality({row.document : row \in ChunksIn(collection)}),
                   chunkCount |-> Cardinality(ChunksIn(collection))]
      /\ UNCHANGED <<pc, cfg, store, request, began, keywordHits, vectorHits, exact, hits>>

RowsFor(d, content, meta, first) ==
  {[id |-> first + n - 1, document |-> d, number |-> n, text |-> content[n],
    meta |-> meta] : n \in 1 .. Len(content)}

RowsWithout(d) == {row \in rows : row.document # d}

\* The commit of a write or a delete of one document.
Write(d, newRows, ids) ==
  /\ pc # "off" /\ writes < MaxWrites
  /\ rows' = RowsWithout(d) \cup newRows
  /\ nextID' = nextID + ids
  /\ writes' = writes + 1
  /\ lastWrite' = [lastWrite EXCEPT ![d] = writes + 1]
  /\ UNCHANGED <<pc, cfg, request, began, keywordHits, vectorHits, exact, hits, stats>>

\* Rows of its own for every chunk, with new ids
ReplaceDocumentChunks(d, content, meta) ==
  Write(d, RowsFor(d, content, meta, nextID), Len(content))

\* The rows keep their ids.
RefreshDocumentMetadata(d, meta) ==
  /\ \E row \in rows : row.document = d /\ row.meta # meta
  /\ Write(d, {[row EXCEPT !.meta = meta] : row \in rows \ RowsWithout(d)}, 0)

DeleteDocument(d) ==
  /\ rows # RowsWithout(d)
  /\ Write(d, {}, 0)

-----------------------------------------------------------------------------
Init ==
  /\ pc = "off"
  /\ cfg = Nothing
  /\ rows \in Seeds
  /\ nextID = FirstID
  /\ writes = 0
  /\ lastWrite = [d \in Documents |-> 0]
  /\ request = Nothing /\ began = Nothing /\ stats = Nothing
  /\ keywordHits = <<>> /\ vectorHits = <<>> /\ hits = <<>> /\ exact = FALSE

\* No call is under way, and the other calls have made their commits.
Terminated ==
  /\ pc \in {"idle", "closed"} /\ writes = MaxWrites
  /\ UNCHANGED vars

Next ==
  \/ New
  \/ \E req \in Requests : SearchDetailed(req)
  \/ SearchKeyword \/ SearchQueryVector \/ SearchVector \/ SearchFails
  \/ Fuse \/ Return
  \/ \E asked \in Collections \cup {Blank} : CollectionStats(asked)
  \/ \E d \in Documents :
       \/ \E content \in Contents, meta \in Metas : ReplaceDocumentChunks(d, content, meta)
       \/ \E meta \in Metas : RefreshDocumentMetadata(d, meta)
       \/ DeleteDocument(d)
  \/ Terminated

Spec == Init /\ [][Next]_vars

-----------------------------------------------------------------------------
(***************************************************************************)
(* Properties.                                                             *)
(***************************************************************************)

Untouched(row) == lastWrite[row.document] <= began.writes

\* What the full-text index, and the vectors, rank before another row; a row
\* that does not match is behind all others in the first list.
AheadInKeyword(x, y) ==
  Relevance(y) = 0 \/ Ahead(Relevance(x), x, Relevance(y), y)
AheadInVector(x, y) == Ahead(Similarity(x), x, Similarity(y), y)

\* The vector index may miss a row.
NotMissed(row) == exact \/ RankOf(row.id, vectorHits) > 0

\* What the caller asked for.
Wanted(row) == /\ CollectionOf[row.document] = request.collection
               /\ request.filter # Blank => row.meta = request.filter

\* Whatever is written meanwhile: a row that nobody touched and that ranks
\* before a hit in every list of the mode is itself a hit, before that one, unless
\* the vector index missed it.
\* LIMIT, fusion, order and the limit of the request drop only the worst.
BetterComesFirst ==
  pc = "done" =>
    \A i \in 1 .. Len(hits), row \in rows :
      /\ Wanted(row) /\ Untouched(row) /\ Untouched(hits[i].row)
      /\ request.mode # "vector" => AheadInKeyword(row, hits[i].row)
      /\ request.mode # "keyword" => AheadInVector(row, hits[i].row) /\ NotMissed(row)
      /\ row # hits[i].row
      => \E j \in 1 .. i - 1 : hits[j].row = row

\* The hits are what was asked for, as many as the limit allows.  One of a document
\* that nobody touched is as it is stored, and comes once.  A chunk comes twice
\* only from a hybrid search whose document was rebuilt between the statements.
HitsCurrent ==
  pc = "done" =>
    /\ Len(hits) <= request.limit
    /\ \A i \in 1 .. Len(hits) :
         /\ Wanted(hits[i].row)
         /\ Untouched(hits[i].row) => hits[i].row \in rows
    /\ \A i, j \in 1 .. Len(hits) :
         i # j /\ ChunkOf(hits[i].row) = ChunkOf(hits[j].row) =>
           /\ request.mode = "hybrid" /\ ~Untouched(hits[i].row)
           /\ \E old, new \in {i, j} :
                /\ hits[old].row.id < hits[new].row.id
                /\ RankOf(hits[old].row.id, vectorHits) = 0
                /\ RankOf(hits[new].row.id, keywordHits) = 0

\* Until somebody writes, no search finds more than CollectionStats has counted,
\* and one by vectors finds all of it, or as much as it was asked for, if it does
\* not depend on the vector index.
FindsAllCounted ==
  /\ pc = "done" /\ stats # Nothing
  /\ stats.at = writes /\ stats.collection = request.collection
  => /\ Len(hits) <= stats.chunkCount
     /\ Cardinality({hits[i].row.document : i \in 1 .. Len(hits)}) <= stats.documentCount
     /\ exact /\ request.filter = Blank =>
          Len(hits) = IF stats.chunkCount < request.limit THEN stats.chunkCount
                      ELSE request.limit

\* A Config that New accepts serves every request that leaves both limits to
\* it: a search is refused for its limits only if it asked for a number of
\* candidates, or for more hits than the configured number of candidates.
DefaultsAccepted ==
  pc = "refused" /\ request.query # Blank /\ request.mode \in Modes =>
    began.candidateLimit > 0 \/ began.limit > cfg.candidateLimit
==============================================================================
