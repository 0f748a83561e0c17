# A formal model of simplykb

TLA+ modules that model the parts of simplykb where a test has a hard time, TLC
configurations that check them on small instances, and proofs, checked by TLAPS, of
what matters most. Everything is translated from the Go source and the SQL it sends.
Line numbers are those of this commit; `PROJECT.json` maps every definition to the
lines it stands for.

## The system

simplykb is a Go library. A `Store` keeps documents in PostgreSQL, cut into chunks that
carry an embedding and a full-text index, and searches them. All shared state is in the
database: any number of programs, each with a `Store` and any number of goroutines, work
on one schema. Only the query embedding cache is shared inside a process.

| Component | State | Operations | What is hard | What makes it correct |
|---|---|---|---|---|
| Document writes (`store.go:179-240, 526-867`) | `kb_documents`, `kb_chunks`; a snapshot and the prepared chunks of each call | `UpsertDocument`, `ReindexDocument`: read, classify, prepare outside a transaction, lock, re-check, write, commit; one restart | the snapshot is stale when it is used; advisory and row locks; failures between statements; the answer of COMMIT | chunks always match their document; what was re-checked is still so at COMMIT; stale rebuilds never win; success means stored |
| Deletion (`store.go:242`, `collection.go:30`) | the same tables | `DeleteDocument` (one statement), `DeleteCollection` (a transaction) | no advisory lock: only row locks order them with writes; sweeps deadlock with each other | what was found is gone for good; nothing is leaked |
| Schema migration (`store.go:109-173, 1032-1120`, `schema.go`) | `kb_schema_migrations`, tables, indexes, `vector(N)` | `Migrate`: one transaction under one advisory lock | stores that start together; other dimensions; a client that dies; table locks against running writes | all or nothing; nil means usable; no failure without a reason |
| Query embedding cache (`query_cache.go`, `store.go:474-524`) | list, map, mutex | `Get`, `Put`, `searchQueryVector` around them | several misses of one key embed outside the mutex; slices shared by mistake; eviction | list and map agree; LRU order; nobody can change a cached vector |
| Default splitter (`splitter.go`) | none (one call) | `Split` | boundary arithmetic of chunk size, overlap and paragraph joints | fits, loses nothing, keeps order, makes progress |
| Search (`store.go:261-472, 924-967`, `rrf.go`) | none | `SearchDetailed`: keyword statement, embedding, vector statement, fusion by rank, limits | two statements on two snapshots; ties; limits of the request, of the Config and of both | what nobody touched is found, in its order, and as it is stored |
| Collection statistics (`collection.go:12-28`) | none | `CollectionStats`, one statement | calls that write beside it | counts of one snapshot, of what a search finds |
| Request normalisation, metadata (`store.go:869-1003`) | the compared columns of a document | trimming, tags, canonical JSON of what is sent and of what jsonb gives back | numbers that do not survive; tags spelled in many ways | a change is stored, no change rewrites nothing |
| Doctor (`exampleenv/doctor.go`) | none | several read-only statements | reads while a migration commits | "ready" means migrated |
| Configuration, lifecycle (`config.go`, `New`, `Close`) | the pool, the Config of a Store | defaults and checks | limits that are legal only together | an accepted Config serves requests that rely on it |
| Directory ingest (`ingest_dir/main.go`) | none of its own; the files, the index | collect files, upsert one after the other, search; run again | a run stops anywhere; files change under it; two paths, one document | exit 0 means everything is indexed; a rerun is idle |
| OpenAI-compatible embedder (`exampleembed.go`) | none | `Embed`: one request for all texts of a document | answers in any order, short, doubled, of a wrong length | each text gets its own vector |
| Hash embedder, quickstart, helpers | none | pure functions, I/O | nothing that interleaves | - |

How they meet: writes and deletes meet in the rows of the two tables; `Migrate` meets
writes in the table locks; the doctor reads what `Migrate` commits; searches meet writes
in `kb_chunks` and each other in the cache; the splitter and the embedder run inside a
write, between its two readings of the document; the ingest program is a caller that
depends on upserts being atomic and on unchanged ones doing nothing.

## The modules

| Module | Models | Notes |
|---|---|---|
| `Database` | the PostgreSQL that the writes see: rows, chunk rows, advisory locks, row locks, pool connections, COMMIT and ROLLBACK | external behaviour, reduced to the statements `store.go` sends |
| `DocumentWrites` (extends `Database`) | every statement of upsert, reindex, delete and collection delete | a process is one call |
| `KnowledgeBase` | the abstract specification: each call takes effect at one instant or not at all | implemented by `DocumentWrites` |
| `Migration` | `Migrate` of several stores, writes that hold table locks, the doctor | |
| `QueryCache` | the cache and the search path that fills it | |
| `Splitter` | one call of `Split` | |
| `Search` | `New`, `SearchDetailed`, `CollectionStats`, beside commits of other calls | writes are atomic, as `KnowledgeBase` says |
| `Metadata` | what an upsert compares and stores: tags, metadata through jsonb | one call at a time |
| `Ingest` | the ingest program, run after run, with the embedder and its service | upserts are atomic, as `KnowledgeBase` says |
| `MC...` | the values of the constants for TLC | |
| `DocumentWritesProofs` | proofs about `DocumentWrites`: types, locks, rows | |
| `DocumentWritesRefinement` (extends it) | proofs about its answers, and that it implements `KnowledgeBase` | |
| `MigrationProofs`, `QueryCacheProofs`, `SplitterProofs`, `IngestProofs`, `SearchProofs`, `MetadataProofs` | proofs about the module of that name | |

Definitions marked `mutant` are plausible bugs of the definition below them. No
specification uses them; they show that a property notices such a bug.

### DocumentWrites and Database

An action is one statement, or the Go code between two statements, and has the name of
the function it comes from:

    Start -> LoadSnapshot -> [Prepare] -> BeginTx -> AcquireDocumentWriteLock
          -> RecheckPasses -> RefreshDocumentMetadata                    -> Commit
                           |  UpsertDocumentRow -> ReplaceDocumentChunks |
                           |  (nothing to do)                            |
          -> RecheckRestarts (once; then ErrDocumentChangedConcurrently)

`expected` is the snapshot `existing` of `writeDocument`, `locked` the one read FOR
UPDATE. A document row keeps its id, content hash, metadata, chunk count and
`updated_at`; title, source and tags behave as the metadata do and are abstracted into
them. A chunk row keeps its document, number, content, metadata, and the *recipe* that
cut it: the splitter and the embedder in force when it was prepared. `Rollout` puts a
new recipe in force. `updated_at` is NOW() of the writing transaction, a clock that moves
at BEGIN; `CoarseClock` says whether two transactions may begin within one tick.

`DeleteDocument` is a statement of its own: it is sent, takes its snapshot (`AimDelete`),
and removes the rows of that snapshot once their locks are free. `DeleteCollection` locks
rows one by one in any order, and two of them can deadlock; one is then made to fail.

Failures: `Fail` may strike between any two steps (context, network, splitter, embedder,
statement, a killed client). The client is told of an error and its connection is lost to
the pool, but the backend keeps its locks until `BackendExit`; a COMMIT, or an autocommit
DELETE, that was already sent may still take effect. A crash of the server is the same
for all calls at once.

Assumed of PostgreSQL: READ COMMITTED (the default, which the code does not change), row
and advisory locks until the end of the transaction, the cascade of the foreign key.
Gaps of the id sequence make no difference and are not modelled.

Reading the code showed that some branches cannot be taken and have no action: in
`commitReindexDocumentWrite` the re-check requires the locked snapshot to equal the first
one, so a write that was not forced is classified as before, and its branches for a no-op
or a refresh after that are dead; `chunkCount <= 0` never holds of a stored document,
because a rebuild with no chunks is refused. The design document
(`2026-04-22-simplykb-hardening-design.md:178`) says that a restart goes on as a full
reindex; the code classifies the write afresh, and so does the model.

### Migration

A catalog is the set of recorded versions, the dimensions of the table and the indexes.
`view[s]` is the catalog as the transaction of store `s` sees it. `LockTable` takes the
table locks of CREATE INDEX (share) and DROP INDEX (exclusive) one by one; writes take
theirs on `kb_documents`, then `kb_chunks`. Starting catalogs are a fresh schema and what
each older version of the SDK left. `available` is whether the server offers the
extensions. The doctor looks for the table and reads the versions in two statements.

### QueryCache

The critical sections of `Get` and `Put` are split in two, so that the mutex, and not the
grain of the model, makes them atomic. `memory` holds the contents of the slices; after a
search has returned `Overwrite` lets the caller and the embedder write over the slices
they own, while other searches go on. An embedder that still changes its slice between
its return and `Put` (`store.go:485-500`) would spoil the cached copy; it is trusted not to.
`ticks` and `used` are history variables: the number of uses so far, and for each key that
of its last use. They are the reference for the LRU order. A keyer may choose any key or
bypass the cache; the embedder may fail or give a vector of a wrong length.

### Splitter

A rune is carried by its position in the normalised text (`Glue` for the joints between
paragraphs), so that two equal runes can be told apart and nothing can be lost unnoticed.
`Normalize` puts the text and the settings right, `Start` rejects a blank text or cuts the
paragraphs, and one turn of the loop of `appendRunes` is an action. Unicode spaces are all
one blank. `InOrder` lists a set of positions by counting instead of filtering a sequence,
so that the proofs can speak about it.

### Search

`SearchDetailed` is split at its statements: `SearchKeyword`, `SearchQueryVector` (the
embedding, which `QueryCache` models, so only that time passes), `SearchVector`, `Fuse`.
Commits of other calls come between them. A query is what it makes of each text: a
full-text score (0: no match) and a similarity. Rows with one score come by descending
id, as in the SQL; hits with one score by document and chunk number. Two rows of one chunk
can tie in all three; the map order and the unstable sort of Go then leave the order
open, which is a choice in `Fuse`. Fused scores are exact fractions instead of float64:
at the ranks checked, sums of two reciprocals are either equal or far apart. `began` and
`lastWrite` are history: a row is *untouched* if its document was not written since the
search was called. A metadata filter is one value or none; an illegal filter is not
modelled.

The vectors have an HNSW index (`schema.go:72`), which returns a bounded number of rows
(`hnsw.ef_search`, 40 by default) of the whole table, and not always the nearest; WHERE
with the collection and the filter, ORDER BY and LIMIT come after. PostgreSQL may use it
or not. `SearchVector` therefore sorts either all the rows that are selected or those of
any scan of at most `EfSearch` rows (`exact` records which). So a search by vectors may
find fewer hits than there are, even none in a small collection of a large table, and the
properties say what is still true: what is found is current and in the right order, and a
better row is missing only if the index missed it.

### Metadata

The metadata of a document are one integer. jsonb keeps it exactly; `ToFloat` is what
`json.Unmarshal` into `map[string]any` makes of it, with `Exact` in the place of 2^53.
Only the stored side is converted (`canonicalStoredMetadataJSON`), what was sent is not
(`canonicalMetadataJSON`). Integers are not the only values that come back otherwise than
`json.Marshal` first wrote them: structs whose fields are not in sorted order,
`json.Number`, `json.RawMessage` and -0 can too (`store.go:869-887`), and an upsert of
such a value, though unchanged, rewrites the row each time. They are not modelled, and
what the runs and theorems say of `Metadata` does not extend to them. Tags are trimmed,
sorted and freed of doubles and blanks; their case counts, as in `normalizeTags`. `sent`
is history: the request as its caller meant it, with the tags as a set.

### Ingest

A file is its path, a number, since the files are taken in the order of their paths.
`DocumentOf` is the path without the blanks around it: `UpsertDocument` trims the document
id, while the path in the metadata stays as it is (`file` of an index entry), so that two
files can take turns as one document. A vector is the text it was made of. `Answers` has
every list of items, of any length up to one too many, in any order, with vectors of a
wrong length and indexes out of range; the service is trusted to give the vector of the
text that an index names. `Fail` strikes anywhere, with the last COMMIT possibly done.
`Edit` changes, adds or removes files at any time.

## What is checked

| Run | Instance | Question and result |
|---|---|---|
| `writes` | 3 calls, 1 document, all may fail, 1 rollout | Type invariant and eight safety properties of interleaved upserts, reindexes and deletes: hold |
| `every_call_ends` | 3 calls, 2 documents, 2 connections, 1 failing call | Every call that is made ends: holds |
| `refinement` | 3 calls, 2 documents of one collection with colliding lock keys, all may fail, 1 rollout | `DocumentWrites`, sweeps included, implements `KnowledgeBase`, and deleted documents stay deleted: holds |
| `coarse_clock` | 4 calls, no failure, `CoarseClock` | `RecipeNeverRegresses` is violated, see below |
| `late_commit` | 2 calls, failures | `FailureChangesNothing` is violated, see below |
| `large_numbers` | `metadata` with integers above 2^53 | `ChangeStored` is violated, see below |
| `migrate` | 3 stores (one of other dimensions), 1 write, doctor, 11 starting catalogs | Safety of Migrate, and every Migrate ends: hold |
| `query_cache` | 3 searches, 3 keys, capacity 2 | Safety of the cache, and every search gets past its embedding: hold |
| `search` | 3 documents, 2 collections, 2 commits, an index that returns 2 rows at most, 5 Configs, 14 requests | Order, currency and completeness of hits, limits of Config and request: hold |
| `ingest` | 4 files (two of them one document, one not ingested), 3 contents, 2 edits | Vectors, exit code and reruns of the ingest program: hold |
| `metadata` | 1 document, 3 tags, integers that a float64 has | The two promises of an upsert about what changed: hold |
| `split` | all texts up to 5 runes and longer chosen ones, 5 chunk sizes, 5 overlaps | Safety and termination of Split: hold |

**Bounds.** Three calls are what the restart logic needs: a write, and one call that
overtakes each of its two readings (`ConflictMeansOvertaken` says that a conflict takes
two other calls that landed on the document; it does not say at which reading each did).
Two documents are enough for a collection whose rows are locked in different orders. Two
contents, two metadata and one rollout give every result of `classifyDocumentWrite`,
every kind of staleness, and two recipes to compare; content 2 has another number of
chunks by each recipe, content 1 the same. Two connections for three calls make the pool
run dry while a call waits for a lock. Capacity 2 with 3 keys evicts; 3 searches let two
miss one key while a third evicts it. Three stores let a third one act on what the first
two left, and one write suffices for the deadlock with an upgrade. In `search`, a second
commit lets a document be rebuilt between the statements after another was written
before them; three chunks in a collection and limits of 1, 2 and 3 put each limit at,
below and above what there is; rebuilt chunks that come twice, ties of both kinds, rows
that the index misses and statistics that are still valid do occur. In `ingest`, one
edit during a run and one between runs are the two that matter, and two chunks can be
swapped. In `metadata`, 4 stands for 2^53: below it all integers are exact, and up to
its double the even ones. The texts of `split` are all short ones, and longer ones for
each boundary: full chunk before a joint, a blank run longer than a chunk, blank lines
with spaces in them, every line end. `DefaultChunkSize` is 3 instead of 900. `Symmetry`
permutes calls and documents in runs of `DocumentWrites` without liveness.

**Deadlock** is checked everywhere but in `migrate`, where the system stops when every
store, write and the doctor are through, and in `split`, where the call returns. `Ingest`
and `Metadata` always have a step. In the other modules `Terminated` is the only idle
step, so a stuck call is an error of any run.

**Fairness.** Weak fairness of the steps of each call, and nothing else. A call that was
made goes on because its goroutine is scheduled, statements end, the lock queues of
PostgreSQL and the queue of the pool are served in order, deadlocks are detected, a mutex
of Go is not held from a waiter for ever, and a backend notices that its client is gone.
Nobody has to make a call (`Start`, `Begin`, `ResolveKey`), nothing has to fail
(`Fail`), and nobody has to roll out a recipe (`Rollout`). Weak
fairness is enough although a lock may be free only now and then: the calls are finitely
many, each holds a lock for a few steps, and in the end nobody else wants it.

### What the violations show

`coarse_clock`. `documentSnapshotsEqual` (`store.go:852-867`) takes a document for
untouched if `updated_at` and the other columns are equal. Two metadata refreshes that
begin in one microsecond tick can bring a row back to the very snapshot that a reindex has
read, although another reindex came in between; the stale one then overwrites newer
chunks. With a clock that gives every transaction its own time the property holds
(`writes`). The integration test of this situation (`integration_test.go:1149-1157`)
keeps the writes apart in time.

`large_numbers`. The stored metadata are compared after a trip through float64
(`store.go:883`). A metadata integer above 2^53, 9007199254740993 say, that is changed to
the one that its float64 stands for, 9007199254740992, compares equal: the upsert is taken
for a no-op, returns success and stores nothing, where `README.md:348` promises an update
in place. Conversely an unchanged integer that no float64 has is rewritten at every
upsert, which `README.md:347` excludes. With integers that a float64 has, both promises
hold (`metadata`).

`late_commit`. A write whose COMMIT is not answered returns an error and may have taken
effect, or do so later. `2026-04-22-simplykb-hardening-design.md:211` promises unchanged
state after an error. A caller has to treat an error of COMMIT as "unknown".
`KnowledgeBase` says what is true instead.

## What is proved

For every value of the constants that satisfies the named assumptions (any number of
calls, documents, collections, contents and connections, any lock-key function; any
stores, writes, dimensions and starting catalogs; any files, contents and answers of the
embedding service; any Configs, requests and queries; any texts, chunk sizes and
overlaps).

| Theorem | States |
|---|---|
| `DocumentWritesProofs!TypeCorrect` | every state is well typed |
| `...!SnapshotStaysCurrent` | `LockedSnapshotCurrent`: nobody changes a document between the re-check and the COMMIT of a write |
| `...!WritersExcludeEachOther` | `WritersExclude`: one write per document at a time |
| `...!NothingIsLeaked` | `NothingLeaked`: a call that is over holds no lock, however it ended |
| `...!ChunksAlwaysMatch` | `ChunksMatchDocument`: each document has exactly the chunks of its content |
| `...!DeletedForGood` | `DeletedStaysDeleted`: what a finished delete found never comes back |
| `DocumentWritesRefinement!SuccessIsStored` | `SuccessMeansStored`, an action property |
| `...!IdleUpsertsLeaveNoTrace` | `NoIdleTouch`, an action property |
| `...!ConflictsAreReal` | `ConflictMeansOvertaken`: a conflict means that two other calls naming the document have landed |
| `...!RecipesNeverRegress` | `RecipeNeverRegresses`, an action property, if the clock is not coarse |
| `...!WritesImplementKnowledgeBase` | `ImplementsKnowledgeBase`, the refinement, if the clock is not coarse |
| `MigrationProofs!MigrationTypeCorrect` | every state is well typed |
| `...!SchemaIsOfOneVersion` | `CatalogConsistent` |
| `...!MigratedStaysUsable` | `OkMeansUsable` |
| `...!NoFailureWithoutReason` | `FailureHasReason` |
| `...!MigrationIsAllOrNothing` | `AllOrNothing`, an action property |
| `...!DeadlocksOnlyFromBase` | `DeadlockOnlyFromBase`: only an upgrade from version 1 can deadlock with writes |
| `...!ReadyIsMigrated` | `ReadyMeansMigrated`: the doctor's "ready" is true |
| `QueryCacheProofs!TypeCorrect` | every state is well typed |
| `...!MapAndListAgree` | `MapMatchesList` |
| `...!EvictsLeastRecentlyUsed` | `RecentlyUsedKept` |
| `...!CacheIsNotShared` | `CachedVectorsRight`: nobody who owns a slice can change a cached vector after the search |
| `...!SearchesGetTheirVector` | `ReturnedVectorRight` |
| `SplitterProofs!ChunksAlwaysFit` | `ChunksFit`: chunks are within the size and not blank at an end |
| `...!NoWordIsLost` | `NothingLost` |
| `...!ReadingOrderKept` | `InReadingOrder`: consecutive words, in order, no more overlap than asked for |
| `...!OnlyBlanksRepeat` | `RepeatsOnlyInBlanks`: a chunk of mere overlap was filled by a run of blanks |
| `SearchProofs!BetterIsFirst` | `BetterComesFirst`: an untouched row that every list ranks before a hit is a hit before it |
| `...!HitsAreCurrent` | `HitsCurrent`: hits are what was asked for, as it is stored |
| `...!AllCountedFound` | `FindsAllCounted`: searches find what the statistics count |
| `...!DefaultsServe` | `DefaultsAccepted`: an accepted Config never makes a request fail that relies on it |
| `IngestProofs!VectorsStayPaired` | `VectorsPaired`: each stored chunk has the vector of its own text, if answers are labelled with the right indices |
| `...!CleanExits` | `CleanExitComplete`: exit 0 means that every file is indexed or reported |
| `...!RerunsChangeNothing` | `RerunsAreIdle`, an action property |
| `MetadataProofs!ChangesAreStored` | `ChangeStored`, if a float64 has the numbers |
| `...!UnchangedStays` | `UnchangedNotRewritten`, an action property, if a float64 has the numbers |

Two hypotheses are not about the shape of an instance, and each is the complement of a
violation above. `~CoarseClock`: no two transactions get the same NOW(). Of the code this
is a matter of luck, and `coarse_clock` shows what happens without it; the theorems say
that nothing else can go wrong. `NumbersAreExact`: the metadata integers are ones that a
float64 has; `large_numbers` shows the others.

*Writes.* `TypeOK` is not inductive: a step that changes a row it has read needs a row.
`Typing` adds which step belongs to which operation and where there is a row. `Locking`
is the heart: a write past its re-check holds the advisory lock of its document, its
snapshot is the current one, and it holds the row lock if there is a row. The advisory
lock is needed because an absent row cannot be locked FOR UPDATE; the row lock because
deletes take no advisory lock. Both theorems about locking follow. `Holding` says at which
steps a call may have which lock and connection, from which nothing is leaked. `Cutting`
adds to `ChunksMatchDocument` that ids are unique and below the next one, and that what a
transaction is about to store is made for the row it has locked: without `Locking`, what
is pending could be stored for a row that somebody has changed. `Removing` follows the rows
that a delete has found, from its snapshot to its COMMIT, and `Fresh` says that their ids
are carried by nothing that is still to be stored: a write that began before the delete has
either locked the row, and the delete waits, or inserts one with a new id.

*Answers.* `Faithful` says at each step that what the write does is what its readings call
for; a success is then the document that was asked for, because `Locking` keeps it so
until the COMMIT. `Overtaking` counts: when the first reading turns out stale, another call
has landed on the document, when the second does, two have.

*Refinement.* `Stamped` and `Aged` are what `updated_at` is for. Transactions under way
have begun at different times, and no row has the time of one that has not committed
(`Stamped`). So a row that equals the snapshot of a rebuild *is* that row, and its chunks
are no newer than those the rebuild has prepared (`Aged`): `RecipesNeverRegress`. The
mapping lets a call take effect at its COMMIT. `EntryAssumption` says that no value of an
entry is the mark for an absent one. The step simulation goes action by action; only the
start of a call, what a delete aims at, a COMMIT and an answer are steps of
`KnowledgeBase`, all others are stutters.

*Migrate.* `IInv` says that only the holder of the lock has a view, and that this view is
the committed catalog with some of the missing versions applied, in order, the table's
dimensions kept (`ViewOK`). `MigratedConsistent` is the lemma about one migration,
`CommitMigrating` the one step that changes the catalog. The two readings of the doctor
are right because a version, once recorded, is never taken away. A deadlock needs a
store that has table locks and waits for more; `LockOrder` says in which order
writes and stores take theirs, and that a store waits with a lock that a write needs only
if it has old indexes to drop.

*Query cache.* `IInv` says that the mutex guards list and map (`Guarded`), that what a search has seen of the map is
still so while it holds the mutex (`QueriesOK`), that the list has the keys of the map
(`ListOK`) in the order of `used`, which also keeps them apart (`Recency`), and that the
slice of an entry was made by the Put of a search that is past it, so nobody writes to it
any more (`VectorsOK`). A key that was evicted was behind `Capacity` others in the list,
and those in the list now were used later still.

*Splitter.* `AreParagraphs` is what the cutting of paragraphs promises: stretches of the
text from word to word, in order, with all its words (`ParagraphsFound`). The invariant
`SplitOK` says that there is a position u up to which the text has been read (`ReadUpTo`):
what waits begins at u (`Waiting`), and what was read is sound (`Sound`): the chunk under
construction holds the last words before u, consecutive and in order (`CurrentOK`), the
chunks are as they should be (`DraftsOK`), the words below u are in a chunk or newly in
the one under construction (`Accounted`), and that one shares with the last chunk no more
words than the overlap (`Linked`). `PieceRead` is the lemma about appending, `ChunkAdded`
the one about emitting. Full chunks are emitted at once, so that there is always room
(`Len(current) < chunkSize`): the `emitChunk` before appending never has anything to do.
`RepeatsAreBlank` says why a chunk without a new word was filled by blanks inside a
paragraph: the joint leaves room for a rune, and a paragraph begins with a word; at the
end of the text the pending runes always have a new word.

*Search.* `SearchInv` says what each intermediate result is: the rows that a statement
returned were stored when it ran, those of untouched documents still are, in order and
without gaps that the limit or the index does not explain (`KeywordsOK`, `VectorsOK`,
`StatsOK`), and the fused list ranks by sums of reciprocals (`FusedOK`). A row with the
better rank in each list has the greater sum, whatever the constants (`ShareOfRank`,
`SumExceeds`): fractions are compared by cross-multiplication, in `FractionOrder`. That a
list ordered by counting what precedes has a row at each place would be an induction; it is
proved by a pigeonhole argument instead: counting what precedes is an injection of n rows
into n places, so it is onto (`PlacesTaken`, with `FS_Injection`). `SeedAssumption` says
that the rows of the store at the start have different ids. `DefaultsInv` carries the order
of the two limits from `New` to a refusal.

*Ingest.* `IngestInv` says what a run has done at each point: the files left are those
that could be loaded (`CollectedRight`), the current one is the first of them and its
vectors are those of its texts (`CurrentRight`), every file before it is indexed from
itself or from a later file with its document (`PastIndexed`, which needs the order of the
paths), and a settled index has nothing left to do (`SettledIndexed`). `AcceptedIsRight`
is the lemma about the embedder: n items that have every index from 0 to n - 1 and no
wrong length, sorted, are the vectors of the n texts.

*Metadata.* `StoredIsSent`: the stored row is the last request that succeeded, its tags the
sorted list of the set that was meant. `TagsAreKept` is the lemma that no tag is lost by
sorting, so that two requests with one set compare equal and two with different ones do
not; it is the pigeonhole argument again.

**Only model-checked.** Liveness (`EveryCallEnds`, `MigrateEnds`, `SearchEnds`,
`SplitEnds`): fairness and ENABLED are out of reach of the prover.

## What is not modelled

- The hash embedder: floating-point feature hashing without state; nothing depends on its
  values.
- The checks of single values in `Config.validate` (one flag in `Search`), `Ping`, `Close`,
  the pool's opening, search diagnostics, the counts that the doctor prints, the
  quickstart, the straight-line OpenAI example, environment and test-database helpers,
  titles and file URIs of the ingest program, the HTTP request of the embedder: formats
  and I/O.
- Full-text scores and vector distances (given by the query), and what decides whether
  PostgreSQL uses the vector index and which rows it returns.
- Metadata other than integers: values that jsonb gives back in another form (see
  *Metadata* above).
- An embedder that writes to its slice before the search has returned.
- `MaxDocumentBytes` and `MaxChunkChars`: a content is too large or not (`Ingest`); in
  `DocumentWrites` both are a `Fail` of `Prepare`.
- SQL text, formats, error wording and durations.
- Isolation levels other than READ COMMITTED, and writers other than the SDK.

## Plan

Done, in the order of importance: `Database`, `DocumentWrites`, `KnowledgeBase`,
`Migration`, `QueryCache`, `Splitter`, `Search`, `Ingest`, `Metadata`, with the proofs
above, the refinement of `KnowledgeBase` included. Every safety property that a run checks
is proved. What could come next:

1. An abstract specification of the query cache (a key maps to its vector or to nothing)
   and a proof that `QueryCache` implements it.
2. For the liveness properties, the safety half of the argument: a variant that every
   step but a stutter makes smaller, for `Splitter` first.
