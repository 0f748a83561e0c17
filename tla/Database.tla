------------------------------- MODULE Database -------------------------------
(***************************************************************************)
(* The PostgreSQL database behind one simplykb Store, as far as the SDK    *)
(* relies on it.  The row types are those of schema.go; the rest is        *)
(* external: READ COMMITTED transactions, pg_advisory_xact_lock, row locks *)
(* taken by SELECT ... FOR UPDATE and by DELETE, NOW(), and the bounded    *)
(* connection pool of pgxpool.                                             *)
(*                                                                         *)
(* A transaction's writes are invisible to the others until it commits, so *)
(* a transaction keeps them in `pending' and the tables change at COMMIT.  *)
(*                                                                         *)
(* A text that only has to be told apart from others is a value of a small *)
(* set: Contents stands for document contents (and, SHA-256 being taken as *)
(* injective, for their hashes); Metas for the retrieval-visible metadata  *)
(* (title, source uri, tags and metadata together).  The text and vector   *)
(* of a chunk are a function of the content, of the chunk's ordinal and of *)
(* the recipe, the era of the splitter and the embedder that prepared it.  *)
(***************************************************************************)
EXTENDS Integers, FiniteSets

CONSTANTS
  Calls,        \* the calls clients make, one each
  Keys,         \* the (collection, document id) pairs
  Collections,
  CollectionOf, \* the collection of a key
  LockKeys,     \* the advisory lock keys
  LockKeyOf,    \* documentLockKey: two keys may hash to the same lock key
  Contents,
  Metas,
  MaxRecipe,    \* bound on how often the splitter or the embedder changes
  ChunkCount,   \* how many chunks the splitter makes of a content
  FirstID,      \* the first value the id sequence hands out
  Seeds,        \* the document tables a run may start from
  MaxConns,     \* size of the connection pool
  NoDocument,
  Nobody

Recipes == 0 .. MaxRecipe

\* A row of kb_documents (its collection and external_id are its key).
Documents == [internalID: Nat, contentHash: Contents, meta: Metas,
              chunkCount: Nat, updatedAt: Nat]

\* A row of kb_chunks.
Chunks == [documentID: Nat, chunkNo: Nat, content: Contents,
           recipe: Recipes, meta: Metas]

\* What a transaction has written to one document and to its chunks.
Writes == [document: Documents \cup {NoDocument}, chunks: SUBSET Chunks]
NothingWritten == [document |-> NoDocument, chunks |-> {}]

ASSUME KeyAssumption ==
  /\ CollectionOf \in [Keys -> Collections]
  /\ LockKeyOf \in [Keys -> LockKeys]

ASSUME RecipeAssumption ==
  /\ MaxRecipe \in Nat
  /\ ChunkCount \in [Contents -> [Recipes -> Nat \ {0}]]

ASSUME SentinelAssumption ==
  /\ NoDocument \notin Documents
  /\ Nobody \notin Calls

ASSUME SeedAssumption ==
  /\ FirstID \in Nat
  /\ \A table \in Seeds :
       /\ table \in [Keys -> Documents \cup {NoDocument}]
       /\ \A k \in Keys : table[k] # NoDocument =>
            /\ table[k].internalID < FirstID
            /\ table[k].chunkCount = ChunkCount[table[k].contentHash][0]
            /\ table[k].updatedAt = 0
       /\ \A j, k \in Keys :
            /\ table[j] # NoDocument /\ table[k] # NoDocument
            /\ table[j].internalID = table[k].internalID
            => j = k

ASSUME PoolAssumption == MaxConns \in Nat \ {0}

-----------------------------------------------------------------------------
VARIABLES
  documents,  \* kb_documents, by key: UNIQUE (collection, external_id)
  chunks,     \* kb_chunks
  nextID,     \* the sequence behind kb_documents.id
  clock,      \* what NOW() last returned
  advisory,   \* the transaction that holds each advisory lock
  rowLock,    \* the transaction that holds the lock of each document row
  conns,      \* the calls that hold a connection of the pool
  now,        \* NOW() of the call's transaction: constant inside it
  pending     \* what the call's transaction has written so far

tables == <<documents, chunks>>
locks == <<advisory, rowLock>>
dbVars == <<documents, chunks, nextID, clock, advisory, rowLock, conns,
            now, pending>>

DatabaseTypeOK ==
  /\ documents \in [Keys -> Documents \cup {NoDocument}]
  /\ chunks \in SUBSET Chunks
  /\ nextID \in Nat
  /\ clock \in Nat
  /\ advisory \in [LockKeys -> Calls \cup {Nobody}]
  /\ rowLock \in [Keys -> Calls \cup {Nobody}]
  /\ conns \in SUBSET Calls
  /\ now \in [Calls -> Nat]
  /\ pending \in [Calls -> Writes]

ChunksOf(id) == {chunk \in chunks : chunk.documentID = id}

\* The rows replaceDocumentChunks inserts for a content cut by a recipe.
ChunkRows(id, content, recipe, meta) ==
  {[documentID |-> id, chunkNo |-> n, content |-> content,
    recipe |-> recipe, meta |-> meta] :
       n \in 0 .. (ChunkCount[content][recipe] - 1)}

DatabaseInit ==
  /\ documents \in Seeds
  /\ chunks = UNION {ChunkRows(documents[k].internalID,
                               documents[k].contentHash, 0, documents[k].meta) :
                        k \in {j \in Keys : documents[j] # NoDocument}}
  /\ nextID = FirstID
  /\ clock = 0
  /\ advisory = [l \in LockKeys |-> Nobody]
  /\ rowLock = [k \in Keys |-> Nobody]
  /\ conns = {}
  /\ now = [c \in Calls |-> 0]
  /\ pending = [c \in Calls |-> NothingWritten]

-----------------------------------------------------------------------------
ConnFree == Cardinality(conns) < MaxConns

\* A connection is taken from the pool, to be given back when the statement
\* or the transaction of the call ends.
AcquireConn(c) ==
  /\ ConnFree
  /\ conns' = conns \cup {c}

\* COMMIT, ROLLBACK or the exit of a backend: the locks are released and the
\* connection goes back to the pool.
EndTransaction(c) ==
  /\ advisory' = [l \in LockKeys |->
                    IF advisory[l] = c THEN Nobody ELSE advisory[l]]
  /\ rowLock' = [k \in Keys |->
                    IF rowLock[k] = c THEN Nobody ELSE rowLock[k]]
  /\ conns' = conns \ {c}
  /\ now' = [now EXCEPT ![c] = 0]
  /\ pending' = [pending EXCEPT ![c] = NothingWritten]

\* pg_advisory_xact_lock waits until nobody holds the lock.
AdvisoryIgnored(l) == TRUE  \* mutant: the result of pg_try_advisory_xact_lock is ignored
AdvisoryFree(l) == advisory[l] = Nobody

\* SELECT ... FOR UPDATE and DELETE wait for the lock of the row they find.
\* A row is found only if it is there.
RowFree(k) == documents[k] = NoDocument \/ rowLock[k] = Nobody

RowNotLocked(c, k) == UNCHANGED rowLock  \* mutant: SELECT without FOR UPDATE
LockRow(c, k) ==
  rowLock' = IF documents[k] = NoDocument
               THEN rowLock
               ELSE [rowLock EXCEPT ![k] = c]

\* mutant: the foreign key does not cascade
DeleteRowsOnly(gone) ==
  /\ documents' = [k \in Keys |->
                     IF k \in gone THEN NoDocument ELSE documents[k]]
  /\ UNCHANGED chunks

\* ON DELETE CASCADE: the chunks of a deleted row go with it.
DeleteRows(gone) ==
  /\ documents' = [k \in Keys |->
                     IF k \in gone THEN NoDocument ELSE documents[k]]
  /\ chunks' = {chunk \in chunks :
                  \A k \in gone : \/ documents[k] = NoDocument
                                  \/ chunk.documentID # documents[k].internalID}

\* The tables once the writes of one transaction are committed: one document
\* row, and the chunk rows of that document.
StoreRows(k, written) ==
  IF written.document = NoDocument
    THEN UNCHANGED tables
    ELSE /\ documents' = [documents EXCEPT ![k] = written.document]
         /\ chunks' = (chunks \ ChunksOf(written.document.internalID))
                        \cup written.chunks
==============================================================================
