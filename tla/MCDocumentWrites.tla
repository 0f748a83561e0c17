--------------------------- MODULE MCDocumentWrites ---------------------------
(***************************************************************************)
(* Small instances of DocumentWrites for TLC.                              *)
(***************************************************************************)
EXTENDS DocumentWrites, TLC

CONSTANTS c1, c2, c3, c4,      \* calls
          k1, k2,              \* keys
          wiki,                \* a collection
          content1, content2,
          meta1, meta2

Symmetry == Permutations(Calls)

OneCollection == [k \in Keys |-> wiki]

\* Every document has an advisory lock of its own.
OwnLock == [k \in Keys |-> k]

\* Two documents whose lock keys collide.
OneLock == [k \in Keys |-> wiki]
OneLockKey == {wiki}

\* content1 makes two chunks; content2 makes one by recipe 0, two by recipe 1.
ChunkCounts ==
  [content \in Contents |-> [r \in 0 .. MaxRecipe |->
     IF content = content2 /\ r = 0 THEN 1 ELSE 2]]

Row(id, content, meta) ==
  [internalID |-> id, contentHash |-> content, meta |-> meta,
   chunkCount |-> ChunkCounts[content][0], updatedAt |-> 0]

EmptyTable == [k \in Keys |-> NoDocument]
OneDocument == [EmptyTable EXCEPT ![k1] = Row(1, content1, meta1)]
TwoDocuments == [k \in Keys |-> Row(IF k = k1 THEN 1 ELSE 2, content1, meta1)]

OneKeySeeds == {EmptyTable, OneDocument}
TwoKeySeeds == {TwoDocuments}

Upsert(k, content, meta) ==
  [op |-> "upsert", key |-> k, content |-> content, meta |-> meta]
Reindex(k, content, meta) ==
  [op |-> "reindex", key |-> k, content |-> content, meta |-> meta]
Delete(k) == [op |-> "delete", key |-> k]
DeleteAll == [op |-> "deleteCollection", collection |-> wiki]

\* Upserts that differ in content and in metadata (two of the same meet as a
\* change and as nothing to do), a forced rebuild, a delete.
OneKeyRequests ==
  {Upsert(k1, content1, meta2), Upsert(k1, content2, meta1),
   Reindex(k1, content1, meta1), Delete(k1)}

\* Sweeps against a write, or a delete, of either document.
TwoKeyRequests ==
  {DeleteAll, Upsert(k1, content2, meta1), Upsert(k2, content1, meta2), Delete(k1)}

\* Sweeps against rebuilds, refreshes and the creation of a document.
RefinementSeeds == {OneDocument}
RefinementRequests ==
  {DeleteAll, Delete(k1), Upsert(k1, content1, meta2), Upsert(k2, content1, meta1),
   Reindex(k1, content1, meta1)}

\* Two refreshes to the same metadata and two rebuilds of a content that every
\* recipe cuts into the same number of chunks: columns that can come back to
\* what they were.
ReturningSeeds == {OneDocument}
ReturningRequests == {Upsert(k1, content1, meta2), Reindex(k1, content1, meta1)}
==============================================================================
