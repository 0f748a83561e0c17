---------------------------- MODULE DocumentWrites ----------------------------
(***************************************************************************)
(* The operations of a simplykb Store that change documents: the two       *)
(* writes UpsertDocument and ReindexDocument (store.go, writeDocument and  *)
(* what it calls), DeleteDocument and DeleteCollection.                    *)
(*                                                                         *)
(* A process is one call, made by some goroutine of some program that uses *)
(* the database.  An action is one statement sent to PostgreSQL, or one    *)
(* stretch of Go between two statements.  A write                          *)
(*                                                                         *)
(*   load          reads the document without a lock and classifies the    *)
(*                 write: cheap (nothing to do, or metadata only) or a     *)
(*                 rebuild of the chunks,                                  *)
(*   prepare       for a rebuild, splits and embeds outside a transaction, *)
(*   begin, lock   opens a transaction and takes the advisory lock of the  *)
(*                 document,                                               *)
(*   recheck       reads the row again FOR UPDATE, and starts over, once,  *)
(*                 if the first reading no longer justifies the path,      *)
(*   refresh | upsertRow, replaceChunks | nothing, then commit.            *)
(*                                                                         *)
(* The deletes take no advisory lock: only row locks order them with the   *)
(* writes.  A call can fail at any moment (context cancelled, connection   *)
(* lost, splitter, embedder or statement error, client process killed).    *)
(* What its backend was doing goes on until the server notices, and a      *)
(* COMMIT or an autocommit statement already sent may still take effect.   *)
(***************************************************************************)
EXTENDS Database

CONSTANTS
  Requests,    \* the requests a call may make
  Failing,     \* the calls that may fail
  CoarseClock  \* whether two transactions may begin in one tick of NOW()

WriteRequests == [op: {"upsert", "reindex"}, key: Keys,
                  content: Contents, meta: Metas]
DeleteRequests == [op: {"delete"}, key: Keys]
SweepRequests == [op: {"deleteCollection"}, collection: Collections]

ASSUME RequestAssumption ==
  /\ Requests \subseteq WriteRequests \cup DeleteRequests \cup SweepRequests
  /\ Failing \subseteq Calls
  /\ CoarseClock \in BOOLEAN

VARIABLES
  req,       \* the request of each call; it never changes
  pc,        \* what each call does next
  attempt,   \* writeDocument: 0, then 1 after a restart
  expected,  \* writeDocument: `existing', the snapshot read without a lock
  prepared,  \* writeDocument: the recipe of the prepared chunks, or Cheap
  locked,    \* the snapshot read FOR UPDATE
  target,    \* the rows a DELETE statement found, by their ids
  outcome,   \* what the client was told
  recipe     \* the splitter and the embedder now in force

vars == <<documents, chunks, nextID, clock, advisory, rowLock, conns, now,
          pending, req, pc, attempt, expected, prepared, locked, target,
          outcome, recipe>>

Cheap == -1

WritePcs == {"load", "prepare", "begin", "lock", "recheck", "refresh",
             "upsertRow", "replaceChunks", "commit"}
DeletePcs == {"delete", "aim", "deleteRow"}
SweepPcs == {"sweep", "sweepRows", "commitSweep"}
\* landed: the tables changed (or were found right); abandoned: the client is
\* gone and the backend is about to roll back; aborted: nothing was changed.
OtherPcs == {"idle", "landed", "abandoned", "aborted"}

\* The calls whose transaction has read its document FOR UPDATE.
Rechecked == {"refresh", "upsertRow", "replaceChunks", "commit"}

IsWrite(c) == req[c].op \in {"upsert", "reindex"}

\* The documents a call is about.
Named(c) == IF req[c].op = "deleteCollection"
              THEN {k \in Keys : CollectionOf[k] = req[c].collection}
              ELSE {req[c].key}

\* The rows a call's DELETE still has to remove.
Wanted(c) == {k \in Keys : /\ documents[k] # NoDocument
                           /\ documents[k].internalID \in target[c]}

TypeOK ==
  /\ DatabaseTypeOK
  /\ req \in [Calls -> Requests]
  /\ pc \in [Calls -> WritePcs \cup DeletePcs \cup SweepPcs \cup OtherPcs]
  /\ attempt \in [Calls -> 0 .. 1]
  /\ expected \in [Calls -> Documents \cup {NoDocument}]
  /\ prepared \in [Calls -> Recipes \cup {Cheap}]
  /\ locked \in [Calls -> Documents \cup {NoDocument}]
  /\ target \in [Calls -> SUBSET Nat]
  /\ outcome \in [Calls -> {"pending", "ok", "conflict", "error"}]
  /\ recipe \in Recipes

-----------------------------------------------------------------------------
\* classifyDocumentWrite
Classify(found, r, force) ==
  IF force \/ found = NoDocument THEN "reindex"
  ELSE IF found.chunkCount <= 0 \/ found.contentHash # r.content THEN "reindex"
  ELSE IF found.meta # r.meta THEN "refresh"
  ELSE "noop"

\* mutant: updated_at is not compared
SameButTime(left, right) ==
  \/ left = right
  \/ /\ left # NoDocument /\ right # NoDocument
     /\ left = [right EXCEPT !.updatedAt = left.updatedAt]

\* documentSnapshotsEqual compares every column the snapshot has.
SnapshotsEqual(left, right) == left = right

\* mutant: the cheap path trusts the classification of the first reading
TrustFirstReading(c, found) ==
  prepared[c] # Cheap /\ ~SnapshotsEqual(found, expected[c])

\* What the locked re-check decides.  On the cheap path any classification
\* but a rebuild is still good; a rebuild goes on only from the snapshot it
\* was prepared for (which is then classified as it was before).
MustRestart(c, found) ==
  IF prepared[c] = Cheap
    THEN Classify(found, req[c], FALSE) = "reindex"
    ELSE ~SnapshotsEqual(found, expected[c])

\* restartDocumentWrite restarts a write once.
RestartTwice(c) == attempt[c] <= 1  \* mutant: off by one
NoRestart(c) == FALSE               \* mutant: conflict at the first re-check
MayRestart(c) == attempt[c] < 1

\* mutant: the first reading decides whether the metadata are refreshed
NextStepAsFirstRead(c, found) ==
  IF prepared[c] # Cheap THEN "upsertRow"
  ELSE IF Classify(expected[c], req[c], FALSE) = "refresh" THEN "refresh"
  ELSE "commit"

\* What a call that passed the re-check does next.
NextStep(c, found) ==
  IF prepared[c] # Cheap THEN "upsertRow"
  ELSE IF Classify(found, req[c], FALSE) = "refresh" THEN "refresh"
  ELSE "commit"

\* The document an INSERT ... ON CONFLICT DO UPDATE leaves.
UpsertedRow(c, found) ==
  [internalID  |-> IF found = NoDocument THEN nextID ELSE found.internalID,
   contentHash |-> req[c].content,
   meta        |-> req[c].meta,
   chunkCount  |-> IF found = NoDocument THEN 0 ELSE found.chunkCount,
   updatedAt   |-> now[c]]

\* mutant: refreshDocumentMetadata leaves the chunk rows alone
ChunksNotRefreshed(c) == ChunksOf(locked[c].internalID)

\* The chunk rows refreshDocumentMetadata leaves.
RefreshedChunks(c) ==
  {[chunk EXCEPT !.meta = req[c].meta] : chunk \in ChunksOf(locked[c].internalID)}

\* The chunk count newDocumentStats reports to the caller.
ReportedChunkCount(c) ==
  IF prepared[c] = Cheap THEN locked[c].chunkCount
  ELSE ChunkCount[req[c].content][prepared[c]]

-----------------------------------------------------------------------------
Init ==
  /\ DatabaseInit
  /\ req \in [Calls -> Requests]
  /\ pc = [c \in Calls |-> "idle"]
  /\ attempt = [c \in Calls |-> 0]
  /\ expected = [c \in Calls |-> NoDocument]
  /\ prepared = [c \in Calls |-> Cheap]
  /\ locked = [c \in Calls |-> NoDocument]
  /\ target = [c \in Calls |-> {}]
  /\ outcome = [c \in Calls |-> "pending"]
  /\ recipe = 0

Goto(c, step) == pc' = [pc EXCEPT ![c] = step]
Return(c, answer) == outcome' = [outcome EXCEPT ![c] = answer]

\* The call is over, and its local variables with it.
Forget(c) ==
  /\ expected' = [expected EXCEPT ![c] = NoDocument]
  /\ prepared' = [prepared EXCEPT ![c] = Cheap]
  /\ locked' = [locked EXCEPT ![c] = NoDocument]

\* A client calls the SDK.
Start(c) ==
  /\ pc[c] = "idle"
  /\ Goto(c, CASE IsWrite(c) -> "load"
               [] req[c].op = "delete" -> "delete"
               [] req[c].op = "deleteCollection" -> "sweep")
  /\ UNCHANGED <<dbVars, req, attempt, expected, prepared, locked, target, outcome, recipe>>

\* writeDocument reads the document without a lock and classifies the write.
\* The SELECT takes a connection for as long as it runs.
LoadSnapshot(c) ==
  /\ pc[c] = "load"
  /\ ConnFree
  /\ LET found == documents[req[c].key]
     IN  /\ expected' = [expected EXCEPT ![c] = found]
         /\ Goto(c, IF Classify(found, req[c], req[c].op = "reindex") = "reindex"
                      THEN "prepare" ELSE "begin")
  /\ prepared' = [prepared EXCEPT ![c] = Cheap]
  /\ UNCHANGED <<dbVars, req, attempt, locked, target, outcome, recipe>>

\* prepareDocumentWrite: the splitter and the embedder run outside any
\* transaction, at some moment between the two readings of the document.
Prepare(c) ==
  /\ pc[c] = "prepare"
  /\ prepared' = [prepared EXCEPT ![c] = recipe]
  /\ Goto(c, "begin")
  /\ UNCHANGED <<dbVars, req, attempt, expected, locked, target, outcome, recipe>>

\* Two transactions begin in the same microsecond: none of those that began in
\* it has got any further yet.
SameTick ==
  /\ CoarseClock
  /\ \E d \in Calls : pc[d] = "lock" /\ now[d] = clock
  /\ \A d \in Calls : now[d] = clock => pc[d] = "lock"
  /\ \A k \in Keys : documents[k] # NoDocument => documents[k].updatedAt < clock

\* BEGIN fixes NOW() for the transaction, in microseconds of the clock of the
\* server.
BeginTx(c) ==
  /\ pc[c] = "begin"
  /\ AcquireConn(c)
  /\ \/ clock' = clock + 1
     \/ SameTick /\ clock' = clock
  /\ now' = [now EXCEPT ![c] = clock']
  /\ Goto(c, "lock")
  /\ UNCHANGED <<documents, chunks, nextID, advisory, rowLock, pending, req,
                 attempt, expected, prepared, locked, target, outcome, recipe>>

\* acquireDocumentWriteLock: pg_advisory_xact_lock waits for its holder.
AcquireDocumentWriteLock(c) ==
  LET l == LockKeyOf[req[c].key]
  IN  /\ pc[c] = "lock"
      /\ AdvisoryFree(l)
      /\ advisory' = [advisory EXCEPT ![l] = c]
      /\ Goto(c, "recheck")
      /\ UNCHANGED <<documents, chunks, nextID, clock, rowLock, conns, now,
                     pending, req, attempt, expected, prepared, locked, target,
                     outcome, recipe>>

\* The row is read FOR UPDATE and still justifies the path taken.
RecheckPasses(c) ==
  LET k == req[c].key
  IN  /\ pc[c] = "recheck"
      /\ RowFree(k)
      /\ ~MustRestart(c, documents[k])
      /\ LockRow(c, k)
      /\ locked' = [locked EXCEPT ![c] = documents[k]]
      /\ Goto(c, NextStep(c, documents[k]))
      /\ UNCHANGED <<documents, chunks, nextID, clock, advisory, conns, now,
                     pending, req, attempt, expected, prepared, target,
                     outcome, recipe>>

\* A write starts over, or gives up with ErrDocumentChangedConcurrently.
Restart(c) ==
  IF MayRestart(c)
    THEN /\ attempt' = [attempt EXCEPT ![c] = @ + 1]
         /\ Goto(c, "load")
         /\ UNCHANGED outcome
    ELSE /\ Return(c, "conflict")
         /\ Goto(c, "aborted")
         /\ UNCHANGED attempt

\* mutant: the write starts over inside the transaction it should have left
RestartInTransaction(c) ==
  /\ pc[c] = "recheck"
  /\ RowFree(req[c].key)
  /\ MustRestart(c, documents[req[c].key])
  /\ Restart(c)
  /\ Forget(c)
  /\ UNCHANGED <<documents, chunks, nextID, clock, advisory, rowLock, conns, now,
                 pending, req, target, recipe>>

\* It does not: the transaction is rolled back, and the write starts over
\* unless it has done so before (restartDocumentWrite).
RecheckRestarts(c) ==
  /\ pc[c] = "recheck"
  /\ RowFree(req[c].key)
  /\ MustRestart(c, documents[req[c].key])
  /\ EndTransaction(c)
  /\ Restart(c)
  /\ Forget(c)
  /\ UNCHANGED <<documents, chunks, nextID, clock, req, target, recipe>>

\* refreshDocumentMetadata updates the document row and its chunk rows.
RefreshDocumentMetadata(c) ==
  /\ pc[c] = "refresh"
  /\ pending' = [pending EXCEPT ![c] =
       [document |-> [locked[c] EXCEPT !.meta = req[c].meta, !.updatedAt = now[c]],
        chunks |-> RefreshedChunks(c)]]
  /\ Goto(c, "commit")
  /\ UNCHANGED <<documents, chunks, nextID, clock, advisory, rowLock, conns,
                 now, req, attempt, expected, prepared, locked, target, outcome, recipe>>

\* upsertDocumentRow.  (The gaps the sequence gets when the row exists, or
\* when a transaction rolls back, make no difference.)
UpsertDocumentRow(c) ==
  LET found == documents[req[c].key]
  IN  /\ pc[c] = "upsertRow"
      /\ pending' = [pending EXCEPT ![c] =
                       [document |-> UpsertedRow(c, found),
                        chunks |-> IF found = NoDocument THEN {}
                                   ELSE ChunksOf(found.internalID)]]
      /\ nextID' = IF found = NoDocument THEN nextID + 1 ELSE nextID
      /\ Goto(c, "replaceChunks")
      /\ UNCHANGED <<documents, chunks, clock, advisory, rowLock, conns, now,
                     req, attempt, expected, prepared, locked, target, outcome, recipe>>

\* replaceDocumentChunks deletes the rows there are, inserts the prepared
\* ones and records their number.
ReplaceDocumentChunks(c) ==
  LET row == pending[c].document
  IN  /\ pc[c] = "replaceChunks"
      /\ pending' = [pending EXCEPT ![c] =
           [document |-> [row EXCEPT
                            !.chunkCount = ChunkCount[req[c].content][prepared[c]],
                            !.updatedAt = now[c]],
            chunks |-> ChunkRows(row.internalID, req[c].content, prepared[c],
                                 req[c].meta)]]
      /\ Goto(c, "commit")
      /\ UNCHANGED <<documents, chunks, nextID, clock, advisory, rowLock, conns,
                     now, req, attempt, expected, prepared, locked, target,
                     outcome, recipe>>

\* A statement or a COMMIT has taken effect: the client is told so, unless
\* it has given up waiting.
Landed(c) ==
  /\ EndTransaction(c)
  /\ Forget(c)
  /\ Goto(c, "landed")
  /\ Return(c, IF outcome[c] = "pending" THEN "ok" ELSE outcome[c])

Commit(c) ==
  /\ pc[c] = "commit"
  /\ StoreRows(req[c].key, pending[c])
  /\ Landed(c)
  /\ UNCHANGED <<nextID, clock, req, attempt, target, recipe>>

-----------------------------------------------------------------------------
\* DeleteDocument sends its one statement, which is a transaction of its own.
DeleteDocument(c) ==
  /\ pc[c] = "delete"
  /\ AcquireConn(c)
  /\ Goto(c, "aim")
  /\ UNCHANGED <<documents, chunks, nextID, clock, advisory, rowLock, now,
                 pending, req, attempt, expected, prepared, locked, target,
                 outcome, recipe>>

\* The server takes the snapshot of the statement: it deletes the rows this
\* snapshot has, whatever becomes of them, and no row inserted later.
AimDelete(c) ==
  /\ pc[c] = "aim"
  /\ target' = [target EXCEPT ![c] =
       {documents[k].internalID : k \in {j \in Named(c) : documents[j] # NoDocument}}]
  /\ Goto(c, "deleteRow")
  /\ UNCHANGED <<dbVars, req, attempt, expected, prepared, locked, outcome, recipe>>

\* The row found is deleted once its lock is free, if it is still there; the
\* statement commits by itself.
DeleteRow(c) ==
  /\ pc[c] = "deleteRow"
  /\ \A k \in Wanted(c) : RowFree(k)
  /\ DeleteRows(Wanted(c))
  /\ Landed(c)
  /\ UNCHANGED <<nextID, clock, req, attempt, target, recipe>>

\* DeleteCollection opens a transaction, and its DELETE takes the snapshot of
\* the rows to delete.
DeleteCollection(c) ==
  /\ pc[c] = "sweep"
  /\ AcquireConn(c)
  /\ target' = [target EXCEPT ![c] =
       {documents[k].internalID : k \in {j \in Named(c) : documents[j] # NoDocument}}]
  /\ Goto(c, "sweepRows")
  /\ UNCHANGED <<documents, chunks, nextID, clock, advisory, rowLock, now,
                 pending, req, attempt, expected, prepared, locked, outcome, recipe>>

\* The DELETE locks and marks the rows one by one, in any order.
SweepRow(c, k) ==
  /\ pc[c] = "sweepRows"
  /\ k \in Wanted(c)
  /\ rowLock[k] = Nobody
  /\ rowLock' = [rowLock EXCEPT ![k] = c]
  /\ UNCHANGED <<documents, chunks, nextID, clock, advisory, conns, now,
                 pending, req, pc, attempt, expected, prepared, locked, target,
                 outcome, recipe>>

\* mutant: rows that others have locked are skipped, too
AllSweptOrLocked(c) == \A k \in Wanted(c) : rowLock[k] # Nobody

\* Rows that others have deleted meanwhile are skipped.
AllSwept(c) == \A k \in Wanted(c) : rowLock[k] = c

SweepDone(c) ==
  /\ pc[c] = "sweepRows"
  /\ AllSwept(c)
  /\ Goto(c, "commitSweep")
  /\ UNCHANGED <<dbVars, req, attempt, expected, prepared, locked, target,
                 outcome, recipe>>

CommitSweep(c) ==
  /\ pc[c] = "commitSweep"
  /\ DeleteRows({k \in Keys : rowLock[k] = c})
  /\ Landed(c)
  /\ UNCHANGED <<nextID, clock, req, attempt, target, recipe>>

\* Sweeps that lock the same rows in different orders can wait for each other
\* in a circle; PostgreSQL then makes the statement of one of them fail.
DeadlockVictim(c) ==
  /\ \E circle \in SUBSET Calls :
       /\ c \in circle
       /\ \A s \in circle :
            LET waits == {k \in Wanted(s) : rowLock[k] # s}
            IN  /\ pc[s] = "sweepRows"
                /\ waits # {}
                /\ \A k \in waits : rowLock[k] \in circle
  /\ EndTransaction(c)
  /\ Goto(c, "aborted")
  /\ Return(c, IF outcome[c] = "pending" THEN "error" ELSE outcome[c])
  /\ UNCHANGED <<documents, chunks, nextID, clock, req, attempt, expected,
                 prepared, locked, target, recipe>>

-----------------------------------------------------------------------------
CloseConn(c) == conns' = conns \ {c}

\* The client is told of an error and its connection is closed.  A COMMIT or
\* an autocommit statement that was already sent stays with the server; any
\* other open transaction waits for its backend to exit.
Fail(c) ==
  /\ c \in Failing
  /\ outcome[c] = "pending"
  /\ pc[c] \notin OtherPcs
  /\ Return(c, "error")
  /\ CloseConn(c)
  /\ Goto(c, CASE pc[c] \in {"load", "prepare", "begin", "delete", "sweep"} -> "aborted"
               [] pc[c] \in {"commit", "aim", "deleteRow", "commitSweep"} -> pc[c]
               [] OTHER -> "abandoned")
  /\ UNCHANGED <<documents, chunks, nextID, clock, advisory, rowLock, now,
                 pending, req, attempt, expected, prepared, locked, target, recipe>>

\* The server notices that the client is gone and rolls back.
BackendExit(c) ==
  /\ outcome[c] = "error"
  /\ pc[c] \in {"abandoned", "commit", "aim", "deleteRow", "commitSweep"}
  /\ EndTransaction(c)
  /\ Forget(c)
  /\ Goto(c, "aborted")
  /\ UNCHANGED <<documents, chunks, nextID, clock, req, attempt, target, outcome,
                 recipe>>

\* A new splitter or embedder is put in force.
Rollout ==
  /\ recipe < MaxRecipe
  /\ recipe' = recipe + 1
  /\ UNCHANGED <<dbVars, req, pc, attempt, expected, prepared, locked, target,
                 outcome>>

\* All calls are over.
Terminated ==
  /\ \A c \in Calls : pc[c] \in {"landed", "aborted"}
  /\ UNCHANGED vars

\* What a call that was made goes on to do, its failures apart.
Step(c) ==
  \/ LoadSnapshot(c)
  \/ Prepare(c)
  \/ BeginTx(c)
  \/ AcquireDocumentWriteLock(c)
  \/ RecheckPasses(c)
  \/ RecheckRestarts(c)
  \/ RefreshDocumentMetadata(c)
  \/ UpsertDocumentRow(c)
  \/ ReplaceDocumentChunks(c)
  \/ Commit(c)
  \/ DeleteDocument(c)
  \/ AimDelete(c)
  \/ DeleteRow(c)
  \/ DeleteCollection(c)
  \/ \E k \in Keys : SweepRow(c, k)
  \/ SweepDone(c)
  \/ CommitSweep(c)
  \/ DeadlockVictim(c)
  \/ BackendExit(c)

Next ==
  \/ \E c \in Calls : Start(c) \/ Step(c) \/ Fail(c)
  \/ Rollout
  \/ Terminated

Spec == Init /\ [][Next]_vars

\* A call that was made goes on: its goroutine runs, statements end, the lock
\* queues of PostgreSQL are first come first served and so is the queue of
\* the pool, deadlocks are detected, and a backend whose client is gone ends.
\* Nobody has to make a call, nothing has to fail.
FairSpec == Spec /\ \A c \in Calls : WF_vars(Step(c))

-----------------------------------------------------------------------------
(***************************************************************************)
(* Properties.                                                             *)
(***************************************************************************)

\* Whatever calls ran and failed, each document row has exactly the chunk rows
\* of its own content, cut by one recipe and carrying the row's metadata, as
\* many as chunk_count says; and no chunk row is without its document.
ChunksMatchDocument ==
  /\ \A k \in Keys : documents[k] # NoDocument =>
       LET row == documents[k]
       IN  \E r \in Recipes :
             /\ ChunksOf(row.internalID) =
                  ChunkRows(row.internalID, row.contentHash, r, row.meta)
             /\ row.chunkCount = ChunkCount[row.contentHash][r]
  /\ \A chunk \in chunks : \E k \in Keys :
       /\ documents[k] # NoDocument
       /\ documents[k].internalID = chunk.documentID

\* From the re-check of a write to its COMMIT no other call changes the
\* document, not even one that takes no advisory lock: what the re-check read
\* is what the write replaces.
LockedSnapshotCurrent ==
  \A c \in Calls : pc[c] \in Rechecked => documents[req[c].key] = locked[c]

\* Row locks and advisory locks together leave at most one write per document
\* between its re-check and its COMMIT, whatever the calls that failed left
\* behind in the server.
WritersExclude ==
  \A c, d \in Calls :
    /\ pc[c] \in Rechecked
    /\ pc[d] \in Rechecked
    /\ req[c].key = req[d].key
    => c = d

\* A row that a finished DeleteDocument or DeleteCollection found is gone for
\* good: no write that was under way, and no stale rebuild, brings the row
\* or a chunk of it back.
DeletedStaysDeleted ==
  \A c \in Calls : pc[c] = "landed" =>
    /\ Wanted(c) = {}
    /\ \A chunk \in chunks : chunk.documentID \notin target[c]

\* ErrDocumentChangedConcurrently is returned only when two other calls that
\* name the document have landed: never to a write that is alone, and never
\* for the sake of one other call, whose one change is what the restart is for.
\* The formula does not say at which reading each of the two landed.
ConflictMeansOvertaken ==
  \A c \in Calls : outcome[c] = "conflict" =>
    \E d, e \in Calls \ {c} :
      /\ d # e
      /\ \A f \in {d, e} : pc[f] = "landed" /\ req[c].key \in Named(f)

\* A call that is over, however it ended, holds no lock and no connection, and
\* no call of a client that went away keeps a connection of the pool.
NothingLeaked ==
  \A c \in Calls :
    /\ pc[c] \in {"idle", "landed", "aborted"} =>
         /\ \A l \in LockKeys : advisory[l] # c
         /\ \A k \in Keys : rowLock[k] # c
    /\ c \in conns => outcome[c] = "pending" /\ pc[c] \notin OtherPcs

\* When a write succeeds, the document and its chunks are what was asked for
\* at that very moment, and the chunk count reported is that of the table.
SuccessMeansStored ==
  [][\A c \in Calls : outcome[c] = "pending" /\ outcome'[c] = "ok" /\ IsWrite(c) =>
       LET row == documents'[req[c].key]
       IN  /\ row # NoDocument
           /\ row.contentHash = req[c].content
           /\ row.meta = req[c].meta
           /\ Cardinality({chunk \in chunks' : chunk.documentID = row.internalID})
                = ReportedChunkCount(c)]_vars

\* A rebuild never puts chunks prepared by an older splitter or embedder in
\* the place of chunks prepared by a newer one: the document is a stale
\* reindex's to overwrite only if nobody touched it since it was read.
RecipeNeverRegresses ==
  [][\A old \in chunks, new \in chunks' :
       old.documentID = new.documentID => old.recipe <= new.recipe]_vars

\* updated_at moves only when the document or its chunks change: an upsert
\* that finds its content and metadata already there leaves the row alone,
\* also when it found out only under the lock.
NoIdleTouch ==
  [][\A c \in Calls : req[c].op = "upsert" /\ pc[c] # pc'[c] /\ pc'[c] = "landed" =>
       LET old == documents[req[c].key]
           new == documents'[req[c].key]
       IN  old # NoDocument /\ old.contentHash = new.contentHash
             /\ old.meta = new.meta => UNCHANGED tables]_vars

\* A write that reported an error leaves the documents as they are.  The code
\* cannot promise it of an error of COMMIT itself.
FailureChangesNothing ==
  [][\A c \in Calls : IsWrite(c) /\ outcome[c] = "error" /\ pc'[c] # pc[c] =>
       UNCHANGED tables]_vars

\* Every call that is made ends, with an answer to its client and its backend
\* gone, whatever the pool's size and whoever failed.
EveryCallEnds ==
  \A c \in Calls : pc[c] # "idle" ~>
    outcome[c] # "pending" /\ pc[c] \in {"landed", "aborted"}

-----------------------------------------------------------------------------
(***************************************************************************)
(* The writes implement KnowledgeBase.                                     *)
(***************************************************************************)

\* The recipe of a document's chunks.
StoredRecipe(k) ==
  (CHOOSE chunk \in chunks : chunk.documentID = documents[k].internalID).recipe

StoredEntry(k) ==
  IF documents[k] = NoDocument THEN NoDocument
  ELSE [content |-> documents[k].contentHash, meta |-> documents[k].meta,
        recipe |-> StoredRecipe(k)]

KB == INSTANCE KnowledgeBase WITH
        Absent <- NoDocument,
        ask <- req,
        answer <- outcome,
        landed <- [c \in Calls |-> pc[c] = "landed"],
        aim <- [c \in Calls |-> IF pc[c] = "landed" THEN {} ELSE Wanted(c)],
        kb <- [k \in Keys |-> StoredEntry(k)]

ASSUME EntryAssumption == NoDocument \notin KB!Entries

\* Every call takes effect at one instant or not at all: interleaved, failing
\* and restarted calls change the documents as KnowledgeBase lets them.
ImplementsKnowledgeBase == KB!KBSpec
==============================================================================
