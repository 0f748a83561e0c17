------------------------------ MODULE QueryCache ------------------------------
(***************************************************************************)
(* The query embedding cache of one Store (query_cache.go) and the search  *)
(* path that fills it (store.go, searchQueryVector): goroutines ask for    *)
(* the vector of a query, look it up under the mutex, and embed it outside *)
(* the mutex when it is not there.                                         *)
(*                                                                         *)
(* A step is one stretch of code under the mutex or between two of them;   *)
(* what Get and Put do under the mutex is split, so that the mutex and not *)
(* the model makes them atomic.  `memory' has the vectors a search can     *)
(* allocate: the one its embedder returns, the copy it puts into the cache *)
(* and the copy it gives to its caller.  The right content of a vector is  *)
(* its key: the keyer promises that a key determines the vector.  Wrong is *)
(* a vector of wrong length, Junk one that its owner has overwritten.      *)
(***************************************************************************)
EXTENDS Integers, Sequences, FiniteSets

CONSTANTS
  Searches,   \* the goroutines that search, once each
  Keys,       \* cache keys
  Capacity,   \* Config.QueryEmbeddingCacheSize; 0 disables the cache
  Nobody, NoKey, Junk, Wrong

Vectors == {"embedded", "cached", "returned"} \X Searches
Entries == [key: Keys, vector: Vectors]

ASSUME CacheAssumption ==
  /\ Capacity \in Nat
  /\ NoKey \notin Keys
  /\ Nobody \notin Searches
  /\ {Junk, Wrong} \cap Keys = {}

VARIABLES
  mutex,    \* who holds c.mu
  ll,       \* the list, most recently used first
  entries,  \* the keys of the map
  memory,   \* the content of each vector
  query,    \* what each search is looking for: a key, and whether it is cacheable
  pc,
  result,   \* the vector returned
  status,   \* the QueryEmbeddingCacheStatus reported
  ticks,    \* (history) how often the cache has been hit or put into
  used      \* (history) the tick of the last use of each key, 0 before the first

vars == <<mutex, ll, entries, memory, query, pc, result, status, ticks, used>>

Pcs == {"idle", "get", "lookup", "embed", "put", "store", "push", "copy",
        "returned", "failed"}
Statuses == {"none", "disabled", "bypassed", "miss", "hit"}

TypeOK ==
  /\ mutex \in Searches \cup {Nobody}
  /\ ll \in Seq(Entries)
  /\ entries \in SUBSET Keys
  /\ memory \in [Vectors -> Keys \cup {Junk, Wrong}]
  /\ query \in [Searches -> [key: Keys \cup {NoKey}, cached: BOOLEAN]]
  /\ pc \in [Searches -> Pcs]
  /\ result \in [Searches -> Vectors]
  /\ status \in [Searches -> Statuses]
  /\ ticks \in Nat
  /\ used \in [Keys -> Nat]

Init ==
  /\ mutex = Nobody
  /\ ll = <<>>
  /\ entries = {}
  /\ memory = [vector \in Vectors |-> Junk]
  /\ query = [g \in Searches |-> [key |-> NoKey, cached |-> FALSE]]
  /\ pc = [g \in Searches |-> "idle"]
  /\ result = [g \in Searches |-> <<"returned", g>>]
  /\ status = [g \in Searches |-> "none"]
  /\ ticks = 0
  /\ used = [k \in Keys |-> 0]

Goto(g, step) == pc' = [pc EXCEPT ![g] = step]

\* mutant: cloneVector returns its argument
Share(g, vector) ==
  /\ memory' = memory
  /\ result' = [result EXCEPT ![g] = vector]
\* The search returns a copy of a vector.
ReturnClone(g, vector) ==
  /\ memory' = [memory EXCEPT ![<<"returned", g>>] = memory[vector]]
  /\ result' = [result EXCEPT ![g] = <<"returned", g>>]

Used(k) ==
  /\ ticks' = ticks + 1
  /\ used' = [used EXCEPT ![k] = ticks + 1]

\* mutant: no mutex
MutexIgnored == TRUE
MutexFree == mutex = Nobody

\* mutant: an early return without Unlock
KeepMutex == UNCHANGED mutex
Unlock == mutex' = Nobody

Positions(k) == {i \in 1 .. Len(ll) : ll[i].key = k}

\* container/list
Remove(list, i) == SubSeq(list, 1, i - 1) \o SubSeq(list, i + 1, Len(list))
\* mutant: an entry that is used stays where it is
LeaveInPlace(k) == ll
MoveToFront(k) ==
  IF Positions(k) = {} THEN ll
  ELSE LET i == CHOOSE i \in Positions(k) : TRUE
       IN  <<ll[i]>> \o Remove(ll, i)

-----------------------------------------------------------------------------
\* mutant: an empty key is accepted
EmptyKeyToo == Keys \cup {NoKey}
AcceptedKeys == Keys

\* resolveQueryEmbeddingCacheKey: the keyer of the embedder chooses a key or
\* bypasses the cache; it may fail, or give an empty key, which fails too.
ResolveKey(g) ==
  /\ pc[g] = "idle"
  /\ \E k \in AcceptedKeys :
       \/ /\ Capacity > 0
          /\ query' = [query EXCEPT ![g] = [key |-> k, cached |-> TRUE]]
          /\ status' = [status EXCEPT ![g] = "miss"]
          /\ Goto(g, "get")
       \/ /\ query' = [query EXCEPT ![g] = [key |-> k, cached |-> FALSE]]
          /\ status' = [status EXCEPT ![g] =
               IF Capacity > 0 THEN "bypassed" ELSE "disabled"]
          /\ Goto(g, "embed")
       \/ /\ Capacity > 0
          /\ Goto(g, "failed")
          /\ UNCHANGED <<query, status>>
  /\ UNCHANGED <<mutex, ll, entries, memory, result, ticks, used>>

\* Get locks the mutex and looks the key up in the map.
Get(g) ==
  /\ pc[g] = "get"
  /\ MutexFree
  /\ IF query[g].key \in entries
       THEN /\ mutex' = g
            /\ Goto(g, "lookup")
       ELSE /\ Unlock
            /\ Goto(g, "embed")
  /\ UNCHANGED <<ll, entries, memory, query, result, status, ticks, used>>

\* A hit: the entry moves to the front, and a copy of its vector is returned.
GetHit(g) ==
  LET k == query[g].key
  IN  /\ pc[g] = "lookup"
      /\ ll' = MoveToFront(k)
      /\ \E i \in Positions(k) : ReturnClone(g, ll[i].vector)
      /\ status' = [status EXCEPT ![g] = "hit"]
      /\ Used(k)
      /\ Unlock
      /\ Goto(g, "returned")
      /\ UNCHANGED <<entries, query>>

\* The lengths accepted; mutant: all of them
AnyLength(content) == TRUE
RightLength(content) == content # Wrong

\* Embed runs without the mutex.  It fails, or returns a vector, which the
\* search refuses when its length is not EmbeddingDimensions.
Embed(g) ==
  /\ pc[g] = "embed"
  /\ \/ /\ Goto(g, "failed")
        /\ UNCHANGED memory
     \/ \E content \in {query[g].key, Wrong} :
          /\ memory' = [memory EXCEPT ![<<"embedded", g>>] = content]
          /\ Goto(g, IF ~RightLength(content) THEN "failed"
                     ELSE IF query[g].cached THEN "put" ELSE "copy")
  /\ UNCHANGED <<mutex, ll, entries, query, result, status, ticks, used>>

\* Put locks the mutex and looks for an entry, which another search may have
\* made while this one embedded.
PutEntered(g) ==
  /\ pc[g] = "put"
  /\ MutexFree
  /\ mutex' = g
  /\ Goto(g, IF query[g].key \in entries THEN "store" ELSE "push")
  /\ UNCHANGED <<ll, entries, memory, query, result, status, ticks, used>>

\* It gives the entry a copy of the new vector.
PutExisting(g) ==
  LET k == query[g].key
  IN  /\ pc[g] = "store"
      /\ memory' = [memory EXCEPT ![<<"cached", g>>] = memory[<<"embedded", g>>]]
      /\ ll' = [i \in 1 .. Len(ll) |->
                  IF i = 1 THEN [MoveToFront(k)[1] EXCEPT !.vector = <<"cached", g>>]
                  ELSE MoveToFront(k)[i]]
      /\ Used(k)
      /\ Unlock
      /\ Goto(g, "copy")
      /\ UNCHANGED <<entries, query, result, status>>

OverCapacity(list) == Len(list) > Capacity

Back(list) == Len(list)

\* Or it pushes an entry to the front, and evicts the one at the back when
\* there are more than Capacity.
PutNew(g) ==
  LET k == query[g].key
      pushed == <<[key |-> k, vector |-> <<"cached", g>>]>> \o ll
  IN  /\ pc[g] = "push"
      /\ memory' = [memory EXCEPT ![<<"cached", g>>] = memory[<<"embedded", g>>]]
      /\ IF OverCapacity(pushed)
           THEN /\ ll' = Remove(pushed, Back(pushed))
                /\ entries' = (entries \cup {k}) \ {pushed[Back(pushed)].key}
           ELSE /\ ll' = pushed
                /\ entries' = entries \cup {k}
      /\ Used(k)
      /\ Unlock
      /\ Goto(g, "copy")
      /\ UNCHANGED <<query, result, status>>

\* The search returns a copy of what the embedder returned.
ReturnEmbedded(g) ==
  /\ pc[g] = "copy"
  /\ ReturnClone(g, <<"embedded", g>>)
  /\ Goto(g, "returned")
  /\ UNCHANGED <<mutex, ll, entries, query, status, ticks, used>>

\* The owners of the vectors of a search that has returned overwrite them: the
\* caller the one it was given, the embedder the one it made.  The embedder is
\* trusted to leave its slice alone until then: searchQueryVector reads it
\* until Put and the last copy are done.
Overwrite(g) ==
  /\ pc[g] = "returned"
  /\ memory[result[g]] # Junk
  /\ memory' = [memory EXCEPT ![result[g]] = Junk, ![<<"embedded", g>>] = Junk]
  /\ UNCHANGED <<mutex, ll, entries, query, pc, result, status, ticks, used>>

Step(g) ==
  \/ Get(g)
  \/ GetHit(g)
  \/ Embed(g)
  \/ PutEntered(g)
  \/ PutExisting(g)
  \/ PutNew(g)
  \/ ReturnEmbedded(g)

Terminated ==
  /\ \A g \in Searches : pc[g] \in {"returned", "failed"}
  /\ UNCHANGED vars

Next ==
  \/ \E g \in Searches : ResolveKey(g) \/ Step(g) \/ Overwrite(g)
  \/ Terminated

Spec == Init /\ [][Next]_vars

\* A search that was begun goes on: the embedder returns or fails when its
\* context ends, and the mutex of Go is not held from a waiter forever.
FairSpec == Spec /\ \A g \in Searches : WF_vars(Step(g))

-----------------------------------------------------------------------------
(***************************************************************************)
(* Properties.                                                             *)
(***************************************************************************)

\* Whenever nobody holds the mutex, the map and the list hold the same keys,
\* each once, and no more than Capacity of them: also after several searches
\* that missed the same key have put it.
MapMatchesList ==
  mutex = Nobody =>
    /\ entries = {ll[i].key : i \in 1 .. Len(ll)}
    /\ Cardinality(entries) = Len(ll)
    /\ Len(ll) <= Capacity

\* The cache holds the keys that were used last, in that order, be it by a hit
\* or by a Put, and forgets one only when Capacity others were used since.
RecentlyUsedKept ==
  mutex = Nobody =>
    /\ \A i, j \in 1 .. Len(ll) : i < j => used[ll[i].key] > used[ll[j].key]
    /\ \A k \in Keys \ entries : used[k] > 0 =>
         /\ Len(ll) = Capacity
         /\ \A i \in 1 .. Len(ll) : used[ll[i].key] > used[k]

\* A cached vector is the vector of its key: no vector of a wrong length gets
\* into the cache, and nobody who was given a vector, or made one, can change
\* a cached one once the search has returned.
CachedVectorsRight ==
  \A i \in 1 .. Len(ll) : memory[ll[i].vector] = ll[i].key

\* A search goes on with the vector of its own key, found or embedded.
ReturnedVectorRight ==
  [][\A g \in Searches : pc[g] # "returned" /\ pc'[g] = "returned" =>
       memory'[result'[g]] = query[g].key]_vars

\* Every search gets past the embedding of its query.
SearchEnds ==
  \A g \in Searches : pc[g] # "idle" ~> pc[g] \in {"returned", "failed"}
==============================================================================
