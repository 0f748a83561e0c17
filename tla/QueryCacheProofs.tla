--------------------------- MODULE QueryCacheProofs ---------------------------
(***************************************************************************)
(* Proofs about QueryCache, for every number of searches and keys and      *)
(* every capacity.                                                         *)
(***************************************************************************)
EXTENDS QueryCache, TLAPS, FiniteSetTheorems

\* The steps of a search that is inside Get or Put, between Lock and Unlock.
Inside == {"lookup", "store", "push"}

\* The mutex is held by the one search that is inside Get or Put.
Guarded == \A g \in Searches : pc[g] \in Inside <=> mutex = g

\* A search that uses the cache has a key and a cache to use, and what it has
\* seen of the map while it holds the mutex is still so.
QueryOK(g) ==
  /\ pc[g] \in Inside \cup {"get", "embed", "put", "copy"} => query[g].key \in Keys
  /\ pc[g] \in Inside \cup {"get", "put"} => query[g].cached
  /\ query[g].cached => Capacity > 0
  /\ pc[g] \in {"lookup", "store"} => query[g].key \in entries
  /\ pc[g] = "push" => query[g].key \notin entries

QueriesOK == \A g \in Searches : QueryOK(g)

Typing == TypeOK /\ Guarded /\ QueriesOK

\* The list is in the order of the last uses, which also keeps its keys apart,
\* and a key that was evicted was used before all that are left.
Recency ==
  /\ \A i, j \in 1 .. Len(ll) : i < j => used[ll[i].key] > used[ll[j].key]
  /\ \A k \in Keys \ entries : used[k] > 0 =>
       /\ Len(ll) = Capacity
       /\ \A i \in 1 .. Len(ll) : used[ll[i].key] > used[k]
  /\ \A k \in Keys : used[k] <= ticks

ListOK ==
  /\ entries = {ll[i].key : i \in 1 .. Len(ll)}
  /\ Len(ll) <= Capacity

\* What a search made with its query stays its own until it has returned; a
\* vector in the cache was put there by a search that is past its Put.
OwnVectorOK(g) ==
  /\ result[g] = <<"returned", g>>
  /\ pc[g] \in {"put", "store", "push", "copy"} =>
       memory[<<"embedded", g>>] = query[g].key

CachedBy(entry, h) ==
  /\ entry.vector = <<"cached", h>>
  /\ pc[h] \in {"copy", "returned"}
  /\ memory[<<"cached", h>>] = entry.key

VectorsOK ==
  /\ \A g \in Searches : OwnVectorOK(g)
  /\ \A i \in 1 .. Len(ll) : \E h \in Searches : CachedBy(ll[i], h)

IInv == Typing /\ Recency /\ ListOK /\ VectorsOK

-----------------------------------------------------------------------------
(***************************************************************************)
(* What the operations on the list do.                                     *)
(***************************************************************************)

\* Remove closes the gap that the removed element leaves.
LEMMA RemoveCloses ==
  ASSUME NEW S, NEW list \in Seq(S), NEW p \in 1 .. Len(list)
  PROVE  /\ Remove(list, p) \in Seq(S)
         /\ Len(Remove(list, p)) = Len(list) - 1
         /\ \A i \in 1 .. Len(list) - 1 :
              Remove(list, p)[i] = IF i < p THEN list[i] ELSE list[i + 1]
  <1> DEFINE before == SubSeq(list, 1, p - 1)
             after == SubSeq(list, p + 1, Len(list))
  <1>1. before \in Seq(S) /\ Len(before) = p - 1
    OBVIOUS
  <1>2. after \in Seq(S) /\ Len(after) = Len(list) - p
    OBVIOUS
  <1>3. \A i \in 1 .. p - 1 : before[i] = list[i]
    OBVIOUS
  <1>4. \A i \in 1 .. Len(list) - p : after[i] = list[p + i]
    OBVIOUS
  <1> HIDE DEF before, after
  <1>5. /\ before \o after \in Seq(S)
        /\ Len(before \o after) = Len(list) - 1
    BY <1>1, <1>2
  <1>6. ASSUME NEW i \in 1 .. Len(list) - 1
        PROVE  (before \o after)[i] = IF i < p THEN list[i] ELSE list[i + 1]
    <2>1. CASE i < p
      BY <1>1, <1>2, <1>3, <2>1
    <2>2. CASE ~(i < p)
      <3>1. (before \o after)[i] = after[i - (p - 1)]
        BY <1>1, <1>2, <2>2
      <3>2. i - (p - 1) \in 1 .. Len(list) - p /\ p + (i - (p - 1)) = i + 1
        BY <2>2
      <3>3. QED  BY <1>4, <2>2, <3>1, <3>2
    <2>3. QED  BY <2>1, <2>2
  <1>7. QED  BY <1>5, <1>6 DEF Remove, before, after

\* Where the element at place i of the list was before the one at place p
\* moved to the front.
Was(i, p) == IF i = 1 THEN p ELSE IF i <= p THEN i - 1 ELSE i

\* MoveToFront permutes the list, and changes the order of one element only.
LEMMA MoveToFrontPermutes ==
  ASSUME ll \in Seq(Entries), NEW p \in 1 .. Len(ll),
         \A i \in 1 .. Len(ll) : ll[i].key = ll[p].key => i = p
  PROVE  LET moved == MoveToFront(ll[p].key)
         IN  /\ moved \in Seq(Entries)
             /\ Len(moved) = Len(ll)
             /\ \A i \in 1 .. Len(ll) : moved[i] = ll[Was(i, p)]
  <1> DEFINE k == ll[p].key
             rest == Remove(ll, p)
  <1>1. Positions(k) = {p}
    BY DEF Positions
  <1>2. MoveToFront(k) = <<ll[p]>> \o rest
    BY <1>1 DEF MoveToFront
  <1>3. /\ rest \in Seq(Entries)
        /\ Len(rest) = Len(ll) - 1
        /\ \A i \in 1 .. Len(ll) - 1 : rest[i] = IF i < p THEN ll[i] ELSE ll[i + 1]
    BY RemoveCloses
  <1>4. ll[p] \in Entries
    OBVIOUS
  <1> HIDE DEF rest
  <1>5. /\ <<ll[p]>> \o rest \in Seq(Entries)
        /\ Len(<<ll[p]>> \o rest) = Len(ll)
    BY <1>3, <1>4
  <1>6. ASSUME NEW i \in 1 .. Len(ll) PROVE (<<ll[p]>> \o rest)[i] = ll[Was(i, p)]
    <2>1. CASE i = 1
      BY <1>3, <1>4, <2>1 DEF Was
    <2>2. CASE i # 1
      <3>1. (<<ll[p]>> \o rest)[i] = rest[i - 1]
        BY <1>3, <1>4, <2>2
      <3>2. i - 1 \in 1 .. Len(ll) - 1
        BY <2>2
      <3>3. rest[i - 1] = ll[Was(i, p)]
        BY <1>3, <2>2, <3>2 DEF Was
      <3>4. QED  BY <3>1, <3>3
    <2>3. QED  BY <2>1, <2>2
  <1>7. QED  BY <1>2, <1>5, <1>6

\* Was is a permutation of the places, and keeps the order of all but the first.
LEMMA WasPermutes ==
  ASSUME NEW n \in Nat, NEW p \in 1 .. n
  PROVE  /\ \A i \in 1 .. n : Was(i, p) \in 1 .. n
         /\ \A i \in 2 .. n : Was(i, p) # p
         /\ \A i, j \in 2 .. n : i < j => Was(i, p) < Was(j, p)
         /\ \A i \in 1 .. n : \E j \in 1 .. n : Was(j, p) = i
  <1>1. ASSUME NEW i \in 1 .. n PROVE \E j \in 1 .. n : Was(j, p) = i
    <2>1. CASE i = p
      BY <2>1 DEF Was
    <2>2. CASE i < p
      <3>1. i + 1 \in 1 .. n /\ Was(i + 1, p) = i
        BY <2>2 DEF Was
      <3>2. QED  BY <3>1
    <2>3. CASE i > p
      BY <2>3 DEF Was
    <2>4. QED  BY <2>1, <2>2, <2>3
  <1>2. QED  BY <1>1 DEF Was

\* Pushing an entry to the front moves all others by one place.
LEMMA PushShifts ==
  ASSUME ll \in Seq(Entries), NEW entry \in Entries
  PROVE  LET pushed == <<entry>> \o ll
         IN  /\ pushed \in Seq(Entries)
             /\ Len(pushed) = Len(ll) + 1
             /\ pushed[1] = entry
             /\ \A i \in 2 .. Len(ll) + 1 : pushed[i] = ll[i - 1]
  OBVIOUS

-----------------------------------------------------------------------------
(***************************************************************************)
(* The list after each operation of the cache.                             *)
(***************************************************************************)

\* Entries have keys and vectors.
LEMMA EntriesTyped ==
  ASSUME ll \in Seq(Entries)
  PROVE  \A i \in 1 .. Len(ll) : ll[i].key \in Keys /\ ll[i].vector \in Vectors
  <1> SUFFICES ASSUME NEW i \in 1 .. Len(ll)
               PROVE  ll[i].key \in Keys /\ ll[i].vector \in Vectors
    OBVIOUS
  <1>1. ll[i] \in Entries
    OBVIOUS
  <1>2. QED  BY <1>1 DEF Entries

\* No key is in the list twice.
LEMMA KeysApart ==
  ASSUME TypeOK, Recency
  PROVE  \A i, j \in 1 .. Len(ll) : ll[i].key = ll[j].key => i = j
  <1> SUFFICES ASSUME NEW i \in 1 .. Len(ll), NEW j \in 1 .. Len(ll),
                      ll[i].key = ll[j].key, i # j
               PROVE  FALSE
    OBVIOUS
  <1>1. used[ll[i].key] \in Nat
    BY EntriesTyped DEF TypeOK
  <1>2. i < j \/ j < i
    OBVIOUS
  <1>3. QED  BY <1>1, <1>2 DEF Recency

\* What a search looks up in the map it finds in the list, once.
LEMMA Found ==
  ASSUME Typing, Recency, ListOK, NEW g \in Searches, pc[g] \in {"lookup", "store"}
  PROVE  \E p \in 1 .. Len(ll) :
           /\ ll[p].key = query[g].key
           /\ Positions(query[g].key) = {p}
           /\ MoveToFront(query[g].key) \in Seq(Entries)
           /\ Len(MoveToFront(query[g].key)) = Len(ll)
           /\ \A i \in 1 .. Len(ll) : MoveToFront(query[g].key)[i] = ll[Was(i, p)]
  <1>1. query[g].key \in entries
    BY DEF Typing, QueriesOK, QueryOK
  <1>2. PICK p \in 1 .. Len(ll) : ll[p].key = query[g].key
    BY <1>1 DEF ListOK
  <1>3. \A i \in 1 .. Len(ll) : ll[i].key = ll[p].key => i = p
    BY KeysApart DEF Typing
  <1>4. ll \in Seq(Entries)
    BY DEF Typing, TypeOK
  <1>5. Positions(query[g].key) = {p}
    BY <1>2, <1>3 DEF Positions
  <1>6. /\ MoveToFront(ll[p].key) \in Seq(Entries)
        /\ Len(MoveToFront(ll[p].key)) = Len(ll)
        /\ \A i \in 1 .. Len(ll) : MoveToFront(ll[p].key)[i] = ll[Was(i, p)]
    BY <1>3, <1>4, MoveToFrontPermutes
  <1>7. QED  BY <1>2, <1>5, <1>6

\* A hit moves the one entry of its key to the front and copies its vector.
LEMMA HitList ==
  ASSUME Typing, Recency, ListOK, NEW g \in Searches, GetHit(g)
  PROVE  \E p \in 1 .. Len(ll) :
           /\ ll[p].key = query[g].key
           /\ ll' \in Seq(Entries)
           /\ Len(ll') = Len(ll)
           /\ \A i \in 1 .. Len(ll) : ll'[i] = ll[Was(i, p)]
           /\ ReturnClone(g, ll[p].vector)
  <1>1. PICK p \in 1 .. Len(ll) :
           /\ ll[p].key = query[g].key
           /\ Positions(query[g].key) = {p}
           /\ MoveToFront(query[g].key) \in Seq(Entries)
           /\ Len(MoveToFront(query[g].key)) = Len(ll)
           /\ \A i \in 1 .. Len(ll) : MoveToFront(query[g].key)[i] = ll[Was(i, p)]
    BY Found DEF GetHit
  <1>2. ll' = MoveToFront(query[g].key)
    BY DEF GetHit
  <1>3. ReturnClone(g, ll[p].vector)
    BY <1>1 DEF GetHit
  <1>4. QED  BY <1>1, <1>2, <1>3

\* A Put of a key that is there moves its entry to the front, with a new vector.
LEMMA StoreList ==
  ASSUME Typing, Recency, ListOK, NEW g \in Searches, PutExisting(g)
  PROVE  \E p \in 1 .. Len(ll) :
           /\ ll[p].key = query[g].key
           /\ ll' \in Seq(Entries)
           /\ Len(ll') = Len(ll)
           /\ ll'[1] = [key |-> query[g].key, vector |-> <<"cached", g>>]
           /\ \A i \in 2 .. Len(ll) : ll'[i] = ll[Was(i, p)]
  <1> DEFINE moved == MoveToFront(query[g].key)
             entry == [key |-> query[g].key, vector |-> <<"cached", g>>]
  <1>1. PICK p \in 1 .. Len(ll) :
           /\ ll[p].key = query[g].key
           /\ moved \in Seq(Entries)
           /\ Len(moved) = Len(ll)
           /\ \A i \in 1 .. Len(ll) : moved[i] = ll[Was(i, p)]
    BY Found DEF PutExisting
  <1>2. ll' = [i \in 1 .. Len(ll) |->
                 IF i = 1 THEN [moved[1] EXCEPT !.vector = <<"cached", g>>] ELSE moved[i]]
    BY DEF PutExisting
  <1>3. ll \in Seq(Entries) /\ query[g].key \in Keys
    BY <1>1, EntriesTyped DEF Typing, TypeOK
  <1>4. entry \in Entries
    BY <1>3 DEF Entries, Vectors
  <1>5. moved[1] = ll[p]
    BY <1>1 DEF Was
  <1>6. ll[p] \in [key : Keys, vector : Vectors]
    <2>1. ll[p] \in Entries
      BY <1>3
    <2>2. QED  BY <2>1 DEF Entries
  <1>7. [moved[1] EXCEPT !.vector = <<"cached", g>>] = entry
    BY <1>1, <1>5, <1>6
  <1> HIDE DEF moved, entry
  <1>8. ll' = [i \in 1 .. Len(ll) |-> IF i = 1 THEN entry ELSE moved[i]]
    BY <1>2, <1>7
  <1>9. Len(ll) \in Nat
    BY <1>3
  <1>10. \A i \in 1 .. Len(ll) : (IF i = 1 THEN entry ELSE moved[i]) \in Entries
    BY <1>1, <1>4
  <1>11. ll' \in Seq(Entries) /\ Len(ll') = Len(ll)
    BY <1>8, <1>9, <1>10
  <1>12. ll'[1] = entry /\ \A i \in 2 .. Len(ll) : ll'[i] = ll[Was(i, p)]
    BY <1>1, <1>8, <1>9
  <1>13. QED  BY <1>1, <1>11, <1>12 DEF entry

\* A Put of a new key pushes an entry, and drops the last one of a full list.
LEMMA PushList ==
  ASSUME Typing, Recency, ListOK, NEW g \in Searches, PutNew(g)
  PROVE  /\ ll' \in Seq(Entries)
         /\ \/ Len(ll) = Capacity /\ Len(ll') = Len(ll)
            \/ Len(ll) < Capacity /\ Len(ll') = Len(ll) + 1
         /\ Capacity > 0
         /\ ll'[1] = [key |-> query[g].key, vector |-> <<"cached", g>>]
         /\ \A i \in 2 .. Len(ll') : ll'[i] = ll[i - 1]
         /\ entries' = IF Len(ll) = Capacity
                         THEN (entries \cup {query[g].key}) \ {ll[Len(ll)].key}
                         ELSE entries \cup {query[g].key}
  <1> DEFINE entry == [key |-> query[g].key, vector |-> <<"cached", g>>]
             pushed == <<entry>> \o ll
  <1>1. ll \in Seq(Entries) /\ Len(ll) \in Nat /\ Capacity \in Nat /\ Len(ll) <= Capacity
    BY CacheAssumption DEF Typing, TypeOK, ListOK
  <1>2. query[g].key \in Keys /\ Capacity > 0
    BY DEF PutNew, Typing, QueriesOK, QueryOK, Inside
  <1>3. entry \in Entries
    BY <1>2 DEF Entries, Vectors
  <1> HIDE DEF entry
  <1>4. /\ pushed \in Seq(Entries)
        /\ Len(pushed) = Len(ll) + 1
        /\ pushed[1] = entry
        /\ \A i \in 2 .. Len(ll) + 1 : pushed[i] = ll[i - 1]
    BY <1>1, <1>3, PushShifts
  <1>5. IF OverCapacity(pushed)
          THEN /\ ll' = Remove(pushed, Len(pushed))
               /\ entries' = (entries \cup {query[g].key}) \ {pushed[Len(pushed)].key}
          ELSE /\ ll' = pushed
               /\ entries' = entries \cup {query[g].key}
    BY DEF PutNew, Back, entry
  <1> HIDE DEF pushed
  <1>6. CASE Len(ll) = Capacity
    <2>1. OverCapacity(pushed) /\ pushed[Len(pushed)] = ll[Len(ll)]
      BY <1>1, <1>2, <1>4, <1>6 DEF OverCapacity
    <2>2. /\ ll' = Remove(pushed, Len(pushed))
          /\ entries' = (entries \cup {query[g].key}) \ {ll[Len(ll)].key}
      BY <1>5, <2>1
    <2>3. /\ Remove(pushed, Len(pushed)) \in Seq(Entries)
          /\ Len(Remove(pushed, Len(pushed))) = Len(ll)
          /\ \A i \in 1 .. Len(ll) : Remove(pushed, Len(pushed))[i] = pushed[i]
      <3>1. Len(pushed) \in 1 .. Len(pushed) /\ Len(pushed) - 1 = Len(ll)
        BY <1>1, <1>4
      <3>2. \A i \in 1 .. Len(ll) : i < Len(pushed)
        BY <1>1, <1>4
      <3>3. QED  BY <1>4, <3>1, <3>2, RemoveCloses
    <2>4. QED  BY <1>1, <1>2, <1>3, <1>4, <1>6, <2>2, <2>3 DEF entry
  <1>7. CASE Len(ll) # Capacity
    <2>1. ~OverCapacity(pushed) /\ Len(ll) < Capacity
      BY <1>1, <1>4, <1>7 DEF OverCapacity
    <2>2. QED  BY <1>1, <1>2, <1>3, <1>4, <1>5, <1>7, <2>1 DEF entry
  <1>8. QED  BY <1>6, <1>7

-----------------------------------------------------------------------------
(***************************************************************************)
(* Types.                                                                  *)
(***************************************************************************)

\* Returning a copy keeps the types.
LEMMA ReturnCloneTyped ==
  ASSUME TypeOK, NEW g \in Searches, NEW vector \in Vectors, ReturnClone(g, vector)
  PROVE  /\ memory' \in [Vectors -> Keys \cup {Junk, Wrong}]
         /\ result' \in [Searches -> Vectors]
  <1>1. <<"returned", g>> \in Vectors
    BY DEF Vectors
  <1>2. QED  BY <1>1 DEF TypeOK, ReturnClone

\* A use counts on, and is the last one of its key only.
LEMMA UsedTyped ==
  ASSUME TypeOK, NEW k \in Keys, Used(k)
  PROVE  /\ ticks' \in Nat
         /\ used' \in [Keys -> Nat]
         /\ used'[k] = ticks'
         /\ \A j \in Keys \ {k} : used'[j] = used[j]
  <1>1. ticks + 1 \in Nat
    BY DEF TypeOK
  <1>2. QED  BY <1>1 DEF TypeOK, Used

\* A search has three vectors.
LEMMA VectorsOf ==
  ASSUME NEW g \in Searches
  PROVE  /\ <<"embedded", g>> \in Vectors
         /\ <<"cached", g>> \in Vectors
         /\ <<"returned", g>> \in Vectors
  BY DEF Vectors

\* Every step keeps the types.
LEMMA TypeKept ==
  ASSUME Typing, Recency, ListOK, [Next]_vars
  PROVE  TypeOK'
  <1> USE DEF Pcs, Statuses
  <1>0. TypeOK
    BY DEF Typing
  <1>1. ASSUME NEW g \in Searches, ResolveKey(g) PROVE TypeOK'
    <2>1. pc' \in [Searches -> Pcs]
      BY <1>0, <1>1 DEF ResolveKey, Goto, TypeOK
    <2>2. query' \in [Searches -> [key: Keys \cup {NoKey}, cached: BOOLEAN]]
      <3>1. \/ UNCHANGED query
            \/ \E k \in Keys, b \in BOOLEAN :
                 query' = [query EXCEPT ![g] = [key |-> k, cached |-> b]]
        BY <1>1 DEF ResolveKey, AcceptedKeys
      <3>2. QED  BY <1>0, <3>1 DEF TypeOK
    <2>3. status' \in [Searches -> Statuses]
      BY <1>0, <1>1 DEF ResolveKey, TypeOK
    <2>4. QED  BY <1>0, <1>1, <2>1, <2>2, <2>3 DEF ResolveKey, TypeOK
  <1>2. ASSUME NEW g \in Searches, Get(g) PROVE TypeOK'
    BY <1>0, <1>2 DEF Get, Goto, Unlock, TypeOK
  <1>3. ASSUME NEW g \in Searches, GetHit(g) PROVE TypeOK'
    <2>1. PICK p \in 1 .. Len(ll) :
            ll[p].key = query[g].key /\ ll' \in Seq(Entries) /\ ReturnClone(g, ll[p].vector)
      BY <1>3, HitList
    <2>2. ll[p].vector \in Vectors /\ query[g].key \in Keys
      BY <1>0, <2>1, EntriesTyped DEF TypeOK
    <2>3. /\ memory' \in [Vectors -> Keys \cup {Junk, Wrong}]
          /\ result' \in [Searches -> Vectors]
      BY <1>0, <2>1, <2>2, ReturnCloneTyped
    <2>4. pc' \in [Searches -> Pcs] /\ status' \in [Searches -> Statuses]
      BY <1>0, <1>3 DEF GetHit, Goto, TypeOK
    <2>5. used' \in [Keys -> Nat] /\ ticks' \in Nat /\ mutex' = Nobody
      <3>1. Used(query[g].key) /\ Unlock
        BY <1>3 DEF GetHit
      <3>2. query[g].key \in Keys
        BY <2>2
      <3>3. ticks' \in Nat /\ used' \in [Keys -> Nat]
        BY <1>0, <3>1, <3>2, UsedTyped
      <3>4. QED  BY <3>1, <3>3 DEF Unlock
    <2>6. UNCHANGED <<entries, query>>
      BY <1>3 DEF GetHit
    <2>7. QED  BY <1>0, <2>1, <2>3, <2>4, <2>5, <2>6 DEF TypeOK
  <1>4. ASSUME NEW g \in Searches, Embed(g) PROVE TypeOK'
    <2>1. query[g].key \in Keys
      BY <1>4 DEF Embed, Typing, QueriesOK, QueryOK
    <2>2. memory' \in [Vectors -> Keys \cup {Junk, Wrong}]
      BY <1>0, <1>4, <2>1 DEF Embed, TypeOK
    <2>3. pc' \in [Searches -> Pcs]
      BY <1>0, <1>4 DEF Embed, Goto, TypeOK
    <2>4. QED  BY <1>0, <1>4, <2>2, <2>3 DEF Embed, TypeOK
  <1>5. ASSUME NEW g \in Searches, PutEntered(g) PROVE TypeOK'
    BY <1>0, <1>5 DEF PutEntered, Goto, TypeOK
  <1>6. ASSUME NEW g \in Searches, PutExisting(g) PROVE TypeOK'
    <2>1. ll' \in Seq(Entries) /\ query[g].key \in Keys
      BY <1>6, StoreList DEF PutExisting, Typing, QueriesOK, QueryOK, Inside
    <2>2. memory' \in [Vectors -> Keys \cup {Junk, Wrong}]
      BY <1>0, <1>6, VectorsOf DEF PutExisting, TypeOK
    <2>3. pc' \in [Searches -> Pcs]
      BY <1>0, <1>6 DEF PutExisting, Goto, TypeOK
    <2>4. used' \in [Keys -> Nat] /\ ticks' \in Nat /\ mutex' = Nobody
      <3>1. Used(query[g].key) /\ Unlock
        BY <1>6 DEF PutExisting
      <3>2. query[g].key \in Keys
        BY <2>1
      <3>3. ticks' \in Nat /\ used' \in [Keys -> Nat]
        BY <1>0, <3>1, <3>2, UsedTyped
      <3>4. QED  BY <3>1, <3>3 DEF Unlock
    <2>5. UNCHANGED <<entries, query, result, status>>
      BY <1>6 DEF PutExisting
    <2>6. QED  BY <1>0, <2>1, <2>2, <2>3, <2>4, <2>5 DEF TypeOK
  <1>7. ASSUME NEW g \in Searches, PutNew(g) PROVE TypeOK'
    <2>1. ll' \in Seq(Entries)
      BY <1>7, PushList
    <2>2. query[g].key \in Keys
      BY <1>7 DEF PutNew, Typing, QueriesOK, QueryOK, Inside
    <2>3. memory' \in [Vectors -> Keys \cup {Junk, Wrong}]
      BY <1>0, <1>7, VectorsOf DEF PutNew, TypeOK
    <2>4. entries' \in SUBSET Keys
      BY <1>0, <1>7, <2>2 DEF PutNew, TypeOK
    <2>5. QED  BY <1>0, <1>7, <2>1, <2>2, <2>3, <2>4
               DEF PutNew, Used, Goto, Unlock, TypeOK
  <1>8. ASSUME NEW g \in Searches, ReturnEmbedded(g) PROVE TypeOK'
    <2>1. ReturnClone(g, <<"embedded", g>>)
      BY <1>8 DEF ReturnEmbedded
    <2>2. /\ memory' \in [Vectors -> Keys \cup {Junk, Wrong}]
          /\ result' \in [Searches -> Vectors]
      BY <1>0, <2>1, ReturnCloneTyped, VectorsOf
    <2>3. QED  BY <1>0, <1>8, <2>2 DEF ReturnEmbedded, Goto, TypeOK
  <1>9. ASSUME NEW g \in Searches, Overwrite(g) PROVE TypeOK'
    BY <1>0, <1>9 DEF Overwrite, TypeOK
  <1>10. CASE UNCHANGED vars
    BY <1>0, <1>10 DEF TypeOK, vars
  <1>11. QED  BY <1>1, <1>2, <1>3, <1>4, <1>5, <1>6, <1>7, <1>8, <1>9, <1>10
              DEF Next, Step, Terminated

-----------------------------------------------------------------------------
(***************************************************************************)
(* The mutex, and what a search relies on.                                 *)
(***************************************************************************)

\* Every step leaves the mutex with the one search that is inside Get or Put.
LEMMA GuardKept ==
  ASSUME Typing, [Next]_vars
  PROVE  Guarded'
  <1>0. /\ pc \in [Searches -> Pcs] /\ Guarded
        /\ Nobody \notin Searches
    BY CacheAssumption DEF Typing, TypeOK
  <1>1. ASSUME NEW g \in Searches,
               /\ mutex = Nobody
               /\ \/ /\ mutex' = g
                     /\ Goto(g, "lookup") \/ Goto(g, "store") \/ Goto(g, "push")
                  \/ mutex' = Nobody /\ Goto(g, "embed")
        PROVE  Guarded'
    BY <1>0, <1>1 DEF Guarded, Inside, Goto
  <1>2. ASSUME NEW g \in Searches, pc[g] \in Inside, mutex' = Nobody,
               Goto(g, "returned") \/ Goto(g, "copy")
        PROVE  Guarded'
    BY <1>0, <1>2 DEF Guarded, Inside, Goto
  <1>3. ASSUME NEW g \in Searches, pc[g] \notin Inside, mutex' = mutex,
               NEW s \in Pcs \ Inside, Goto(g, s)
        PROVE  Guarded'
    BY <1>0, <1>3 DEF Guarded, Goto
  <1>4. ASSUME UNCHANGED <<mutex, pc>> PROVE Guarded'
    BY <1>0, <1>4 DEF Guarded
  <1>5. ASSUME NEW g \in Searches, ResolveKey(g) PROVE Guarded'
    <2>1. /\ pc[g] \notin Inside /\ mutex' = mutex
          /\ Goto(g, "get") \/ Goto(g, "embed") \/ Goto(g, "failed")
      BY <1>5 DEF ResolveKey, Inside
    <2>2. QED  BY <1>3, <2>1 DEF Inside, Pcs
  <1>6. ASSUME NEW g \in Searches, Get(g) PROVE Guarded'
    BY <1>1, <1>6 DEF Get, MutexFree, Unlock
  <1>7. ASSUME NEW g \in Searches, GetHit(g) PROVE Guarded'
    BY <1>2, <1>7 DEF GetHit, Unlock, Inside
  <1>8. ASSUME NEW g \in Searches, Embed(g) PROVE Guarded'
    <2>1. /\ pc[g] \notin Inside /\ mutex' = mutex
          /\ Goto(g, "put") \/ Goto(g, "copy") \/ Goto(g, "failed")
      BY <1>8 DEF Embed, Inside
    <2>2. QED  BY <1>3, <2>1 DEF Inside, Pcs
  <1>9. ASSUME NEW g \in Searches, PutEntered(g) PROVE Guarded'
    BY <1>1, <1>9 DEF PutEntered, MutexFree
  <1>10. ASSUME NEW g \in Searches, PutExisting(g) \/ PutNew(g) PROVE Guarded'
    BY <1>2, <1>10 DEF PutExisting, PutNew, Unlock, Inside
  <1>11. ASSUME NEW g \in Searches, ReturnEmbedded(g) PROVE Guarded'
    BY <1>3, <1>11 DEF ReturnEmbedded, Inside, Pcs
  <1>12. ASSUME NEW g \in Searches, Overwrite(g) PROVE Guarded'
    BY <1>4, <1>12 DEF Overwrite
  <1>13. CASE UNCHANGED vars
    BY <1>4, <1>13 DEF vars
  <1>14. QED  BY <1>5, <1>6, <1>7, <1>8, <1>9, <1>10, <1>11, <1>12, <1>13
              DEF Next, Step, Terminated

\* A step changes where one search is; only the search that holds the mutex
\* changes the map.
LEMMA OthersKept ==
  ASSUME Typing, NEW g \in Searches, ResolveKey(g) \/ Step(g) \/ Overwrite(g)
  PROVE  \A d \in Searches \ {g} :
           /\ pc'[d] = pc[d] /\ query'[d] = query[d] /\ result'[d] = result[d]
           /\ pc[d] \in Inside => UNCHANGED entries
  <1>0. /\ pc \in [Searches -> Pcs] /\ Guarded
        /\ query \in [Searches -> [key: Keys \cup {NoKey}, cached: BOOLEAN]]
        /\ result \in [Searches -> Vectors]
    BY DEF Typing, TypeOK
  <1> SUFFICES ASSUME NEW d \in Searches \ {g}
               PROVE  /\ pc'[d] = pc[d] /\ query'[d] = query[d] /\ result'[d] = result[d]
                      /\ pc[d] \in Inside => UNCHANGED entries
    OBVIOUS
  <1>1. pc'[d] = pc[d]
    BY <1>0 DEF ResolveKey, Step, Overwrite, Get, GetHit, Embed, PutEntered, PutExisting,
                PutNew, ReturnEmbedded, Goto
  <1>2. query'[d] = query[d]
    BY <1>0 DEF ResolveKey, Step, Overwrite, Get, GetHit, Embed, PutEntered, PutExisting,
                PutNew, ReturnEmbedded
  <1>3. result'[d] = result[d]
    BY <1>0 DEF ResolveKey, Step, Overwrite, Get, GetHit, Embed, PutEntered, PutExisting,
                PutNew, ReturnEmbedded, ReturnClone
  <1>4. PutNew(g) => pc[d] \notin Inside
    BY <1>0 DEF Guarded, PutNew, Inside
  <1>5. UNCHANGED entries \/ PutNew(g)
    BY DEF ResolveKey, Step, Overwrite, Get, GetHit, Embed, PutEntered, PutExisting,
           ReturnEmbedded
  <1>6. QED  BY <1>1, <1>2, <1>3, <1>4, <1>5

\* Every step keeps what a search relies on.
LEMMA QueriesKept ==
  ASSUME Typing, [Next]_vars
  PROVE  QueriesOK'
  <1>0. /\ pc \in [Searches -> Pcs] /\ \A g \in Searches : QueryOK(g)
        /\ query \in [Searches -> [key: Keys \cup {NoKey}, cached: BOOLEAN]]
    BY DEF Typing, TypeOK, QueriesOK
  <1> SUFFICES ASSUME NEW d \in Searches PROVE QueryOK(d)'
    BY DEF QueriesOK
  <1>1. ASSUME NEW g \in Searches, ResolveKey(g) \/ Step(g) \/ Overwrite(g), g # d
        PROVE  QueryOK(d)'
    <2>1. /\ pc'[d] = pc[d] /\ query'[d] = query[d]
          /\ pc[d] \in Inside => UNCHANGED entries
      BY <1>1, OthersKept
    <2>2. QED  BY <1>0, <2>1 DEF QueryOK, Inside
  <1>2. CASE ResolveKey(d)
    <2>1. \/ UNCHANGED query /\ pc'[d] = "failed"
          \/ \E k \in Keys, b \in BOOLEAN :
               /\ query'[d] = [key |-> k, cached |-> b]
               /\ b => Capacity > 0
               /\ pc'[d] = IF b THEN "get" ELSE "embed"
      BY <1>0, <1>2 DEF ResolveKey, AcceptedKeys, Goto
    <2>2. CASE UNCHANGED query /\ pc'[d] = "failed"
      BY <1>0, <2>2 DEF QueryOK, Inside
    <2>3. ASSUME NEW k \in Keys, NEW b \in BOOLEAN,
                 query'[d] = [key |-> k, cached |-> b], b => Capacity > 0,
                 pc'[d] = IF b THEN "get" ELSE "embed"
          PROVE  QueryOK(d)'
      <3>1. query'[d].key = k /\ query'[d].cached = b
        BY <2>3
      <3>2. (pc'[d] = "get" /\ b) \/ pc'[d] = "embed"
        BY <2>3
      <3>3. QED  BY <2>3, <3>1, <3>2 DEF QueryOK, Inside
    <2>4. QED  BY <2>1, <2>2, <2>3
  <1>3. CASE Get(d)
    BY <1>0, <1>3 DEF Get, Goto, QueryOK, Inside
  <1>4. CASE GetHit(d)
    BY <1>0, <1>4 DEF GetHit, Goto, QueryOK, Inside
  <1>5. CASE Embed(d)
    BY <1>0, <1>5 DEF Embed, Goto, QueryOK, Inside
  <1>6. CASE PutEntered(d)
    BY <1>0, <1>6 DEF PutEntered, Goto, QueryOK, Inside
  <1>7. CASE PutExisting(d)
    BY <1>0, <1>7 DEF PutExisting, Goto, QueryOK, Inside
  <1>8. CASE PutNew(d)
    <2>1. pc'[d] = "copy" /\ UNCHANGED query /\ pc[d] = "push"
      BY <1>0, <1>8 DEF PutNew, Goto
    <2>2. QED  BY <1>0, <2>1 DEF QueryOK, Inside
  <1>9. CASE ReturnEmbedded(d)
    BY <1>0, <1>9 DEF ReturnEmbedded, Goto, QueryOK, Inside
  <1>10. CASE Overwrite(d)
    BY <1>0, <1>10 DEF Overwrite, QueryOK
  <1>11. CASE UNCHANGED vars
    BY <1>0, <1>11 DEF QueryOK, vars
  <1>12. QED  BY <1>1, <1>2, <1>3, <1>4, <1>5, <1>6, <1>7, <1>8, <1>9, <1>10, <1>11
              DEF Next, Step, Terminated

-----------------------------------------------------------------------------
(***************************************************************************)
(* The order of the list, and its agreement with the map.                  *)
(***************************************************************************)

\* The key that is used goes to the front, the other ones keep their order.
LEMMA UseKeepsOrder ==
  ASSUME TypeOK, Recency, NEW k \in Keys, Used(k),
         ll' \in Seq(Entries), Len(ll') > 0, ll'[1].key = k,
         NEW from \in [2 .. Len(ll') -> 1 .. Len(ll)],
         \A i \in 2 .. Len(ll') : ll'[i].key = ll[from[i]].key /\ ll'[i].key # k,
         \A i, j \in 2 .. Len(ll') : i < j => from[i] < from[j]
  PROVE  /\ \A i, j \in 1 .. Len(ll') : i < j => used'[ll'[i].key] > used'[ll'[j].key]
         /\ \A i \in 2 .. Len(ll') : used'[ll'[i].key] = used[ll[from[i]].key]
         /\ \A j \in Keys : used'[j] <= ticks'
  <1>1. /\ ticks \in Nat /\ ticks' = ticks + 1
        /\ used \in [Keys -> Nat] /\ used' \in [Keys -> Nat]
        /\ used'[k] = ticks + 1
        /\ \A j \in Keys \ {k} : used'[j] = used[j]
    BY UsedTyped DEF TypeOK, Used
  <1>2. \A j \in Keys : used[j] <= ticks
    BY DEF Recency
  <1>3. \A j \in Keys : used'[j] <= ticks'
    <2>1. \A j \in Keys \ {k} : used[j] \in Nat
      BY <1>1
    <2>2. QED  BY <1>1, <1>2, <2>1
  <1>4. Len(ll') \in Nat /\ Len(ll) \in Nat
    BY DEF TypeOK
  <1>5. ASSUME NEW i \in 2 .. Len(ll')
        PROVE  /\ from[i] \in 1 .. Len(ll)
               /\ ll[from[i]].key \in Keys \ {k}
               /\ used'[ll'[i].key] = used[ll[from[i]].key]
    <2>1. from[i] \in 1 .. Len(ll)
      BY <1>5
    <2>2. ll[from[i]].key \in Keys
      BY <2>1, EntriesTyped DEF TypeOK
    <2>3. QED  BY <1>1, <1>5, <2>1, <2>2
  <1>6. ASSUME NEW i \in 1 .. Len(ll'), NEW j \in 1 .. Len(ll'), i < j
        PROVE  used'[ll'[i].key] > used'[ll'[j].key]
    <2>1. j \in 2 .. Len(ll')
      BY <1>4, <1>6
    <2>2. /\ from[j] \in 1 .. Len(ll) /\ ll[from[j]].key \in Keys
          /\ used'[ll'[j].key] = used[ll[from[j]].key]
      BY <1>5, <2>1
    <2>3. CASE i = 1
      <3>1. used[ll[from[j]].key] \in Nat /\ used[ll[from[j]].key] <= ticks
        BY <1>1, <1>2, <2>2
      <3>2. used'[ll'[i].key] = ticks + 1
        BY <1>1, <2>3
      <3>3. ticks \in Nat
        BY <1>1
      <3>4. QED  BY <2>2, <3>1, <3>2, <3>3
    <2>4. CASE i # 1
      <3>1. i \in 2 .. Len(ll')
        BY <1>4, <2>4
      <3>2. from[i] < from[j] /\ from[i] \in 1 .. Len(ll)
        BY <1>5, <1>6, <2>1, <3>1
      <3>3. used[ll[from[i]].key] > used[ll[from[j]].key]
        BY <2>2, <3>2 DEF Recency
      <3>4. QED  BY <1>5, <2>2, <3>1, <3>3
    <2>5. QED  BY <2>3, <2>4
  <1>7. QED  BY <1>3, <1>5, <1>6

\* Using an entry that is there.
LEMMA MoveKeepsList ==
  ASSUME TypeOK, Recency, ListOK, NEW p \in 1 .. Len(ll), Used(ll[p].key),
         ll' \in Seq(Entries), Len(ll') = Len(ll),
         \A i \in 1 .. Len(ll) : ll'[i].key = ll[Was(i, p)].key,
         UNCHANGED entries
  PROVE  Recency' /\ ListOK'
  <1> DEFINE k == ll[p].key
             from == [i \in 2 .. Len(ll') |-> Was(i, p)]
  <1>0. Len(ll) \in Nat /\ k \in Keys
    <2>1. ll \in Seq(Entries) /\ Len(ll) \in Nat
      BY DEF TypeOK
    <2>2. ll[p].key \in Keys
      BY <2>1, EntriesTyped
    <2>3. QED  BY <2>1, <2>2
  <1>1. /\ \A i \in 1 .. Len(ll) : Was(i, p) \in 1 .. Len(ll)
        /\ \A i \in 2 .. Len(ll) : Was(i, p) # p
        /\ \A i, j \in 2 .. Len(ll) : i < j => Was(i, p) < Was(j, p)
        /\ \A i \in 1 .. Len(ll) : \E j \in 1 .. Len(ll) : Was(j, p) = i
    BY <1>0, WasPermutes
  <1>2. ll'[1].key = k /\ Len(ll') > 0
    BY <1>0 DEF Was
  <1>3. ASSUME NEW i \in 2 .. Len(ll')
        PROVE  ll'[i].key = ll[Was(i, p)].key /\ ll'[i].key # k
    <2>1. i \in 2 .. Len(ll) /\ i \in 1 .. Len(ll)
      BY <1>0
    <2>2. Was(i, p) \in 1 .. Len(ll) /\ Was(i, p) # p
      BY <1>1, <2>1
    <2>3. QED  BY <2>1, <2>2, KeysApart
  <1>4. from \in [2 .. Len(ll') -> 1 .. Len(ll)]
    BY <1>0, <1>1
  <1>5. /\ \A i, j \in 1 .. Len(ll') : i < j => used'[ll'[i].key] > used'[ll'[j].key]
        /\ \A i \in 2 .. Len(ll') : used'[ll'[i].key] = used[ll[from[i]].key]
        /\ \A j \in Keys : used'[j] <= ticks'
    <2>1. \A i \in 2 .. Len(ll') : ll'[i].key = ll[from[i]].key /\ ll'[i].key # k
      BY <1>3
    <2>2. \A i, j \in 2 .. Len(ll') : i < j => from[i] < from[j]
      BY <1>1
    <2> HIDE DEF from, k
    <2>3. QED  BY <1>0, <1>2, <1>4, <2>1, <2>2, UseKeepsOrder DEF k
  <1>6. entries = {ll'[i].key : i \in 1 .. Len(ll')}
    <2>1. ASSUME NEW i \in 1 .. Len(ll) PROVE \E j \in 1 .. Len(ll) : ll'[j].key = ll[i].key
      BY <1>1
    <2>2. ASSUME NEW i \in 1 .. Len(ll') PROVE ll'[i].key \in entries
      <3>1. Was(i, p) \in 1 .. Len(ll) /\ ll'[i].key = ll[Was(i, p)].key
        BY <1>1
      <3>2. QED  BY <3>1 DEF ListOK
    <2>3. ASSUME NEW key \in entries PROVE \E j \in 1 .. Len(ll') : ll'[j].key = key
      <3>1. PICK i \in 1 .. Len(ll) : ll[i].key = key
        BY DEF ListOK
      <3>2. QED  BY <2>1, <3>1
    <2>4. QED  BY <2>2, <2>3
  <1>7. ASSUME NEW j \in Keys \ entries, used'[j] > 0
        PROVE  /\ Len(ll') = Capacity
               /\ \A i \in 1 .. Len(ll') : used'[ll'[i].key] > used'[j]
    <2>1. k \in entries
      BY DEF ListOK
    <2>2. /\ used'[j] = used[j] /\ used[j] \in Nat
          /\ used'[k] = ticks + 1 /\ ticks \in Nat
      BY <1>0, <2>1, UsedTyped DEF TypeOK, Used
    <2>3. /\ Len(ll) = Capacity
          /\ \A i \in 1 .. Len(ll) : used[ll[i].key] > used[j]
          /\ used[j] <= ticks
      BY <1>7, <2>2 DEF Recency
    <2>4. ASSUME NEW i \in 1 .. Len(ll') PROVE used'[ll'[i].key] > used'[j]
      <3>1. CASE i = 1
        BY <1>2, <2>2, <2>3, <3>1
      <3>2. CASE i # 1
        <4>1. i \in 2 .. Len(ll') /\ Was(i, p) \in 1 .. Len(ll)
          BY <1>0, <1>1, <3>2
        <4>2. used'[ll'[i].key] = used[ll[Was(i, p)].key]
          BY <1>5, <4>1
        <4>3. QED  BY <2>2, <2>3, <4>1, <4>2
      <3>3. QED  BY <3>1, <3>2
    <2>5. QED  BY <2>3, <2>4
  <1>8. QED  BY <1>5, <1>6, <1>7 DEF Recency, ListOK

\* Pushing a new entry, and evicting the last one when the cache is full.
LEMMA PushKeepsList ==
  ASSUME Typing, Recency, ListOK, NEW g \in Searches, PutNew(g)
  PROVE  Recency' /\ ListOK'
  <1> DEFINE k == query[g].key
             n == Len(ll)
             from == [i \in 2 .. Len(ll') |-> i - 1]
  <1>0. /\ TypeOK /\ n \in Nat /\ k \in Keys /\ k \notin entries
        /\ Capacity \in Nat /\ Used(k)
    BY CacheAssumption DEF PutNew, Typing, TypeOK, QueriesOK, QueryOK, Inside
  <1>1. /\ ll' \in Seq(Entries)
        /\ \/ n = Capacity /\ Len(ll') = n
           \/ n < Capacity /\ Len(ll') = n + 1
        /\ Capacity > 0
        /\ ll'[1] = [key |-> k, vector |-> <<"cached", g>>]
        /\ \A i \in 2 .. Len(ll') : ll'[i] = ll[i - 1]
        /\ entries' = IF n = Capacity THEN (entries \cup {k}) \ {ll[n].key}
                      ELSE entries \cup {k}
    BY PushList
  <1>2. ll'[1].key = k /\ Len(ll') > 0 /\ Len(ll') \in Nat
    BY <1>0, <1>1
  <1>3. ASSUME NEW i \in 2 .. Len(ll')
        PROVE  /\ from[i] = i - 1 /\ from[i] \in 1 .. n
               /\ ll'[i].key = ll[from[i]].key
               /\ ll'[i].key \in entries /\ ll'[i].key # k
    <2>1. from[i] = i - 1 /\ from[i] \in 1 .. n
      BY <1>0, <1>1
    <2>2. ll'[i].key = ll[from[i]].key
      BY <1>1, <2>1
    <2>3. ll[from[i]].key \in entries
      BY <2>1 DEF ListOK
    <2>4. QED  BY <1>0, <2>1, <2>2, <2>3
  <1>4. from \in [2 .. Len(ll') -> 1 .. n]
    BY <1>3
  <1>5. \A i, j \in 2 .. Len(ll') : i < j => from[i] < from[j]
    BY <1>3
  <1>6. /\ \A i, j \in 1 .. Len(ll') : i < j => used'[ll'[i].key] > used'[ll'[j].key]
        /\ \A i \in 2 .. Len(ll') : used'[ll'[i].key] = used[ll[from[i]].key]
        /\ \A j \in Keys : used'[j] <= ticks'
    <2> HIDE DEF from, k
    <2>1. QED  BY <1>0, <1>1, <1>2, <1>3, <1>4, <1>5, UseKeepsOrder, ZenonT(30) DEF n
  <1>7. \A i \in 1 .. n : ll[i].key \in entries
    BY DEF ListOK
  <1>8. entries' = {ll'[i].key : i \in 1 .. Len(ll')}
    <2>1. ASSUME NEW i \in 1 .. Len(ll') PROVE ll'[i].key \in entries'
      <3>1. CASE i = 1
        <4>1. n = Capacity => ll[n].key \in entries
          BY <1>1, <1>7
        <4>2. QED  BY <1>0, <1>1, <1>2, <3>1, <4>1
      <3>2. CASE i # 1
        <4>1. i \in 2 .. Len(ll')
          BY <1>2, <3>2
        <4>2. n = Capacity => from[i] # n
          BY <1>0, <1>1, <1>3, <4>1
        <4>3. n = Capacity => ll[from[i]].key # ll[n].key
          <5>1. n = Capacity => n \in 1 .. n
            BY <1>0, <1>1
          <5>2. from[i] \in 1 .. n
            BY <1>3, <4>1
          <5> HIDE DEF from
          <5>3. QED  BY <1>0, <4>2, <5>1, <5>2, KeysApart DEF n
        <4>4. QED  BY <1>1, <1>3, <4>1, <4>3
      <3>3. QED  BY <3>1, <3>2
    <2>2. ASSUME NEW key \in entries' PROVE \E i \in 1 .. Len(ll') : ll'[i].key = key
      <3>1. CASE key = k
        BY <1>2, <3>1
      <3>2. CASE key # k
        <4>1. PICK i \in 1 .. n : ll[i].key = key
          BY <1>1, <2>2, <3>2 DEF ListOK
        <4>2. n = Capacity => i # n
          BY <1>1, <2>2, <4>1
        <4>3. i + 1 \in 2 .. Len(ll')
          BY <1>0, <1>1, <4>2
        <4>4. ll'[i + 1].key = key /\ i + 1 \in 1 .. Len(ll')
          BY <1>1, <4>1, <4>3
        <4>5. QED  BY <4>4
      <3>3. QED  BY <3>1, <3>2
    <2>3. QED  BY <2>1, <2>2
  <1>9. ASSUME NEW j \in Keys \ entries', used'[j] > 0
        PROVE  /\ Len(ll') = Capacity
               /\ \A i \in 1 .. Len(ll') : used'[ll'[i].key] > used'[j]
    <2>1. j # k
      BY <1>2, <1>8
    <2>2. /\ used'[j] = used[j] /\ used[j] \in Nat
          /\ used'[k] = ticks + 1 /\ ticks \in Nat
      BY <1>0, <2>1, UsedTyped DEF TypeOK, Used
    <2>3. used[j] <= ticks
      BY <2>2 DEF Recency
    <2>4. n = Capacity /\ Len(ll') = n
      <3>1. CASE n < Capacity
        <4>1. j \in Keys \ entries
          BY <1>0, <1>1, <1>9, <3>1
        <4>2. QED  BY <1>9, <2>2, <3>1, <4>1 DEF Recency
      <3>2. QED  BY <1>1, <3>1
    <2>5. \A i \in 1 .. n - 1 : used[ll[i].key] > used[j]
      <3>1. CASE j \in entries
        <4>1. j = ll[n].key
          BY <1>1, <1>9, <2>1, <2>4, <3>1
        <4>2. n \in 1 .. n
          BY <1>0, <1>1, <2>4
        <4>3. QED  BY <1>0, <4>1, <4>2 DEF Recency
      <3>2. CASE j \notin entries
        BY <1>0, <1>9, <2>2, <3>2 DEF Recency
      <3>3. QED  BY <3>1, <3>2
    <2>6. ASSUME NEW i \in 1 .. Len(ll') PROVE used'[ll'[i].key] > used'[j]
      <3>1. CASE i = 1
        BY <1>2, <2>2, <2>3, <3>1
      <3>2. CASE i # 1
        <4>1. i \in 2 .. Len(ll')
          BY <1>2, <3>2
        <4>2. from[i] \in 1 .. n - 1
          BY <1>0, <1>3, <2>4, <4>1
        <4>3. used'[ll'[i].key] = used[ll[from[i]].key]
          BY <1>6, <4>1
        <4>4. QED  BY <2>2, <2>5, <4>2, <4>3
      <3>3. QED  BY <3>1, <3>2
    <2>7. QED  BY <2>4, <2>6
  <1>10. Len(ll') <= Capacity
    BY <1>0, <1>1
  <1>11. QED  BY <1>6, <1>8, <1>9, <1>10 DEF Recency, ListOK

\* Every step keeps the order of the list and its agreement with the map.
LEMMA ListKept ==
  ASSUME Typing, Recency, ListOK, [Next]_vars
  PROVE  Recency' /\ ListOK'
  <1>1. ASSUME NEW g \in Searches, GetHit(g) PROVE Recency' /\ ListOK'
    <2>1. PICK p \in 1 .. Len(ll) :
            /\ ll[p].key = query[g].key
            /\ ll' \in Seq(Entries)
            /\ Len(ll') = Len(ll)
            /\ \A i \in 1 .. Len(ll) : ll'[i] = ll[Was(i, p)]
      BY <1>1, HitList
    <2>2. Used(ll[p].key) /\ UNCHANGED entries
      BY <1>1, <2>1 DEF GetHit
    <2>3. \A i \in 1 .. Len(ll) : ll'[i].key = ll[Was(i, p)].key
      BY <2>1
    <2>4. QED  BY <2>1, <2>2, <2>3, MoveKeepsList DEF Typing
  <1>2. ASSUME NEW g \in Searches, PutExisting(g) PROVE Recency' /\ ListOK'
    <2>1. PICK p \in 1 .. Len(ll) :
            /\ ll[p].key = query[g].key
            /\ ll' \in Seq(Entries)
            /\ Len(ll') = Len(ll)
            /\ ll'[1] = [key |-> query[g].key, vector |-> <<"cached", g>>]
            /\ \A i \in 2 .. Len(ll) : ll'[i] = ll[Was(i, p)]
      BY <1>2, StoreList
    <2>2. Used(ll[p].key) /\ UNCHANGED entries
      BY <1>2, <2>1 DEF PutExisting
    <2>3. \A i \in 1 .. Len(ll) : ll'[i].key = ll[Was(i, p)].key
      <3>1. ll'[1].key = ll[Was(1, p)].key
        BY <2>1 DEF Was
      <3>2. \A i \in 1 .. Len(ll) : i = 1 \/ i \in 2 .. Len(ll)
        OBVIOUS
      <3>3. QED  BY <2>1, <3>1, <3>2
    <2>4. QED  BY <2>1, <2>2, <2>3, MoveKeepsList DEF Typing
  <1>3. ASSUME NEW g \in Searches, PutNew(g) PROVE Recency' /\ ListOK'
    BY <1>3, PushKeepsList
  <1>4. ASSUME UNCHANGED <<ll, entries, ticks, used>> PROVE Recency' /\ ListOK'
    BY <1>4 DEF Recency, ListOK
  <1>5. ASSUME NEW g \in Searches,
               \/ ResolveKey(g) \/ Get(g) \/ Embed(g) \/ PutEntered(g)
               \/ ReturnEmbedded(g) \/ Overwrite(g)
        PROVE  Recency' /\ ListOK'
    BY <1>4, <1>5 DEF ResolveKey, Get, Embed, PutEntered, ReturnEmbedded, Overwrite
  <1>6. CASE UNCHANGED vars
    BY <1>4, <1>6 DEF vars
  <1>7. QED  BY <1>1, <1>2, <1>3, <1>5, <1>6 DEF Next, Step, Terminated

-----------------------------------------------------------------------------
(***************************************************************************)
(* The vectors.                                                            *)
(***************************************************************************)

\* The returned vector of a hit, and of a search that embedded.
LEMMA Returning ==
  ASSUME TypeOK, NEW g \in Searches, NEW vector \in Vectors, ReturnClone(g, vector)
  PROVE  /\ memory'[<<"returned", g>>] = memory[vector]
         /\ result'[g] = <<"returned", g>>
         /\ \A v \in Vectors : v # <<"returned", g>> => memory'[v] = memory[v]
  BY VectorsOf DEF TypeOK, ReturnClone

\* Which vectors a step may change: of another search none, and of its own the
\* cached one only inside Put.
LEMMA VectorsLeftAlone ==
  ASSUME IInv, NEW g \in Searches, ResolveKey(g) \/ Step(g) \/ Overwrite(g)
  PROVE  /\ \A d \in Searches \ {g} : memory'[<<"embedded", d>>] = memory[<<"embedded", d>>]
         /\ \A h \in Searches : pc[h] \in {"copy", "returned"} =>
              /\ memory'[<<"cached", h>>] = memory[<<"cached", h>>]
              /\ pc'[h] \in {"copy", "returned"}
  <1>0. /\ TypeOK
        /\ memory \in [Vectors -> Keys \cup {Junk, Wrong}]
        /\ pc \in [Searches -> Pcs]
        /\ result[g] = <<"returned", g>>
    BY DEF IInv, Typing, TypeOK, VectorsOK, OwnVectorOK
  <1>1. ASSUME NEW v \in Vectors,
               \/ \E d \in Searches \ {g} : v = <<"embedded", d>>
               \/ \E h \in Searches : v = <<"cached", h>> /\ pc[h] \in {"copy", "returned"}
        PROVE  memory'[v] = memory[v]
    <2>1. v # <<"embedded", g>> /\ v # <<"returned", g>>
      BY <1>1
    <2>2. pc[g] \in {"store", "push"} => v # <<"cached", g>>
      BY <1>1
    <2>3. CASE UNCHANGED memory
      BY <2>3
    <2>4. CASE GetHit(g)
      <3>1. PICK p \in 1 .. Len(ll) : ReturnClone(g, ll[p].vector)
        BY <2>4, HitList DEF IInv
      <3>2. ll[p].vector \in Vectors
        BY <1>0, EntriesTyped DEF TypeOK
      <3>3. QED  BY <1>0, <2>1, <3>1, <3>2, Returning
    <2>5. CASE Embed(g)
      BY <1>0, <2>1, <2>5 DEF Embed
    <2>6. CASE PutExisting(g) \/ PutNew(g)
      BY <1>0, <2>2, <2>6 DEF PutExisting, PutNew
    <2>7. CASE ReturnEmbedded(g)
      BY <1>0, <2>1, <2>7, VectorsOf, Returning DEF ReturnEmbedded
    <2>8. CASE Overwrite(g)
      BY <1>0, <2>1, <2>8 DEF Overwrite
    <2>9. QED  BY <2>3, <2>4, <2>5, <2>6, <2>7, <2>8
               DEF Step, ResolveKey, Get, PutEntered
  <1>2. ASSUME NEW h \in Searches, pc[h] \in {"copy", "returned"}
        PROVE  pc'[h] \in {"copy", "returned"}
    <2>1. CASE h # g
      BY <1>2, <2>1, OthersKept DEF IInv
    <2>2. CASE h = g
      <3>1. ReturnEmbedded(g) \/ Overwrite(g)
        BY <1>2, <2>2 DEF ResolveKey, Step, Get, GetHit, Embed, PutEntered, PutExisting, PutNew
      <3>2. QED  BY <1>0, <1>2, <2>2, <3>1 DEF ReturnEmbedded, Overwrite, Goto
    <2>3. QED  BY <2>1, <2>2
  <1>3. QED  BY <1>1, <1>2, VectorsOf

\* Every step keeps the vectors that searches own.
LEMMA OwnVectorsKept ==
  ASSUME IInv, NEW g \in Searches, ResolveKey(g) \/ Step(g) \/ Overwrite(g),
         NEW d \in Searches
  PROVE  OwnVectorOK(d)'
  <1>0. /\ TypeOK /\ OwnVectorOK(d)
        /\ memory \in [Vectors -> Keys \cup {Junk, Wrong}]
        /\ pc \in [Searches -> Pcs]
        /\ query \in [Searches -> [key: Keys \cup {NoKey}, cached: BOOLEAN]]
    BY DEF IInv, Typing, TypeOK, VectorsOK
  <1>1. CASE d # g
    <2>1. /\ pc'[d] = pc[d] /\ query'[d] = query[d] /\ result'[d] = result[d]
          /\ memory'[<<"embedded", d>>] = memory[<<"embedded", d>>]
      BY <1>1, OthersKept, VectorsLeftAlone DEF IInv
    <2>2. QED  BY <1>0, <2>1 DEF OwnVectorOK
  <1>2. CASE d = g
    <2>1. CASE ResolveKey(g)
      BY <1>0, <1>2, <2>1 DEF ResolveKey, Goto, OwnVectorOK
    <2>2. CASE Get(g)
      BY <1>0, <1>2, <2>2 DEF Get, Goto, OwnVectorOK
    <2>3. CASE GetHit(g)
      <3>1. PICK p \in 1 .. Len(ll) : ReturnClone(g, ll[p].vector)
        BY <2>3, HitList DEF IInv
      <3>2. ll[p].vector \in Vectors
        BY <1>0, EntriesTyped DEF TypeOK
      <3>3. result'[g] = <<"returned", g>> /\ pc'[g] = "returned"
        BY <1>0, <2>3, <3>1, <3>2, Returning DEF GetHit, Goto
      <3>4. QED  BY <1>2, <3>3 DEF OwnVectorOK
    <2>4. CASE Embed(g)
      <3>1. /\ UNCHANGED <<query, result>>
            /\ \/ pc'[g] = "failed"
               \/ memory'[<<"embedded", g>>] = query[g].key
        BY <1>0, <2>4, VectorsOf DEF Embed, Goto, RightLength
      <3>2. QED  BY <1>0, <1>2, <3>1 DEF OwnVectorOK
    <2>5. CASE PutEntered(g)
      BY <1>0, <1>2, <2>5 DEF PutEntered, Goto, OwnVectorOK
    <2>6. CASE PutExisting(g) \/ PutNew(g)
      <3>1. memory'[<<"embedded", g>>] = memory[<<"embedded", g>>]
        BY <1>0, <2>6, VectorsOf DEF PutExisting, PutNew
      <3>2. UNCHANGED <<query, result>> /\ pc[g] \in {"store", "push"}
        BY <2>6 DEF PutExisting, PutNew
      <3>3. QED  BY <1>0, <1>2, <3>1, <3>2 DEF OwnVectorOK
    <2>7. CASE ReturnEmbedded(g)
      <3>1. result'[g] = <<"returned", g>> /\ pc'[g] = "returned"
        BY <1>0, <2>7, VectorsOf, Returning DEF ReturnEmbedded, Goto
      <3>2. QED  BY <1>2, <3>1 DEF OwnVectorOK
    <2>8. CASE Overwrite(g)
      BY <1>0, <1>2, <2>8 DEF Overwrite, OwnVectorOK
    <2>9. QED  BY <2>1, <2>2, <2>3, <2>4, <2>5, <2>6, <2>7, <2>8 DEF Step
  <1>3. QED  BY <1>1, <1>2

\* Who cached an entry that is there before and after a step.
LEMMA CachedByKept ==
  ASSUME IInv, NEW g \in Searches, ResolveKey(g) \/ Step(g) \/ Overwrite(g),
         NEW entry, NEW h \in Searches, CachedBy(entry, h)
  PROVE  /\ entry.vector = <<"cached", h>>
         /\ pc'[h] \in {"copy", "returned"}
         /\ memory'[<<"cached", h>>] = entry.key
  BY VectorsLeftAlone DEF CachedBy

\* What a Put puts at the front.
LEMMA FrontCachedBy ==
  ASSUME IInv, NEW g \in Searches, PutExisting(g) \/ PutNew(g)
  PROVE  pc'[g] = "copy" /\ memory'[<<"cached", g>>] = query[g].key
  <1>1. /\ memory \in [Vectors -> Keys \cup {Junk, Wrong}]
        /\ pc \in [Searches -> Pcs]
    BY DEF IInv, Typing, TypeOK
  <1>2. memory[<<"embedded", g>>] = query[g].key
    BY DEF IInv, VectorsOK, OwnVectorOK, PutExisting, PutNew
  <1>3. memory'[<<"cached", g>>] = memory[<<"embedded", g>>]
    BY <1>1, VectorsOf DEF PutExisting, PutNew
  <1>4. QED  BY <1>1, <1>2, <1>3 DEF PutExisting, PutNew, Goto

\* Every step keeps the vectors in the cache right and unshared.
LEMMA CachedVectorsKept ==
  ASSUME IInv, NEW g \in Searches, ResolveKey(g) \/ Step(g) \/ Overwrite(g)
  PROVE  \A i \in 1 .. Len(ll') : \E h \in Searches :
           /\ ll'[i].vector = <<"cached", h>>
           /\ pc'[h] \in {"copy", "returned"}
           /\ memory'[<<"cached", h>>] = ll'[i].key
  <1> DEFINE Fine(entry) == \E h \in Searches :
               /\ entry.vector = <<"cached", h>>
               /\ pc'[h] \in {"copy", "returned"}
               /\ memory'[<<"cached", h>>] = entry.key
             front == [key |-> query[g].key, vector |-> <<"cached", g>>]
  <1>0. Len(ll) \in Nat
    BY DEF IInv, Typing, TypeOK
  <1>1. \A i \in 1 .. Len(ll) : Fine(ll[i])
    BY CachedByKept DEF IInv, VectorsOK
  <1>2. PutExisting(g) \/ PutNew(g) => Fine(front)
    BY FrontCachedBy
  <1> HIDE DEF Fine, front
  <1>3. CASE UNCHANGED ll
    BY <1>1, <1>3 DEF Fine
  <1>4. CASE GetHit(g)
    <2>1. PICK p \in 1 .. Len(ll) :
            Len(ll') = Len(ll) /\ \A i \in 1 .. Len(ll) : ll'[i] = ll[Was(i, p)]
      BY <1>4, HitList DEF IInv
    <2>2. \A i \in 1 .. Len(ll) : Was(i, p) \in 1 .. Len(ll)
      BY <1>0, WasPermutes
    <2>3. \A i \in 1 .. Len(ll') : Fine(ll'[i])
      BY <1>1, <2>1, <2>2
    <2>4. QED  BY <2>3 DEF Fine
  <1>5. CASE PutExisting(g)
    <2>1. PICK p \in 1 .. Len(ll) :
            /\ Len(ll') = Len(ll)
            /\ ll'[1] = front
            /\ \A i \in 2 .. Len(ll) : ll'[i] = ll[Was(i, p)]
      BY <1>5, StoreList DEF IInv, front
    <2>2. \A i \in 1 .. Len(ll) : Was(i, p) \in 1 .. Len(ll)
      BY <1>0, WasPermutes
    <2>3. ASSUME NEW i \in 1 .. Len(ll') PROVE Fine(ll'[i])
      <3>1. CASE i = 1
        BY <1>2, <1>5, <2>1, <3>1
      <3>2. CASE i # 1
        <4>1. i \in 2 .. Len(ll) /\ i \in 1 .. Len(ll)
          BY <1>0, <2>1, <3>2
        <4>2. QED  BY <1>1, <2>1, <2>2, <4>1
      <3>3. QED  BY <3>1, <3>2
    <2>4. QED  BY <2>3 DEF Fine
  <1>6. CASE PutNew(g)
    <2>1. /\ Len(ll') = Len(ll) \/ Len(ll') = Len(ll) + 1
          /\ ll'[1] = front
          /\ \A i \in 2 .. Len(ll') : ll'[i] = ll[i - 1]
      BY <1>6, PushList DEF IInv, front
    <2>2. ASSUME NEW i \in 1 .. Len(ll') PROVE Fine(ll'[i])
      <3>1. CASE i = 1
        BY <1>2, <1>6, <2>1, <3>1
      <3>2. CASE i # 1
        <4>1. i \in 2 .. Len(ll') /\ i - 1 \in 1 .. Len(ll)
          BY <1>0, <2>1, <3>2
        <4>2. QED  BY <1>1, <2>1, <4>1
      <3>3. QED  BY <3>1, <3>2
    <2>3. QED  BY <2>2 DEF Fine
  <1>7. QED  BY <1>3, <1>4, <1>5, <1>6
             DEF ResolveKey, Step, Overwrite, Get, Embed, PutEntered, ReturnEmbedded

\* Every step keeps all vectors right.
LEMMA VectorsKept ==
  ASSUME IInv, [Next]_vars
  PROVE  VectorsOK'
  <1>1. ASSUME NEW g \in Searches, ResolveKey(g) \/ Step(g) \/ Overwrite(g)
        PROVE  VectorsOK'
    BY <1>1, OwnVectorsKept, CachedVectorsKept DEF VectorsOK, CachedBy
  <1>2. CASE UNCHANGED vars
    BY <1>2 DEF IInv, VectorsOK, OwnVectorOK, CachedBy, vars
  <1>3. QED  BY <1>1, <1>2 DEF Next, Terminated

-----------------------------------------------------------------------------
(***************************************************************************)
(* The theorems.                                                           *)
(***************************************************************************)

\* The inductive invariant.
THEOREM Invariance == Spec => []IInv
  <1>1. Init => IInv
    <2> SUFFICES ASSUME Init PROVE IInv
      OBVIOUS
    <2>1. TypeOK
      <3>1. <<>> \in Seq(Entries)
        OBVIOUS
      <3>2. \A g \in Searches : <<"returned", g>> \in Vectors
        BY VectorsOf
      <3>3. QED  BY <3>1, <3>2 DEF Init, TypeOK, Pcs, Statuses
    <2>2. Guarded /\ QueriesOK
      BY CacheAssumption DEF Init, Guarded, QueriesOK, QueryOK, Inside
    <2>3. Len(ll) = 0
      BY DEF Init
    <2>4. Recency /\ ListOK
      BY <2>3, CacheAssumption DEF Init, Recency, ListOK
    <2>5. VectorsOK
      BY <2>3 DEF Init, VectorsOK, OwnVectorOK
    <2>6. QED  BY <2>1, <2>2, <2>4, <2>5 DEF IInv, Typing
  <1>2. IInv /\ [Next]_vars => IInv'
    BY TypeKept, GuardKept, QueriesKept, ListKept, VectorsKept DEF IInv, Typing
  <1>3. QED  BY <1>1, <1>2, PTL DEF Spec

\* Every state is well typed: no search ever puts an empty key into the cache.
THEOREM TypeCorrect == Spec => []TypeOK
  <1>1. IInv => TypeOK
    BY DEF IInv, Typing
  <1>2. QED  BY <1>1, Invariance, PTL

\* The map and the list of the cache hold the same keys, each once, and at
\* most Capacity of them, whatever searches meet in Get and Put.
THEOREM MapAndListAgree == Spec => []MapMatchesList
  <1>1. IInv => MapMatchesList
    <2> SUFFICES ASSUME IInv PROVE MapMatchesList
      OBVIOUS
    <2> DEFINE f == [i \in 1 .. Len(ll) |-> ll[i].key]
    <2>1. /\ Len(ll) \in Nat /\ Len(ll) <= Capacity
          /\ entries = {ll[i].key : i \in 1 .. Len(ll)}
      BY DEF IInv, Typing, TypeOK, ListOK
    <2>2. \A i, j \in 1 .. Len(ll) : f[i] = f[j] => i = j
      BY KeysApart DEF IInv, Typing
    <2>3. \A i \in 1 .. Len(ll) : f[i] \in entries
      BY <2>1
    <2>4. \A k \in entries : \E i \in 1 .. Len(ll) : f[i] = k
      BY <2>1
    <2>5. f \in Bijection(1 .. Len(ll), entries)
      <3>1. f \in [1 .. Len(ll) -> entries]
        BY <2>3
      <3> HIDE DEF f
      <3>2. QED  BY <2>2, <2>4, <3>1 DEF Bijection, Injection, Surjection, IsInjective
    <2>6. Cardinality(entries) = Len(ll)
      BY <2>1, <2>5, FS_CountingElements DEF ExistsBijection
    <2>7. QED  BY <2>1, <2>6 DEF MapMatchesList
  <1>2. QED  BY <1>1, Invariance, PTL

\* The cache keeps the keys used last, in the order of their last uses: a key
\* is evicted only after Capacity others were used since.
THEOREM EvictsLeastRecentlyUsed == Spec => []RecentlyUsedKept
  <1>1. IInv => RecentlyUsedKept
    BY DEF IInv, Recency, RecentlyUsedKept
  <1>2. QED  BY <1>1, Invariance, PTL

\* No vector in the cache is wrong, or changes when, after a search, the
\* embedder that made its vector or the caller that was given it writes to it.
THEOREM CacheIsNotShared == Spec => []CachedVectorsRight
  <1>1. IInv => CachedVectorsRight
    BY DEF IInv, VectorsOK, CachedBy, CachedVectorsRight
  <1>2. QED  BY <1>1, Invariance, PTL

\* A search is given the vector of the query it asked for.
THEOREM SearchesGetTheirVector == Spec => ReturnedVectorRight
  <1>1. ASSUME IInv, [Next]_vars, NEW g \in Searches,
               pc[g] # "returned", pc'[g] = "returned"
        PROVE  memory'[result'[g]] = query[g].key
    <2>0. TypeOK /\ Typing /\ VectorsOK
      BY <1>1 DEF IInv, Typing
    <2>1. GetHit(g) \/ ReturnEmbedded(g)
      <3>1. PICK d \in Searches : ResolveKey(d) \/ Step(d) \/ Overwrite(d)
        BY <1>1 DEF Next, Terminated, vars
      <3>2. d = g
        BY <1>1, <2>0, <3>1, OthersKept
      <3>3. QED  BY <1>1, <2>0, <3>1, <3>2
                 DEF Step, ResolveKey, Overwrite, Get, Embed, PutEntered, PutExisting,
                     PutNew, Goto, TypeOK
    <2>2. CASE GetHit(g)
      <3>1. PICK p \in 1 .. Len(ll) :
              ll[p].key = query[g].key /\ ReturnClone(g, ll[p].vector)
        BY <1>1, <2>2, HitList DEF IInv
      <3>2. ll[p].vector \in Vectors /\ memory[ll[p].vector] = ll[p].key
        BY <2>0, EntriesTyped DEF TypeOK, VectorsOK, CachedBy
      <3>3. QED  BY <2>0, <3>1, <3>2, Returning
    <2>3. CASE ReturnEmbedded(g)
      <3>1. ReturnClone(g, <<"embedded", g>>) /\ pc[g] = "copy"
        BY <2>3 DEF ReturnEmbedded
      <3>2. memory[<<"embedded", g>>] = query[g].key
        BY <2>0, <3>1 DEF VectorsOK, OwnVectorOK
      <3>3. /\ memory'[<<"returned", g>>] = memory[<<"embedded", g>>]
            /\ result'[g] = <<"returned", g>>
        BY <2>0, <3>1, VectorsOf, Returning
      <3>4. QED  BY <3>2, <3>3
    <2>4. QED  BY <2>1, <2>2, <2>3
  <1>2. IInv /\ [Next]_vars =>
          \A g \in Searches : pc[g] # "returned" /\ pc'[g] = "returned" =>
            memory'[result'[g]] = query[g].key
    BY <1>1
  <1>3. QED  BY <1>2, Invariance, PTL DEF Spec, ReturnedVectorRight
=============================================================================
