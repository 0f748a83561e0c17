---------------------------- MODULE MetadataProofs ----------------------------
(***************************************************************************)
(* Proofs about Metadata, for any texts and tags and any number of them:   *)
(* if a float64 has every metadata number, an upsert stores what was sent, *)
(* and rewrites nothing if nothing was changed.                            *)
(***************************************************************************)
EXTENDS Metadata, TLAPS, FiniteSetTheorems

\* A float64 has every number that is used; the run with larger ones shows
\* what happens otherwise.
NumbersAreExact == \A n \in Numbers : ToFloat(n) = n

\* The tags of a request as a set, and the list that is made of such a set
TagSet(raw) == {raw[i].text : i \in 1 .. Len(raw)} \ {Blank}

SortedTags(S) ==
  [i \in 1 .. Cardinality(S) |->
     CHOOSE t \in S : Cardinality({u \in S : u < t}) = i - 1]

\* What is stored for a document is what was sent last.
StoredIsSent ==
  /\ rows \in [Ids -> {Absent} \cup [title: Titles, content: Contents, metadata: Numbers,
                                     tags: Seq(Tags)]]
  /\ DOMAIN sent = Ids
  /\ \A d \in Ids :
       sent[d] # Absent =>
         /\ rows[d] # Absent
         /\ sent[d].tags \in SUBSET Tags
         /\ rows[d].tags = SortedTags(sent[d].tags)
         /\ sent[d] = [title |-> rows[d].title, content |-> rows[d].content,
                       metadata |-> rows[d].metadata, tags |-> sent[d].tags]

-----------------------------------------------------------------------------
(***************************************************************************)
(* Sorted tags.                                                            *)
(***************************************************************************)

\* The number of smaller tags grows with the tag.
LEMMA SmallerTags ==
  ASSUME NEW S \in SUBSET Tags, NEW t \in S, NEW v \in S
  PROVE  /\ IsFiniteSet(S) /\ Cardinality(S) \in Nat
         /\ Cardinality({u \in S : u < t}) \in Nat
         /\ Cardinality({u \in S : u < t}) < Cardinality(S)
         /\ t < v => Cardinality({u \in S : u < t}) < Cardinality({u \in S : u < v})
  <1> DEFINE below(x) == {u \in S : u < x}
  <1>1. S \subseteq Nat /\ IsFiniteSet(S)
    BY MetadataAssumption, FS_Subset DEF MetadataAssumption
  <1>2. /\ below(t) \in SUBSET S /\ below(v) \in SUBSET S
        /\ t \notin below(t)
        /\ t < v => below(t) \in SUBSET below(v)
        /\ t < v => t \in below(v)
    <2>1. \A u \in S : u < t /\ t < v => u < v
      BY <1>1
    <2>2. t < v => below(t) \in SUBSET below(v)
      BY <2>1
    <2>3. t \notin below(t)
      BY <1>1
    <2>4. QED  BY <2>2, <2>3
  <1> HIDE DEF below
  <1>3. IsFiniteSet(below(t)) /\ IsFiniteSet(below(v))
    BY <1>1, <1>2, FS_Subset
  <1>4. /\ Cardinality(S) \in Nat /\ Cardinality(below(t)) \in Nat
        /\ Cardinality(below(v)) \in Nat
    BY <1>1, <1>3, FS_CardinalityType
  <1>5. Cardinality(below(t)) < Cardinality(S)
    <2>1. Cardinality(below(t)) <= Cardinality(S) /\ Cardinality(below(t)) # Cardinality(S)
      BY <1>1, <1>2, FS_Subset
    <2>2. QED  BY <1>4, <2>1
  <1>6. ASSUME t < v PROVE Cardinality(below(t)) < Cardinality(below(v))
    <2>1. /\ Cardinality(below(t)) <= Cardinality(below(v))
          /\ Cardinality(below(t)) # Cardinality(below(v))
      BY <1>2, <1>3, <1>6, FS_Subset
    <2>2. QED  BY <1>4, <2>1
  <1>7. QED  BY <1>1, <1>4, <1>5, <1>6 DEF below

\* A list of sorted tags has the tags of the set and no others.
LEMMA TagsAreKept ==
  ASSUME NEW S \in SUBSET Tags
  PROVE  /\ SortedTags(S) \in Seq(Tags)
         /\ {SortedTags(S)[i] : i \in 1 .. Len(SortedTags(S))} = S
  <1> DEFINE c(t) == Cardinality({u \in S : u < t})
             n == Cardinality(S)
             list == SortedTags(S)
  <1>1. IsFiniteSet(S) /\ n \in Nat /\ S \subseteq Nat
    BY MetadataAssumption, FS_Subset, FS_CardinalityType DEF MetadataAssumption
  <1>2. \A t \in S : c(t) \in Nat /\ c(t) < n
    BY SmallerTags
  <1>3. \A t, v \in S : c(t) = c(v) => t = v
    <2> SUFFICES ASSUME NEW t \in S, NEW v \in S, c(t) = c(v), t # v PROVE FALSE
      OBVIOUS
    <2>1. /\ t < v => c(t) < c(v)
          /\ v < t => c(v) < c(t)
      BY SmallerTags
    <2>2. t < v \/ v < t
      BY <1>1
    <2> HIDE DEF c
    <2>3. QED  BY <1>2, <2>1, <2>2
  <1>4. ASSUME NEW i \in 1 .. n PROVE \E t \in S : c(t) = i - 1
    <2> HIDE DEF c
    <2> DEFINE f == [t \in S |-> c(t) + 1]
    <2>1. f \in [S -> 1 .. n]
      BY <1>1, <1>2
    <2>2. \A t, v \in S : f[t] = f[v] => t = v
      BY <1>2, <1>3
    <2>3. IsFiniteSet(1 .. n) /\ Cardinality(1 .. n) = n
      BY <1>1, FS_Interval
    <2> HIDE DEF f
    <2>4. f \in Injection(S, 1 .. n)
      BY <2>1, <2>2 DEF Injection, IsInjective
    <2>5. f \in Surjection(S, 1 .. n)
      BY <2>3, <2>4, FS_Injection
    <2>6. PICK t \in S : f[t] = i
      BY <2>5 DEF Surjection
    <2>7. f[t] = c(t) + 1
      BY DEF f
    <2>8. QED  BY <1>2, <2>6, <2>7
  <1>5. ASSUME NEW i \in 1 .. n PROVE list[i] \in S /\ c(list[i]) = i - 1
    <2>1. PICK t \in S : Cardinality({u \in S : u < t}) = i - 1
      BY <1>4
    <2>2. list[i] = CHOOSE x \in S : Cardinality({u \in S : u < x}) = i - 1
      BY DEF SortedTags
    <2> HIDE DEF list
    <2>3. list[i] \in S /\ Cardinality({u \in S : u < list[i]}) = i - 1
      BY <2>1, <2>2, Zenon
    <2>4. QED  BY <2>3
  <1>6. list = [i \in 1 .. n |-> list[i]]
    <2> DEFINE place(i) == CHOOSE t \in S : Cardinality({u \in S : u < t}) = i - 1
    <2>1. list = [i \in 1 .. n |-> place(i)]
      BY Zenon DEF SortedTags
    <2> HIDE DEF list, n, place
    <2>2. QED  BY <2>1
  <1> HIDE DEF list, c
  <1>7. list \in Seq(S) /\ Len(list) = n
    <2>1. list \in [1 .. n -> S]
      BY <1>5, <1>6
    <2> HIDE DEF n
    <2>2. QED  BY <1>1, <2>1
  <1>8. \A i \in 1 .. n : list[i] \in S
    BY <1>5
  <1>9. \A t \in S : \E i \in 1 .. n : list[i] = t
    <2> SUFFICES ASSUME NEW t \in S PROVE \E i \in 1 .. n : list[i] = t
      OBVIOUS
    <2>1. c(t) + 1 \in 1 .. n /\ (c(t) + 1) - 1 = c(t)
      BY <1>1, <1>2
    <2>2. list[c(t) + 1] \in S /\ c(list[c(t) + 1]) = c(t)
      BY <1>5, <2>1
    <2>3. list[c(t) + 1] = t
      BY <1>3, <2>2
    <2>4. QED  BY <2>1, <2>3
  <1>10. {list[i] : i \in 1 .. Len(list)} = S
    <2> HIDE DEF n
    <2>1. QED  BY <1>7, <1>8, <1>9
  <1>11. list \in Seq(Tags)
    BY <1>7
  <1>12. QED  BY <1>10, <1>11 DEF list

-----------------------------------------------------------------------------
(***************************************************************************)
(* Upserts.                                                                *)
(***************************************************************************)

\* What a request that is accepted has
LEMMA RequestFacts ==
  ASSUME NEW req \in Requests, Valid(req)
  PROVE  /\ req.id \in Ids /\ req.title \in Titles /\ req.content \in Contents
         /\ req.metadata \in Numbers
         /\ TagSet(req.tags) \in SUBSET Tags
         /\ NormalizeTags(req.tags) = SortedTags(TagSet(req.tags))
         /\ Meaning(req) = [title |-> req.title, content |-> req.content,
                            metadata |-> req.metadata, tags |-> TagSet(req.tags)]
  <1>1. /\ req.id \in Ids /\ req.title \in Titles /\ req.content \in Contents
        /\ req.metadata \in Numbers
        /\ req.tags \in UNION {[1 .. n -> RawTags] : n \in 0 .. MaxTags}
    BY DEF Requests, Valid
  <1>2. PICK n \in 0 .. MaxTags : req.tags \in [1 .. n -> RawTags]
    BY <1>1
  <1>3. n \in Nat
    BY MetadataAssumption DEF MetadataAssumption
  <1>4. req.tags \in Seq(RawTags)
    BY <1>2, <1>3
  <1>5. \A i \in 1 .. Len(req.tags) : req.tags[i].text \in Tags \cup {Blank}
    <2>1. \A i \in 1 .. Len(req.tags) : req.tags[i] \in RawTags
      BY <1>4
    <2>2. \A t \in RawTags : t.text \in Tags \cup {Blank}
      BY DEF RawTags
    <2>3. QED  BY <2>1, <2>2
  <1>6. TagSet(req.tags) \in SUBSET Tags
    BY <1>5 DEF TagSet
  <1>7. NormalizeTags(req.tags) = SortedTags(TagSet(req.tags))
    BY DEF NormalizeTags, SortedTags, TagSet, Trim
  <1>8. Meaning(req) = [title |-> req.title, content |-> req.content,
                        metadata |-> req.metadata, tags |-> TagSet(req.tags)]
    BY DEF Meaning, TagSet
  <1>9. QED  BY <1>1, <1>6, <1>7, <1>8

\* An upsert stores what was sent, also if it finds nothing to do.
LEMMA UpsertStores ==
  ASSUME NumbersAreExact, StoredIsSent, NEW req \in Requests, UpsertDocument(req)
  PROVE  StoredIsSent'
  <1> DEFINE d == req.id
             S == TagSet(req.tags)
             new == [title |-> req.title, content |-> req.content,
                     metadata |-> req.metadata, tags |-> SortedTags(S)]
             Rows == [title: Titles, content: Contents, metadata: Numbers, tags: Seq(Tags)]
  <1>1. /\ d \in Ids /\ req.title \in Titles /\ req.content \in Contents
        /\ req.metadata \in Numbers /\ S \in SUBSET Tags
        /\ NormalizeTags(req.tags) = SortedTags(S)
        /\ Meaning(req) = [title |-> req.title, content |-> req.content,
                           metadata |-> req.metadata, tags |-> S]
    BY RequestFacts DEF UpsertDocument
  <1>2. sent' = [sent EXCEPT ![d] = Meaning(req)] /\ DOMAIN sent = Ids
    BY DEF UpsertDocument, StoredIsSent
  <1>3. rows \in [Ids -> {Absent} \cup Rows]
    BY DEF StoredIsSent
  <1>4. SortedTags(S) \in Seq(Tags)
    BY <1>1, TagsAreKept
  <1>5. new \in Rows /\ new # Absent
    <2>1. new \in Rows
      BY <1>1, <1>4
    <2>2. Absent \notin Rows
      BY MetadataAssumption DEF MetadataAssumption
    <2>3. QED  BY <2>1, <2>2
  <1>6. /\ rows' \in [Ids -> {Absent} \cup Rows]
        /\ rows'[d] = new /\ rows'[d] # Absent
        /\ \A e \in Ids : e # d => rows'[e] = rows[e]
    <2>1. CASE Classify(rows[d], req) = "noop"
      <3>1. rows' = rows
        BY <2>1 DEF UpsertDocument
      <3>2. /\ rows[d] # Absent /\ rows[d].content = req.content
            /\ SameVisible(rows[d], req)
        BY <2>1 DEF Classify
      <3>3. rows[d] \in Rows
        BY <1>1, <1>3, <3>2
      <3>4. rows[d].title = req.title /\ rows[d].tags = SortedTags(S)
        BY <1>1, <3>2 DEF SameVisible
      <3>5. rows[d].metadata = req.metadata
        <4>1. rows[d].metadata \in Numbers
          BY <3>3
        <4>2. ToFloat(rows[d].metadata) = req.metadata
          BY <3>2 DEF SameVisible, CanonicalStoredMetadata, CanonicalMetadata
        <4>3. QED  BY <4>1, <4>2 DEF NumbersAreExact
      <3>6. rows[d] = new
        BY <3>2, <3>3, <3>4, <3>5
      <3>7. QED  BY <1>3, <1>5, <3>1, <3>6
    <2>2. CASE Classify(rows[d], req) # "noop"
      <3>1. rows' = [rows EXCEPT ![d] = new]
        BY <1>1, <2>2 DEF UpsertDocument
      <3> HIDE DEF new, Rows
      <3>2. QED  BY <1>1, <1>3, <1>5, <3>1
    <2>3. QED  BY <2>1, <2>2
  <1>7. /\ DOMAIN sent' = Ids /\ sent'[d] = Meaning(req)
        /\ \A e \in Ids : e # d => sent'[e] = sent[e]
    BY <1>1, <1>2
  <1>8. ASSUME NEW e \in Ids, sent'[e] # Absent
        PROVE  /\ rows'[e] # Absent
               /\ sent'[e].tags \in SUBSET Tags
               /\ rows'[e].tags = SortedTags(sent'[e].tags)
               /\ sent'[e] = [title |-> rows'[e].title, content |-> rows'[e].content,
                              metadata |-> rows'[e].metadata, tags |-> sent'[e].tags]
    <2>1. CASE e = d
      <3>1. /\ sent'[e].tags = S
            /\ sent'[e] = [title |-> req.title, content |-> req.content,
                           metadata |-> req.metadata, tags |-> sent'[e].tags]
        BY <1>1, <1>7, <2>1
      <3>2. /\ rows'[e].title = req.title /\ rows'[e].content = req.content
            /\ rows'[e].metadata = req.metadata /\ rows'[e].tags = SortedTags(S)
        BY <1>6, <2>1
      <3> HIDE DEF S
      <3>3. QED  BY <1>1, <1>6, <2>1, <3>1, <3>2
    <2>2. CASE e # d
      BY <1>6, <1>7, <1>8, <2>2 DEF StoredIsSent
    <2>3. QED  BY <2>1, <2>2
  <1>9. QED  BY <1>6, <1>7, <1>8 DEF StoredIsSent

\* The invariant holds in every state, of numbers that a float64 has.
LEMMA StoredInvariant ==
  ASSUME NumbersAreExact
  PROVE  Spec => []StoredIsSent
  <1>1. Init => StoredIsSent
    BY DEF Init, StoredIsSent
  <1>2. StoredIsSent /\ [Next]_vars => StoredIsSent'
    <2> SUFFICES ASSUME StoredIsSent, [Next]_vars PROVE StoredIsSent'
      OBVIOUS
    <2>1. ASSUME NEW req \in Requests, UpsertDocument(req)  PROVE StoredIsSent'
      BY <2>1, UpsertStores
    <2>2. ASSUME NEW d \in Ids, DeleteDocument(d)  PROVE StoredIsSent'
      BY <2>2 DEF DeleteDocument, StoredIsSent
    <2>3. CASE UNCHANGED vars
      BY <2>3 DEF vars, StoredIsSent
    <2>4. QED  BY <2>1, <2>2, <2>3 DEF Next
  <1>3. QED  BY <1>1, <1>2, PTL DEF Spec

\* After an upsert that succeeded, the stored document is the one that was
\* sent, if a float64 has its numbers (store.go, sameDocumentVisibleData).
THEOREM ChangesAreStored ==
  ASSUME NumbersAreExact
  PROVE  Spec => []ChangeStored
  <1>1. StoredIsSent => ChangeStored
    <2> SUFFICES ASSUME StoredIsSent, NEW d \in Ids, sent[d] # Absent
                 PROVE  /\ rows[d] # Absent
                        /\ sent[d] = [title |-> rows[d].title, content |-> rows[d].content,
                             metadata |-> rows[d].metadata,
                             tags |-> {rows[d].tags[i] : i \in 1 .. Len(rows[d].tags)}]
      BY DEF ChangeStored
    <2>1. /\ rows[d] # Absent /\ sent[d].tags \in SUBSET Tags
          /\ rows[d].tags = SortedTags(sent[d].tags)
          /\ sent[d] = [title |-> rows[d].title, content |-> rows[d].content,
                        metadata |-> rows[d].metadata, tags |-> sent[d].tags]
      BY DEF StoredIsSent
    <2>2. {rows[d].tags[i] : i \in 1 .. Len(rows[d].tags)} = sent[d].tags
      BY <2>1, TagsAreKept
    <2>3. QED  BY <2>1, <2>2
  <1>2. QED  BY <1>1, StoredInvariant, PTL

\* An upsert of what was sent before rewrites nothing, in whatever order,
\* repetition and spacing its tags come, if its metadata are an integer that
\* a float64 has.
THEOREM UnchangedStays ==
  ASSUME NumbersAreExact
  PROVE  Spec => UnchangedNotRewritten
  <1>1. StoredIsSent /\ [Next]_vars =>
          [\A d \in Ids : sent[d] # Absent /\ sent'[d] = sent[d] => rewritten' # d]_vars
    <2> SUFFICES ASSUME StoredIsSent, Next, NEW d \in Ids,
                        sent[d] # Absent, sent'[d] = sent[d]
                 PROVE  rewritten' # d
      OBVIOUS
    <2>1. Absent # d
      BY MetadataAssumption DEF MetadataAssumption
    <2>2. ASSUME NEW e \in Ids, DeleteDocument(e)  PROVE rewritten' # d
      BY <2>1, <2>2 DEF DeleteDocument
    <2>3. ASSUME NEW req \in Requests, UpsertDocument(req)  PROVE rewritten' # d
      <3>1. CASE Classify(rows[req.id], req) = "noop"
        BY <2>1, <2>3, <3>1 DEF UpsertDocument
      <3>2. CASE Classify(rows[req.id], req) # "noop" /\ req.id # d
        BY <2>3, <3>2 DEF UpsertDocument
      <3>3. CASE Classify(rows[req.id], req) # "noop" /\ req.id = d
        <4>1. sent'[d] = Meaning(req)
          BY <2>3, <3>3 DEF UpsertDocument, StoredIsSent
        <4>2. /\ NormalizeTags(req.tags) = SortedTags(TagSet(req.tags))
              /\ sent[d].title = req.title /\ sent[d].content = req.content
              /\ sent[d].metadata = req.metadata /\ sent[d].tags = TagSet(req.tags)
          BY <2>3, <4>1, RequestFacts DEF UpsertDocument
        <4>3. /\ rows[d] # Absent /\ rows[d].tags = SortedTags(sent[d].tags)
              /\ rows[d].title = sent[d].title /\ rows[d].content = sent[d].content
              /\ rows[d].metadata = sent[d].metadata
          BY DEF StoredIsSent
        <4>4. req.metadata \in Numbers
          BY <2>3, RequestFacts DEF UpsertDocument
        <4>5. Classify(rows[d], req) = "noop"
          BY <4>2, <4>3, <4>4 DEF Classify, SameVisible, NumbersAreExact,
                                  CanonicalStoredMetadata, CanonicalMetadata
        <4>6. QED  BY <3>3, <4>5
      <3>4. QED  BY <3>1, <3>2, <3>3
    <2>4. QED  BY <2>2, <2>3 DEF Next
  <1>2. QED  BY <1>1, StoredInvariant, PTL DEF Spec, UnchangedNotRewritten
==============================================================================
