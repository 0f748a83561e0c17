------------------------------- MODULE MCSearch -------------------------------
(***************************************************************************)
(* A small instance of Search for TLC.                                     *)
(***************************************************************************)
EXTENDS Search, TLC

CONSTANTS wiki, mail,       \* collections
          t1, t2, t3,       \* texts
          meta1, meta2

InCollections == (1 :> wiki) @@ (2 :> wiki) @@ (3 :> mail)

\* One content of two chunks, and one of a single chunk.
Contents2 == {<<t1, t2>>, <<t3>>}

\* One query finds t1 and t3 in the full text but prefers t2 by vectors; the
\* other agrees with itself, with ties.
Divided == [relevance |-> (t1 :> 2) @@ (t2 :> 0) @@ (t3 :> 1),
            similarity |-> (t1 :> 1) @@ (t2 :> 2) @@ (t3 :> 1)]
Agreed == [relevance |-> (t1 :> 1) @@ (t2 :> 1) @@ (t3 :> 2),
           similarity |-> (t1 :> 1) @@ (t2 :> 1) @@ (t3 :> 2)]
Queries2 == {Divided, Agreed}

Raw(searchLimit, candidateLimit, rrf, collection, sound) ==
  [searchLimit |-> searchLimit, candidateLimit |-> candidateLimit, rrf |-> rrf,
   collection |-> collection, sound |-> sound]

\* All defaults, a legal pair of limits, a pair that only the defaults make
\* illegal, an illegal pair, and other errors.
Configs ==
  {Raw(0, 0, 0, Blank, TRUE), Raw(-1, 3, 1, mail, TRUE), Raw(0, 1, 1, wiki, TRUE),
   Raw(3, 2, 1, wiki, TRUE), Raw(1, 2, 1, wiki, FALSE)}

Request(collection, query, limit, candidateLimit, mode, filter) ==
  [collection |-> collection, query |-> query, limit |-> limit,
   candidateLimit |-> candidateLimit, mode |-> mode, filter |-> filter]

Searches ==
  {Request(Blank, q, 0, 0, Blank, Blank) : q \in Queries \cup {Blank}}
    \cup {Request(wiki, q, 3, 0, mode, Blank) : q \in Queries, mode \in Modes}
    \cup {Request(wiki, Divided, 1, 2, mode, meta1) : mode \in Modes}
    \cup {Request(wiki, Agreed, 2, 1, "hybrid", Blank),
          Request(wiki, Agreed, -1, 3, "other", Blank)}

Row(id, d, n, text, meta) ==
  [id |-> id, document |-> d, number |-> n, text |-> text, meta |-> meta]

Filled ==
  {{Row(1, 1, 1, t1, meta1), Row(2, 1, 2, t2, meta1), Row(3, 2, 1, t3, meta),
    Row(4, 3, 1, t3, meta1)} : meta \in {meta1, meta2}}
==============================================================================
