----------------------------- MODULE KnowledgeBase -----------------------------
(***************************************************************************)
(* What the write operations of a simplykb Store promise, seen from        *)
(* outside: every call takes effect at one instant between the call and    *)
(* its answer, or not at all.                                              *)
(*                                                                         *)
(*  - A write that answers ok has taken effect, and one that answers       *)
(*    conflict never does.  A call that answers error may still take       *)
(*    effect, once, at that time or later: its COMMIT may be on the way.   *)
(*  - An upsert brings the document to the requested content and metadata; *)
(*    it keeps the chunks as they are if the content is there already.  A  *)
(*    reindex rebuilds the chunks.  Chunks are never replaced by chunks    *)
(*    prepared by an older recipe.                                         *)
(*  - A delete removes documents present at some instant after it was      *)
(*    called, those of them that nobody else removed before it takes       *)
(*    effect; a document created in the meantime survives it.              *)
(***************************************************************************)
EXTENDS Integers

CONSTANTS Calls, Keys, Collections, CollectionOf, Contents, Metas, Recipes, Absent

Entries == [content: Contents, meta: Metas, recipe: Recipes]

VARIABLES
  ask,     \* the request of each call
  answer,  \* what its client was told
  landed,  \* whether it has taken effect
  aim,     \* the documents a delete is about to remove
  kb       \* the documents

kbVars == <<ask, answer, landed, aim, kb>>

Names(c) == IF ask[c].op = "deleteCollection"
              THEN {k \in Keys : CollectionOf[k] = ask[c].collection}
              ELSE {ask[c].key}

\* The entries a write may leave where it finds `old'.
Written(c, old) ==
  {new \in Entries :
     /\ new.content = ask[c].content
     /\ new.meta = ask[c].meta
     /\ old # Absent =>
          IF ask[c].op = "upsert" /\ old.content = new.content
            THEN new.recipe = old.recipe
            ELSE new.recipe >= old.recipe}

KBInit ==
  /\ answer = [c \in Calls |-> "pending"]
  /\ landed = [c \in Calls |-> FALSE]
  /\ aim = [c \in Calls |-> {}]
  /\ kb \in [Keys -> Entries \cup {Absent}]

Answer(c) == answer' = [answer EXCEPT ![c] = IF @ = "pending" THEN "ok" ELSE @]

\* The instant a write takes effect.
LandWrite(c) ==
  /\ ask[c].op \in {"upsert", "reindex"}
  /\ ~landed[c] /\ answer[c] \in {"pending", "error"}
  /\ \E new \in Written(c, kb[ask[c].key]) : kb' = [kb EXCEPT ![ask[c].key] = new]
  /\ landed' = [landed EXCEPT ![c] = TRUE]
  /\ Answer(c)
  /\ UNCHANGED <<ask, aim>>

\* A delete sees what there is to remove.
Aim(c) ==
  /\ ask[c].op \in {"delete", "deleteCollection"}
  /\ ~landed[c] /\ answer[c] \in {"pending", "error"}
  /\ aim' = [aim EXCEPT ![c] = {k \in Names(c) : kb[k] # Absent}]
  /\ UNCHANGED <<ask, answer, landed, kb>>

\* The instant a delete takes effect.
LandDelete(c) ==
  /\ ask[c].op \in {"delete", "deleteCollection"}
  /\ ~landed[c] /\ answer[c] \in {"pending", "error"}
  /\ kb' = [k \in Keys |-> IF k \in aim[c] THEN Absent ELSE kb[k]]
  /\ aim' = [d \in Calls |-> aim[d] \ aim[c]]
  /\ landed' = [landed EXCEPT ![c] = TRUE]
  /\ Answer(c)
  /\ UNCHANGED ask

\* A call fails, perhaps before it takes effect.
Refuse(c) ==
  /\ answer[c] = "pending"
  /\ \/ answer' = [answer EXCEPT ![c] = "error"]
     \/ /\ ask[c].op \in {"upsert", "reindex"} /\ ~landed[c]
        /\ answer' = [answer EXCEPT ![c] = "conflict"]
  /\ UNCHANGED <<ask, landed, aim, kb>>

KBNext ==
  \E c \in Calls : LandWrite(c) \/ Aim(c) \/ LandDelete(c) \/ Refuse(c)

KBSpec == KBInit /\ [][KBNext]_kbVars
==============================================================================
