-------------------------------- MODULE Dream --------------------------------
(***************************************************************************)
(* One dream (packages/memory/src/dream.ts): a model proposes to delete,   *)
(* merge and rewrite memories, parseDreamActions takes its items one by    *)
(* one, and applyActions deletes first and rewrites then.  Each memory     *)
(* begins with a fact of its own; a merge is proposed with the facts its   *)
(* memories had when they were loaded, and ids that were not loaded, which *)
(* are dropped, are left out.                                              *)
(***************************************************************************)
EXTENDS Naturals, Sequences, FiniteSets

CONSTANTS
  Memories,
  MaxItems  \* bound: items of the answer

VARIABLES
  pc,       \* "parse", "delete", "update", "done", or "failed"
  usedIds,  \* of parseDreamActions
  actions,  \* what it returns; in "update", the rewrites that are left
  content,  \* content[m]: the facts of a memory, {} when it is deleted
  dropped,  \* history: the memories an item deletes by name
  rekept    \* history: a merge kept a memory an earlier action had taken

dreamVars == <<pc, usedIds, actions, content, dropped, rekept>>

DreamInit ==
  /\ pc = "parse" /\ usedIds = {} /\ actions = <<>>
  /\ content = [m \in Memories |-> {m}]
  /\ dropped = {} /\ rekept = FALSE

(* An action is what it deletes and, unless it keeps nothing, the memory   *)
(* it rewrites and the facts it writes.                                    *)
Take(ids, action) ==
  /\ pc = "parse" /\ Len(actions) < MaxItems
  /\ usedIds' = usedIds \cup ids
  /\ actions' = Append(actions, action)
  /\ UNCHANGED <<pc, content>>

DeleteItem(m) ==
  /\ m \notin usedIds
  /\ Take({m}, [deletes |-> {m}, keeps |-> {}, facts |-> {}])
  /\ dropped' = dropped \cup {m}
  /\ UNCHANGED rekept

(* Mutant: what an earlier item keeps or deletes may be merged away. *)
MergeItemUnfiltered(keepId, deleteIds) ==
  LET valid == deleteIds \ {keepId} IN
  /\ valid # {}
  /\ Take(valid \cup {keepId}, [deletes |-> valid, keeps |-> {keepId}, facts |-> deleteIds \cup {keepId}])
  /\ rekept' = (rekept \/ keepId \in usedIds)
  /\ UNCHANGED dropped

(* The memories that are merged away must be unused; the one that is kept  *)
(* is not asked.                                                           *)
MergeItem(keepId, deleteIds) ==
  LET valid == deleteIds \ (usedIds \cup {keepId}) IN
  /\ valid # {}
  /\ Take(valid \cup {keepId}, [deletes |-> valid, keeps |-> {keepId}, facts |-> deleteIds \cup {keepId}])
  /\ rekept' = (rekept \/ keepId \in usedIds)
  /\ UNCHANGED dropped

UpdateItem(m) ==
  /\ m \notin usedIds
  /\ Take({m}, [deletes |-> {}, keeps |-> {m}, facts |-> {m}])
  /\ UNCHANGED <<dropped, rekept>>

(* The answer ends. *)
Parsed == pc = "parse" /\ pc' = "delete" /\ UNCHANGED <<usedIds, actions, content, dropped, rekept>>

(* deleteMemories, of all the actions at once. *)
ApplyDeletes ==
  /\ pc = "delete" /\ pc' = "update"
  /\ LET gone == UNION {actions[i].deletes : i \in DOMAIN actions} IN
       content' = [m \in Memories |-> IF m \in gone THEN {} ELSE content[m]]
  /\ UNCHANGED <<usedIds, actions, dropped, rekept>>

(* updateMemoryContent of the next one that keeps a memory; one that is    *)
(* deleted is not there to be rewritten.                                   *)
ApplyUpdate ==
  /\ pc = "update" /\ actions # <<>>
  /\ content' = [m \in Memories |->
       IF m \in Head(actions).keeps /\ content[m] # {} THEN Head(actions).facts ELSE content[m]]
  /\ actions' = Tail(actions)
  /\ UNCHANGED <<pc, usedIds, dropped, rekept>>

Finish == pc = "update" /\ actions = <<>> /\ pc' = "done" /\ UNCHANGED <<usedIds, actions, content, dropped, rekept>>

(* A statement fails; dreamIfNeeded is silent about it. *)
DreamFails == pc \in {"delete", "update"} /\ pc' = "failed" /\ UNCHANGED <<usedIds, actions, content, dropped, rekept>>

DreamNext ==
  \/ \E m \in Memories :
       DeleteItem(m) \/ UpdateItem(m) \/ \E ids \in SUBSET Memories : MergeItem(m, ids)
  \/ Parsed \/ ApplyDeletes \/ ApplyUpdate \/ Finish \/ DreamFails

DreamSpec == DreamInit /\ [][DreamNext]_dreamVars

(* "Filters invalid IDs and prevents duplicate participation"              *)
(* (parseDreamActions): whatever the model proposes, a fact is in some     *)
(* memory after the dream unless an item deletes its memory by name.  Two  *)
(* ways to lose one remain in the code: a merge that keeps a memory an     *)
(* earlier item has deleted or rewritten (rekept), and a failure after the *)
(* deletions and before the rewrites.                                      *)
FactsKept ==
  pc = "done" /\ ~rekept => Memories \ dropped \subseteq UNION {content[m] : m \in Memories}
=============================================================================
