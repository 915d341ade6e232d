-------------------------------- MODULE Stars --------------------------------
(***************************************************************************)
(* The stars of one entry of the skill or of the MCP registry, and the     *)
(* count kept beside them for sorting: toggleStar of                       *)
(* SkillRegistryService and of McpRegistryService, three statements        *)
(* without a transaction.  A star of an MCP server refers to its row and   *)
(* goes with it; one of a skill holds the name only, outlives the skill    *)
(* and is there when the name is published again.                          *)
(***************************************************************************)
EXTENDS FiniteSets, Naturals

CONSTANTS
  Stargazers,
  Toggles,  \* calls of toggleStar under way; the button waits, two tabs do not
  MaxCount  \* bound: no call begins at this count, which only miscounting reaches

ASSUME TogglesAssumption == IsFiniteSet(Toggles)

VARIABLES
  registry,  \* "skill" or "mcp"
  listed,    \* its row exists
  stars,     \* the users with a star
  count,     \* star_count of the row
  toggle,    \* toggle[t]: the next statement of a call, and its user
  miscounted \* history: something below made the count differ for good

starVars == <<registry, listed, stars, count, toggle, miscounted>>

StarsInit ==
  /\ registry \in {"skill", "mcp"}
  /\ listed = TRUE /\ stars = {} /\ count = 0
  /\ toggle = [t \in Toggles |-> [pc |-> "idle", user |-> CHOOSE u \in Stargazers : TRUE]]
  /\ miscounted = FALSE

Toggling(pc) == {t \in Toggles : toggle[t].pc = pc}

(* SELECT of the star. *)
ReadStar(t, u) ==
  /\ toggle[t].pc = "idle" /\ count < MaxCount
  /\ toggle' = [toggle EXCEPT ![t] = [pc |-> IF u \in stars THEN "delete" ELSE "insert", user |-> u]]
  /\ UNCHANGED <<registry, listed, stars, count, miscounted>>

(* Mutant: an insert that finds the star there counts it again. *)
InsertStarAnyway(t) ==
  /\ toggle[t].pc = "insert"
  /\ IF registry = "mcp" /\ ~listed
     THEN toggle' = [toggle EXCEPT ![t].pc = "idle"] /\ UNCHANGED stars
     ELSE toggle' = [toggle EXCEPT ![t].pc = "up"] /\ stars' = stars \cup {toggle[t].user}
  /\ UNCHANGED <<registry, listed, count, miscounted>>

(* The INSERT; a second star of a user, or one of no server, is refused    *)
(* and the call throws.                                                    *)
InsertStar(t) ==
  /\ toggle[t].pc = "insert"
  /\ IF toggle[t].user \in stars \/ (registry = "mcp" /\ ~listed)
     THEN toggle' = [toggle EXCEPT ![t].pc = "idle"] /\ UNCHANGED stars
     ELSE toggle' = [toggle EXCEPT ![t].pc = "up"] /\ stars' = stars \cup {toggle[t].user}
  /\ UNCHANGED <<registry, listed, count, miscounted>>

(* The DELETE, which may find the star gone. *)
DeleteStar(t) ==
  /\ toggle[t].pc = "delete"
  /\ miscounted' = (miscounted \/ (listed /\ toggle[t].user \notin stars))
  /\ stars' = stars \ {toggle[t].user}
  /\ toggle' = [toggle EXCEPT ![t].pc = "down"]
  /\ UNCHANGED <<registry, listed, count>>

(* The UPDATE of the count, which does nothing to a row that is gone, and  *)
(* keeps it from sinking below zero: a decrement that overtakes the        *)
(* increment of the star it removes is lost.                               *)
UpdateCount(t) ==
  /\ toggle[t].pc \in {"up", "down"}
  /\ count' = IF ~listed THEN count
              ELSE IF toggle[t].pc = "up" THEN count + 1 ELSE IF count > 0 THEN count - 1 ELSE 0
  /\ miscounted' = (miscounted \/ (listed /\ toggle[t].pc = "down" /\ count = 0))
  /\ toggle' = [toggle EXCEPT ![t].pc = "idle"]
  /\ UNCHANGED <<registry, listed, stars>>

(* A statement, or the process, fails. *)
ToggleFails(t) ==
  /\ toggle[t].pc # "idle"
  /\ miscounted' = (miscounted \/ (listed /\ toggle[t].pc \in {"up", "down"}))
  /\ toggle' = [toggle EXCEPT ![t].pc = "idle"]
  /\ UNCHANGED <<registry, listed, stars, count>>

(* DELETE of the entry; its stars go with it where they refer to it. *)
Unpublish ==
  /\ listed /\ listed' = FALSE
  /\ stars' = IF registry = "mcp" THEN {} ELSE stars
  /\ UNCHANGED <<registry, count, toggle, miscounted>>

(* A skill of the same name; a server of the same name has another id. *)
Publish ==
  /\ registry = "skill" /\ ~listed
  /\ listed' = TRUE /\ count' = 0
  /\ miscounted' = (stars # {} \/ Toggling("up") \cup Toggling("down") # {})
  /\ UNCHANGED <<registry, stars, toggle>>

StarsNext ==
  \/ \E t \in Toggles :
       \/ \E u \in Stargazers : ReadStar(t, u)
       \/ InsertStar(t) \/ DeleteStar(t) \/ UpdateCount(t) \/ ToggleFails(t)
  \/ Unpublish \/ Publish

StarsSpec == StarsInit /\ [][StarsNext]_starVars

(* "Star count (denormalized for sorting)" (schema/skill-registry.ts): the *)
(* count of an entry is that of its stars, but for the calls between two   *)
(* statements.  Two calls of one user that both star do no harm.  What     *)
(* does: two that both remove, a removal that overtakes the count of the   *)
(* star, a call that fails halfway, and a skill published again under a    *)
(* name with stars, until it is removed and published once more.           *)
StarsCounted ==
  listed /\ ~miscounted =>
    count + Cardinality(Toggling("up")) = Cardinality(stars) + Cardinality(Toggling("down"))
=============================================================================
