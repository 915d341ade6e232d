---------------------------- MODULE ProjectAgents ----------------------------
(***************************************************************************)
(* The current agent of one project (project-agent-service.ts): rows of    *)
(* project_agents, of which at most one is current by a partial unique     *)
(* index, and concurrent calls that set the current agent, clear it, or    *)
(* set it because of what they read.                                       *)
(*                                                                         *)
(* Statements are those of READ COMMITTED: an UPDATE takes its rows from    *)
(* the snapshot at its start, waits for those another transaction has      *)
(* changed, and does not see rows that were inserted meanwhile.  An UPDATE  *)
(* locks its rows at once; where Postgres would find a deadlock, one of    *)
(* the transactions aborts, as any may at any time.                        *)
(***************************************************************************)
CONSTANTS
  Agents,   \* agents of the project; status stays active
  Setters,  \* calls of setCurrentAgent or clearCurrentAgent
  NoAgent

ASSUME NoAgentAssumption == NoAgent \notin Agents

VARIABLES
  binding,  \* the committed rows: "none", or is_current as "on", "off"
  setter,   \* setter[s]: its step, its agent, the rows of its UPDATE
  last      \* history: the agent of the last committed set; NoAgent after
            \* a clear

projectVars == <<binding, setter, last>>

ProjectInit ==
  /\ binding = [a \in Agents |-> "none"]
  /\ setter = [s \in Setters |-> [pc |-> "idle", agent |-> NoAgent, found |-> {}]]
  /\ last = NoAgent

InStep(s, pc) == setter[s].pc = pc

Current == {a \in Agents : binding[a] = "on"}

BeginsSet(s, a) ==
  /\ setter' = [setter EXCEPT ![s].pc = "begin", ![s].agent = a]
  /\ UNCHANGED <<binding, last>>

(* PUT /api/projects/:id/agent, or a chat that names its agent. *)
SetCurrent(s, a) == InStep(s, "idle") /\ BeginsSet(s, a)

(* PUT with null. *)
ClearCurrent(s) == InStep(s, "idle") /\ BeginsSet(s, NoAgent)

(* POST /api/agents and resolveAgentIdForProject: a new agent, or a        *)
(* fallback, becomes current if the read found none.                       *)
SetIfNone(s, a) == InStep(s, "idle") /\ Current = {} /\ BeginsSet(s, a)

(* archiveAgentDefinition: a was archived and is still current, so it is   *)
(* replaced, or cleared if the list of the caller has no other.            *)
Rebind(s, a, b) == InStep(s, "idle") /\ a \in Current /\ b # a /\ BeginsSet(s, b)

(* The UPDATE that unsets the rows of the project begins: its snapshot. *)
FindRows(s) ==
  /\ InStep(s, "begin")
  /\ setter' = [setter EXCEPT ![s].pc = "found", ![s].found = {a \in Agents : binding[a] # "none"}]
  /\ UNCHANGED <<binding, last>>

Unset(s) == setter[s].pc \in {"unset", "written"}

Written(s) == InStep(s, "written")

WroteCurrent(s) == Written(s) /\ setter[s].agent # NoAgent

(* Rows that a transaction changed and has not committed. *)
Dirty(s) == {a \in Agents : \/ Unset(s) /\ a \in setter[s].found
                            \/ Written(s) /\ a = setter[s].agent}

Others(s) == Setters \ {s}

(* The UPDATE ends once nobody else holds its rows. *)
UnsetRows(s) ==
  /\ InStep(s, "found")
  /\ \A t \in Others(s) : Dirty(t) \cap setter[s].found = {}
  /\ setter' = [setter EXCEPT ![s].pc = IF setter[s].agent = NoAgent THEN "written" ELSE "unset"]
  /\ UNCHANGED <<binding, last>>

(* Rows that are current for s beside its own agent: a unique violation. *)
Rivals(s) == Current \ (setter[s].found \cup {setter[s].agent})

(* Mutant: no project_agents_current_idx. *)
WriteCurrentUnindexed(s) ==
  /\ InStep(s, "unset")
  /\ \A t \in Others(s) : setter[s].agent \notin Dirty(t)
  /\ setter' = [setter EXCEPT ![s].pc = "written"]
  /\ UNCHANGED <<binding, last>>

(* INSERT ... ON CONFLICT (project, agent) DO UPDATE is_current = true: it *)
(* waits for its own row, and for the current row another transaction has  *)
(* written; a current row that is committed fails it.                      *)
WriteCurrent(s) ==
  /\ InStep(s, "unset") /\ Rivals(s) = {}
  /\ \A t \in Others(s) : ~ WroteCurrent(t) /\ setter[s].agent \notin Dirty(t)
  /\ setter' = [setter EXCEPT ![s].pc = "written"]
  /\ UNCHANGED <<binding, last>>

CommitSet(s) ==
  /\ Written(s)
  /\ binding' = [a \in Agents |-> IF a = setter[s].agent THEN "on"
                              ELSE IF a \in setter[s].found THEN "off" ELSE binding[a]]
  /\ setter' = [setter EXCEPT ![s].pc = "done"]
  /\ last' = setter[s].agent

(* The unique violation, a deadlock, or a lost connection. *)
AbortSet(s) ==
  /\ setter[s].pc \notin {"idle", "done"}
  /\ setter' = [setter EXCEPT ![s].pc = "done"]
  /\ UNCHANGED <<binding, last>>

ProjectNext ==
  \E s \in Setters :
    \/ ClearCurrent(s) \/ FindRows(s) \/ UnsetRows(s) \/ WriteCurrent(s)
    \/ CommitSet(s) \/ AbortSet(s)
    \/ \E a \in Agents : \/ SetCurrent(s, a) \/ SetIfNone(s, a)
                         \/ \E b \in Agents \cup {NoAgent} : Rebind(s, a, b)

ProjectSpec == ProjectInit /\ [][ProjectNext]_projectVars

(* A call that was answered with success is what the project shows until   *)
(* another one commits: two calls at once never leave two current agents,  *)
(* nor none, nor the agent of the call that committed first.               *)
CurrentIsLastSet == last # NoAgent => Current = {last}
=============================================================================
