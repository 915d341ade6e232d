--------------------------- MODULE AgentDefinition ---------------------------
(***************************************************************************)
(* One agent definition: its row in agents and its history in              *)
(* agent_definition_versions (agent-definition-service.ts), with clients   *)
(* that PATCH it with If-Match, an archive, and the routes of the older    *)
(* API, which create definitions without a history and change fields       *)
(* without a version.                                                      *)
(*                                                                         *)
(* A patch is a transaction that locks the row FOR UPDATE; readers see the *)
(* row and the versions once it has committed.  The value of a field is    *)
(* the client that wrote it.                                               *)
(***************************************************************************)
EXTENDS Naturals

CONSTANTS
  Patchers,     \* calls of PATCH /api/v1/agent-definitions/:id
  OldClients,   \* calls of PATCH /api/agents/:id
  Fields,       \* editable fields
  Nobody        \* no client; the creator of the definition

ASSUME ClientsAssumption == Nobody \notin Patchers \cup OldClients

VARIABLES
  row,       \* version (0: no row), fields, archived; drift: history, the
             \* fields the older API changed since the last version
  versions,  \* agent_definition_versions: version -> its snapshot and author
  locked,    \* the patch whose transaction holds the row
  client     \* client[c]: its step, the version it read, the row it locked

definitionVars == <<row, versions, locked, client>>

Blank == [f \in Fields |-> Nobody]

NoRow == [version |-> 0, fields |-> Blank, archived |-> 0, drift |-> {}]

FirstRow == [NoRow EXCEPT !.version = 1]

Version(n, fields, by) == [m \in DOMAIN versions \cup {n} |->
  IF m = n THEN [fields |-> fields, by |-> by] ELSE versions[m]]

DefinitionInit ==
  /\ row = NoRow /\ versions = [n \in {} |-> 0] /\ locked = Nobody
  /\ client = [c \in Patchers \cup OldClients |-> [pc |-> "idle", seen |-> 0, copy |-> NoRow]]

(* POST /api/v1/agent-definitions: the row and its version 1, in one       *)
(* transaction.                                                            *)
Create ==
  /\ row.version = 0
  /\ row' = FirstRow
  /\ versions' = Version(1, Blank, Nobody)
  /\ UNCHANGED <<locked, client>>

(* POST /api/agents: the row alone; current_version is 1 by default. *)
CreateWithoutVersion ==
  /\ row.version = 0
  /\ row' = FirstRow
  /\ UNCHANGED <<versions, locked, client>>

(* GET: the version the client will name in If-Match. *)
ReadVersion(p) ==
  /\ client[p].pc = "idle" /\ row.version > 0
  /\ client' = [client EXCEPT ![p].pc = "read", ![p].seen = row.version]
  /\ UNCHANGED <<row, versions, locked>>

MayPatch(p) == row.archived = 0 /\ row.version = client[p].seen

(* Mutant: the row is read without FOR UPDATE. *)
LockRowPlain(p) ==
  /\ client[p].pc = "read"
  /\ client' = [client EXCEPT ![p].pc = IF MayPatch(p) THEN "locked" ELSE "done", ![p].copy = row]
  /\ UNCHANGED <<row, versions, locked>>

(* SELECT ... FOR UPDATE, then the checks: archived, If-Match. *)
LockRow(p) ==
  /\ client[p].pc = "read" /\ locked = Nobody
  /\ client' = [client EXCEPT ![p].pc = IF MayPatch(p) THEN "locked" ELSE "done", ![p].copy = row]
  /\ locked' = IF MayPatch(p) THEN p ELSE Nobody
  /\ UNCHANGED <<row, versions>>

Released(p) ==
  /\ locked' = IF locked = p THEN Nobody ELSE locked
  /\ client' = [client EXCEPT ![p].pc = "done"]

(* INSERT of the version with the merged fields, UPDATE of the patched     *)
(* field and of current_version, COMMIT.  (agent_id, version) is unique.   *)
Save(p, f) ==
  LET next == client[p].copy.version + 1 IN
  /\ client[p].pc = "locked" /\ next \notin DOMAIN versions
  /\ versions' = Version(next, [client[p].copy.fields EXCEPT ![f] = p], p)
  /\ row' = [row EXCEPT !.fields[f] = p, !.version = next, !.drift = {}]
  /\ Released(p)

(* ROLLBACK: a unique violation, or the connection is lost. *)
Fail(p) ==
  /\ client[p].pc = "locked"
  /\ Released(p) /\ UNCHANGED <<row, versions>>

(* PATCH /api/agents/:id: one UPDATE, of an archived row too, and no       *)
(* version.  It waits for the lock of the row.                             *)
EditInPlace(c, f) ==
  /\ client[c].pc = "idle" /\ row.version > 0 /\ locked = Nobody
  /\ row' = [row EXCEPT !.fields[f] = c, !.drift = @ \cup {f}]
  /\ client' = [client EXCEPT ![c].pc = "done"]
  /\ UNCHANGED <<versions, locked>>

(* POST .../archive; archived is the version it found, 0 for NULL. *)
Archive ==
  /\ row.version > 0 /\ row.archived = 0 /\ locked = Nobody
  /\ row' = [row EXCEPT !.archived = @ + row.version]
  /\ UNCHANGED <<versions, locked, client>>

DefinitionNext ==
  \/ Create \/ CreateWithoutVersion \/ Archive
  \/ \E p \in Patchers : \/ ReadVersion(p) \/ LockRow(p) \/ Fail(p)
                         \/ \E f \in Fields : Save(p, f)
  \/ \E c \in OldClients, f \in Fields : EditInPlace(c, f)

DefinitionSpec == DefinitionInit /\ [][DefinitionNext]_definitionVars

-----------------------------------------------------------------------------
(* No patch overwrites what its author had not read: a version differs     *)
(* from the one before it in fields of its author or of the older API, and *)
(* its author had read that one.                                           *)
NoLostPatch ==
  \A n \in DOMAIN versions : n - 1 \in DOMAIN versions =>
    /\ client[versions[n].by].seen = n - 1
    /\ \A f \in Fields : versions[n].fields[f] # versions[n - 1].fields[f] =>
         versions[n].fields[f] \in OldClients \cup {versions[n].by}

(* The history: versions without gaps up to the current one, the current   *)
(* snapshot equal to the row but for what the older API changed since, and *)
(* no version after the archive.  A definition made by the older API has   *)
(* no version 1.                                                           *)
HistoryComplete ==
  /\ DOMAIN versions \in {1 .. row.version, 2 .. row.version}
  /\ row.version \in DOMAIN versions =>
       \A f \in Fields \ row.drift : row.fields[f] = versions[row.version].fields[f]
  /\ row.archived # 0 => row.version = row.archived

(* Whatever patches, archives and edits of the older API interleave, the   *)
(* history of a definition stays one that runs can be bound to.            *)
HistorySound == NoLostPatch /\ HistoryComplete
=============================================================================
