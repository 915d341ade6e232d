----------------------------- MODULE Credentials -----------------------------
(***************************************************************************)
(* Two kinds of credentials with a cap: the service tokens of one owner    *)
(* (service-token-service.ts), counted and inserted under an advisory      *)
(* lock, and the vault entries of one scope (vault-service.ts on           *)
(* drizzle-vault-db.ts), looked up, counted and upserted by three          *)
(* statements without one.                                                 *)
(***************************************************************************)
EXTENDS Naturals, FiniteSets

CONSTANTS
  Creators,  \* calls of createToken; a token is named by its call
  Storers,   \* calls of VaultService.store; a row is named by its call
  Names,     \* names of vault entries
  Scopes,    \* the scopes to look at: "platform", "project"
  Cap,       \* MAX_ACTIVE_TOKENS_PER_USER, MAX_CREDENTIALS_PER_SCOPE
  NoCall

ASSUME CredentialAssumption == Cap \in Nat /\ NoCall \notin Creators

VARIABLES
  tokens,    \* tokens of the owner that are not revoked
  capLock,   \* the call that holds the advisory lock of the owner
  creator,   \* creator[c]: its step
  scope,     \* of the vault entries
  entries,   \* rows of vault_entries in that scope: id and name
  storer     \* storer[s]: its step and the name it stores

credentialVars == <<tokens, capLock, creator, scope, entries, storer>>

CredentialInit ==
  /\ tokens = {} /\ capLock = NoCall /\ creator = [c \in Creators |-> "idle"]
  /\ scope \in Scopes /\ entries = {}
  /\ storer \in [Storers -> [pc: {"idle"}, name: Names]]

VaultUnchanged == UNCHANGED <<scope, entries, storer>>

(* Mutant: the count is not serialised. *)
LockOwnerUnheld(c) ==
  /\ creator[c] = "idle"
  /\ creator' = [creator EXCEPT ![c] = "locked"]
  /\ VaultUnchanged /\ UNCHANGED <<capLock, tokens>>

(* BEGIN; pg_advisory_xact_lock(namespace, owner). *)
LockOwner(c) ==
  /\ creator[c] = "idle" /\ capLock = NoCall
  /\ capLock' = c
  /\ creator' = [creator EXCEPT ![c] = "locked"]
  /\ VaultUnchanged /\ UNCHANGED tokens

EndCreate(c, pc) ==
  /\ capLock' = IF pc = "done" /\ capLock = c THEN NoCall ELSE capLock
  /\ creator' = [creator EXCEPT ![c] = pc]
  /\ VaultUnchanged

(* The count of the tokens without revoked_at. *)
CountTokens(c) ==
  /\ creator[c] = "locked"
  /\ EndCreate(c, IF Cardinality(tokens) < Cap THEN "counted" ELSE "done")
  /\ UNCHANGED tokens

(* INSERT and COMMIT; or the transaction fails. *)
InsertToken(c) ==
  /\ creator[c] = "counted"
  /\ tokens' \in {tokens, tokens \cup {c}}
  /\ EndCreate(c, "done")

RevokeToken(c) ==
  /\ c \in tokens
  /\ tokens' = tokens \ {c}
  /\ VaultUnchanged /\ UNCHANGED <<capLock, creator>>

Named(n) == {e \in entries : e.name = n}

StoreStep(s, pc) ==
  /\ storer' = [storer EXCEPT ![s].pc = pc]
  /\ UNCHANGED <<tokens, capLock, creator, scope>>

(* findByName: an entry that exists is replaced without a count. *)
FindEntry(s) ==
  /\ storer[s].pc = "idle"
  /\ StoreStep(s, IF Named(storer[s].name) = {} THEN "new" ELSE "upsert")
  /\ UNCHANGED entries

CountEntries(s) ==
  /\ storer[s].pc = "new"
  /\ StoreStep(s, IF Cardinality(entries) < Cap THEN "upsert" ELSE "done")
  /\ UNCHANGED entries

(* INSERT ... ON CONFLICT (scope, project_id, name) DO UPDATE.  project_id *)
(* is NULL in the platform scope, and NULLs never conflict.                *)
UpsertEntry(s) ==
  /\ storer[s].pc = "upsert" /\ StoreStep(s, "done")
  /\ entries' = IF scope = "project" /\ Named(storer[s].name) # {} THEN entries
                ELSE entries \cup {[id |-> s, name |-> storer[s].name]}

RemoveEntry(e) ==
  /\ entries' = entries \ {e}
  /\ UNCHANGED <<tokens, capLock, creator, scope, storer>>

ServiceTokenNext ==
  \E c \in Creators : LockOwner(c) \/ CountTokens(c) \/ InsertToken(c) \/ RevokeToken(c)

VaultNext ==
  \/ \E s \in Storers : FindEntry(s) \/ CountEntries(s) \/ UpsertEntry(s)
  \/ \E e \in entries : RemoveEntry(e)

CredentialNext == ServiceTokenNext \/ VaultNext

CredentialSpec == CredentialInit /\ [][CredentialNext]_credentialVars

-----------------------------------------------------------------------------
(* An owner never has more active tokens than the cap, however creations   *)
(* and revocations interleave.                                             *)
TokenCapHolds == Cardinality(tokens) <= Cap

(* Storing under a name that is taken replaces the entry: a scope has at   *)
(* most one entry of a name, so that a lookup by name has one answer.      *)
OneEntryPerName == \A e, f \in entries : e.name = f.name => e = f

(* Names are unique in the scope of a project.  In the platform scope they *)
(* are not, although the route calls its POST an upsert by name, because   *)
(* project_id is NULL there.  The cap on vault entries is not among the    *)
(* promises either: calls that count at once may all insert.               *)
CredentialsSound == TokenCapHolds /\ (scope = "project" => OneEntryPerName)
=============================================================================
