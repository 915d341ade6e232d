----------------------------- MODULE TokenCache -----------------------------
(***************************************************************************)
(* How the llm-router knows a caller: TokenAuthenticator (router-token.ts) *)
(* with its in-process cache, DrizzleTokenStore (drizzle-token-store.ts)   *)
(* behind it, and the two ways a token ends: the control plane revokes it  *)
(* when its run is over (llm-access-service.ts), or it expires because the *)
(* execution that should have revoked it died.                             *)
(*                                                                         *)
(* One token, which is one entry of the Map.  A lookup is two steps, the   *)
(* statement in the database and the continuation that fills the cache;    *)
(* Travel bounds the time between the two.  Clocks are counters that Tick  *)
(* moves: what is left of the token and of the entry, how long an answer   *)
(* has been under way, and for how long the token has been dead.           *)
(***************************************************************************)
EXTENDS Naturals

CONSTANTS
  Lookups,   \* requests that authenticate with the token
  TTL,       \* ttlMs of the cache; 0 = no cache
  Travel,    \* how long the answer of a statement may be under way
  Life       \* expires_at of the token, from its creation

ASSUME TimesAssumption == TTL \in Nat /\ Travel \in Nat /\ Life \in Nat

VARIABLES
  life,      \* until expires_at
  revoked,   \* revoked_at IS NOT NULL
  dead,      \* history: ticks since the token was revoked or expired
  entry,     \* what is left of the cached entry; 0 = none, or stale
  look       \* look[r]: a request, where it is and what the database answered

tokenVars == <<life, revoked, dead, entry, look>>

\* dead is not counted further than the properties look.
MaxDead == TTL + Travel + 1

TokenTypeOK ==
  /\ life \in 0 .. Life /\ revoked \in BOOLEAN
  /\ dead \in 0 .. MaxDead
  /\ entry \in 0 .. TTL
  /\ look \in [Lookups -> [ pc: {"idle", "asked", "answered", "in", "out"},
                            active: BOOLEAN, age: 0 .. Travel ]]

TokenInit ==
  /\ life = Life /\ revoked = FALSE /\ dead = 0 /\ entry = 0
  /\ look = [r \in Lookups |-> [pc |-> "idle", active |-> FALSE, age |-> 0]]

-----------------------------------------------------------------------------

(* Mutant: the expiry of a token is left to a sweep. *)
ActiveUnlessRevoked == ~ revoked

(* findActiveByHash: revoked_at IS NULL AND expires_at > now(). *)
Active == ~ revoked /\ life > 0

Moves(r, pc) == look' = [look EXCEPT ![r].pc = pc]

(* authenticate(): a fresh entry is the answer, otherwise the row is asked for. *)
Authenticate(r) ==
  /\ look[r].pc = "idle"
  /\ \/ entry > 0 /\ Moves(r, "in")
     \/ entry = 0 /\ Moves(r, "asked")
  /\ UNCHANGED <<life, revoked, dead, entry>>

(* The SELECT is executed. *)
FindActive(r) ==
  /\ look[r].pc = "asked"
  /\ look' = [look EXCEPT ![r] = [pc |-> "answered", active |-> Active, age |-> 0]]
  /\ UNCHANGED <<life, revoked, dead, entry>>

(* Mutant: the entry lives as long as the token. *)
FillUntilExpiry(r) ==
  /\ look[r].pc = "answered"
  /\ entry' = IF look[r].active THEN life ELSE 0
  /\ Moves(r, IF look[r].active THEN "in" ELSE "out")
  /\ UNCHANGED <<life, revoked, dead>>

(* The answer arrives: the entry is set for TTL from now on, or deleted. *)
Fill(r) ==
  /\ look[r].pc = "answered"
  /\ entry' = IF look[r].active THEN TTL ELSE 0
  /\ Moves(r, IF look[r].active THEN "in" ELSE "out")
  /\ UNCHANGED <<life, revoked, dead>>

(* The request is over; the caller comes back with its token. *)
Return(r) ==
  /\ look[r].pc \in {"in", "out"}
  /\ look' = [look EXCEPT ![r] = [pc |-> "idle", active |-> FALSE, age |-> 0]]
  /\ UNCHANGED <<life, revoked, dead, entry>>

(* revokeForRun: WHERE revoked_at IS NULL, so that repeating it is nothing. *)
Revoke ==
  /\ ~ revoked
  /\ revoked' = TRUE
  /\ UNCHANGED <<life, dead, entry, look>>

Down(n) == IF n = 0 THEN 0 ELSE n - 1

UnderWay == { r \in Lookups : look[r].pc = "answered" }

TokenTick ==
  /\ \A r \in UnderWay : look[r].age < Travel
  /\ life' = Down(life) /\ entry' = Down(entry)
  /\ dead' = IF dead < MaxDead /\ (revoked \/ life = 0) THEN dead + 1 ELSE dead
  /\ look' = [r \in Lookups |->
                IF r \in UnderWay THEN [look[r] EXCEPT !.age = @ + 1] ELSE look[r]]
  /\ UNCHANGED revoked

TokenNext ==
  \/ \E r \in Lookups : Authenticate(r) \/ FindActive(r) \/ Fill(r) \/ Return(r)
  \/ Revoke \/ TokenTick

TokenSpec == TokenInit /\ [][TokenNext]_tokenVars

-----------------------------------------------------------------------------
(* Properties. *)

(* Whatever lookups are under way and whoever fills the cache last, a      *)
(* token that was revoked, or that expired because its execution died and  *)
(* never revoked it, lets nobody in once the entry and the answers of that *)
(* time are used up: TTL after the last answer, which is itself at most    *)
(* Travel old.                                                             *)
RevocationBites ==
  [][ \A r \in Lookups :
        look[r].pc # "in" /\ look'[r].pc = "in" => dead <= TTL + Travel ]_tokenVars

(* The strengthening: what is cached or under way was true not long ago.   *)
Vouched ==
  /\ entry > 0 => dead + entry <= TTL + Travel
  /\ \A r \in UnderWay : look[r].active => dead <= look[r].age
=============================================================================
