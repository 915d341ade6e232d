----------------------------- MODULE SandboxPool -----------------------------
(***************************************************************************)
(* BatchSandboxPool (packages/sandbox/src/batch-sandbox.ts): sandboxes     *)
(* created ahead, handed to agents and recycled.  acquire and release run  *)
(* without a pause; warmup and recycleIdle wait for the provider, and go   *)
(* on from an index into a pool that may have changed meanwhile.  Any      *)
(* entry may be old enough to expire, in use or not.                       *)
(***************************************************************************)
EXTENDS Naturals, Sequences, FiniteSets

CONSTANTS
  Holders,    \* agents
  Recycles,   \* calls of recycleIdle under way
  PoolSize,
  MaxCreated  \* bound: sandboxes ever created

VARIABLES
  pool,     \* the sandboxes in order: id and inUse
  alive,    \* the sandboxes the provider runs
  created,  \* how many there have been, their ids being 1, 2, ...
  warming,  \* what warmup still creates, 0 when none is under way
  recycle,  \* recycle[r]: what it is destroying, and the index it had
  sandboxOf, \* sandboxOf[a]: the sandbox of an agent, 0 for none
  crossed   \* history: a call of recycleIdle began before another had ended

poolVars == <<pool, alive, created, warming, recycle, sandboxOf, crossed>>

NoRecycle == [at |-> 0, destroys |-> 0]

PoolInit ==
  /\ pool = <<>> /\ alive = {} /\ created = 0 /\ warming = 0
  /\ recycle = [r \in Recycles |-> NoRecycle]
  /\ sandboxOf = [a \in Holders |-> 0]
  /\ crossed = FALSE

Available == {i \in DOMAIN pool : ~pool[i].inUse}

Warmup ==
  /\ warming = 0 /\ PoolSize > Cardinality(Available)
  /\ warming' = PoolSize - Cardinality(Available)
  /\ UNCHANGED <<pool, alive, created, recycle, sandboxOf, crossed>>

(* provider.create answers, or fails, which ends the call. *)
CreatePooled(ok) ==
  /\ warming > 0
  /\ IF ok
     THEN /\ created < MaxCreated
          /\ created' = created + 1
          /\ alive' = alive \cup {created'}
          /\ pool' = Append(pool, [id |-> created', inUse |-> FALSE])
          /\ warming' = warming - 1
     ELSE warming' = 0 /\ UNCHANGED <<pool, alive, created>>
  /\ UNCHANGED <<recycle, sandboxOf, crossed>>

\* The first that is not in use.
Oldest == CHOOSE i \in Available : \A j \in Available : i <= j

(* Mutant: the sandbox handed out stays available. *)
AcquireSandboxUnmarked(a) ==
  /\ sandboxOf[a] = 0 /\ Available # {}
  /\ sandboxOf' = [sandboxOf EXCEPT ![a] = pool[Oldest].id]
  /\ UNCHANGED <<pool, alive, created, warming, recycle, crossed>>

AcquireSandbox(a) ==
  /\ sandboxOf[a] = 0 /\ Available # {}
  /\ pool' = [pool EXCEPT ![Oldest].inUse = TRUE]
  /\ sandboxOf' = [sandboxOf EXCEPT ![a] = pool[Oldest].id]
  /\ UNCHANGED <<alive, created, warming, recycle, crossed>>

(* A sandbox that was recycled meanwhile is not found. *)
ReleaseSandbox(a) ==
  /\ sandboxOf[a] # 0
  /\ pool' = [i \in DOMAIN pool |-> IF pool[i].id = sandboxOf[a] THEN [pool[i] EXCEPT !.inUse = FALSE] ELSE pool[i]]
  /\ sandboxOf' = [sandboxOf EXCEPT ![a] = 0]
  /\ UNCHANGED <<alive, created, warming, recycle, crossed>>

(* The loop from index i of the pool p to the next entry it destroys: one  *)
(* idle for long, or expired, which does not ask whether it is in use.  An *)
(* index beyond the end throws.                                            *)
Scan(r, i, p) ==
  \E j \in 0 .. i :
    /\ i > Len(p) => j = 0
    /\ recycle' = [recycle EXCEPT ![r] = IF j = 0 THEN NoRecycle ELSE [at |-> j, destroys |-> p[j].id]]

RecycleIdle(r) ==
  /\ recycle[r] = NoRecycle
  /\ Scan(r, Len(pool), pool)
  /\ crossed' = (crossed \/ \E o \in Recycles : recycle[o] # NoRecycle)
  /\ UNCHANGED <<pool, alive, created, warming, sandboxOf>>

\* A sequence without its element i, if it has one.
Spliced(p, i) == SubSeq(p, 1, i - 1) \o SubSeq(p, i + 1, Len(p))

(* provider.destroy answers: what is at the index now leaves the pool. *)
Destroyed(r) ==
  LET i == recycle[r].at IN
  /\ recycle[r] # NoRecycle
  /\ alive' = alive \ {recycle[r].destroys}
  /\ pool' = IF i > Len(pool) THEN pool ELSE Spliced(pool, i)
  /\ Scan(r, i - 1, pool')
  /\ UNCHANGED <<created, warming, sandboxOf, crossed>>

(* It throws, and leaves the entry for a later call. *)
DestroyFails(r) ==
  /\ recycle[r] # NoRecycle
  /\ recycle' = [recycle EXCEPT ![r] = NoRecycle]
  /\ UNCHANGED <<pool, alive, created, warming, sandboxOf, crossed>>

PoolNext ==
  \/ Warmup \/ \E ok \in BOOLEAN : CreatePooled(ok)
  \/ \E a \in Holders : AcquireSandbox(a) \/ ReleaseSandbox(a)
  \/ \E r \in Recycles : RecycleIdle(r) \/ Destroyed(r) \/ DestroyFails(r)

PoolSpec == PoolInit /\ [][PoolNext]_poolVars

(* No two agents have one sandbox, whatever is recycled meanwhile.  While  *)
(* calls of recycleIdle do not cross, the pool is what the provider runs:  *)
(* no sandbox runs on outside of it, and none is handed out that is gone.  *)
(* (The timer the configuration names would let them cross: a destroy may  *)
(* take longer than recycleCheckIntervalMs.  An agent may still lose the   *)
(* sandbox it has, or be handed one that is being destroyed.)              *)
PoolSound ==
  /\ \A a, b \in Holders : sandboxOf[a] # 0 /\ sandboxOf[a] = sandboxOf[b] => a = b
  /\ ~crossed => alive = {pool[i].id : i \in DOMAIN pool}
=============================================================================
