----------------------------- MODULE RunCreation -----------------------------
(***************************************************************************)
(* The creation of runs by POST /api/v1/agents/:agentId/runs, once the     *)
(* route has let the request pass: RunService.createRunWithIdempotency     *)
(* (run-service.ts) on DrizzleRunDb.createWithIdempotencyTx                *)
(* (drizzle-run-db.ts), with concurrent requests, client retries, the 24h  *)
(* window, and connections that are lost before or after the commit.       *)
(*                                                                         *)
(* created_at is now() of the transaction, its start, while the window is  *)
(* counted from the moment the service was called and the lookup runs when *)
(* the lock has been granted: three instants.  The application and the     *)
(* database are taken to have one clock.  A body stands for its hash.  The *)
(* definition version is always given by the route, so nothing is          *)
(* inherited from the parent run.                                          *)
(***************************************************************************)
EXTENDS Naturals

CONSTANTS
  Requests,  \* calls of the route, retries included
  Tasks,     \* agents of the API; they may share an agent definition
  Keys,      \* Idempotency-Key headers
  Bodies,
  None,      \* no key
  Window,    \* IDEMPOTENCY_WINDOW_MS
  MaxClock,  \* bound of the clock
  Lossy      \* whether connections to the database may be lost

ASSUME NoneAssumption ==
  None \notin Requests /\ None \notin Keys /\ None \notin Tasks /\ None \notin Bodies
ASSUME WindowAssumption == Window \in Nat /\ MaxClock \in Nat
ASSUME LossyAssumption == Lossy \in BOOLEAN

VARIABLES
  runs,    \* the table runs: by (its id), what was asked, created_at
  holds,   \* the requests whose transaction holds the advisory lock of its key
  clock,
  req      \* req[r]: the local state of a request

vars == <<runs, holds, clock, req>>

NoAsk == [task |-> None, key |-> None, body |-> None]

Asks == [task: Tasks, key: Keys \cup {None}, body: Bodies]

Rows == [by: Requests, ask: Asks, created: Nat]

TypeOK ==
  /\ runs \subseteq Rows
  /\ holds \subseteq Requests
  /\ clock \in Nat
  /\ req \in [Requests ->
       [ pc: {"idle", "plain", "begin", "lock", "lookup", "insert", "replied"},
         ask: Asks \cup {NoAsk}, now: Nat, created: Nat,
         reply: {"none", "run", "conflict", "crossed", "error"},
         got: Requests \cup {None} ]]

Init ==
  /\ runs = {}
  /\ holds = {}
  /\ clock = 0
  /\ req = [r \in Requests |-> [pc |-> "idle", ask |-> NoAsk, now |-> 0, created |-> 0,
                                reply |-> "none", got |-> None]]

-----------------------------------------------------------------------------

At(r, pc) == req[r].pc = pc

(* Mutant: the key of the client as it is; agents of one definition share it. *)
ScopedKeyOfClient(ask) == <<"agent", ask.key>>

(* The key is scoped to the agent: the route prefixes it with the task. *)
ScopedKey(ask) == <<ask.task, ask.key>>

NewRow(r) == [by |-> r, ask |-> req[r].ask, created |-> req[r].created]

(* Mutant: the row at the edge of the window is not looked at. *)
InWindowExclusive(r) ==
  { x \in runs : /\ x.ask.key # None /\ ScopedKey(x.ask) = ScopedKey(req[r].ask)
                 /\ x.created + Window > req[r].now }

(* WHERE idempotency_key = key AND created_at >= since. *)
InWindow(r) ==
  { x \in runs : /\ x.ask.key # None /\ ScopedKey(x.ask) = ScopedKey(req[r].ask)
                 /\ x.created + Window >= req[r].now }

(* The transaction of r ends and r is answered. *)
Answered(r, reply, got) ==
  /\ holds' = holds \ {r}
  /\ req' = [req EXCEPT ![r].pc = "replied", ![r].reply = reply, ![r].got = got]

(* The route refuses to hand out a run of another task. *)
AnsweredWith(r, x) ==
  IF x.ask.task = req[r].ask.task THEN Answered(r, "run", x.by)
                                  ELSE Answered(r, "crossed", None)

(* The route has loaded the task; the service is called and takes the time. *)
Arrive(r, ask) ==
  /\ At(r, "idle")
  /\ req' = [req EXCEPT ![r] =
       [ pc |-> IF ask.key = None THEN "plain" ELSE "begin", ask |-> ask,
         now |-> clock, created |-> 0, reply |-> "none", got |-> None ]]
  /\ UNCHANGED <<runs, holds, clock>>

(* Without a key: one INSERT. *)
PlainInsert(r) ==
  LET row == [NewRow(r) EXCEPT !.created = clock] IN
  /\ At(r, "plain")
  /\ \/ runs' = runs \cup {row} /\ AnsweredWith(r, row)
     \/ Lossy /\ runs' \in {runs, runs \cup {row}} /\ Answered(r, "error", None)
  /\ UNCHANGED clock

(* BEGIN: now() is from here on the time of this statement. *)
Begin(r) ==
  /\ At(r, "begin")
  /\ req' = [req EXCEPT ![r].pc = "lock", ![r].created = clock]
  /\ UNCHANGED <<runs, holds, clock>>

(* Mutant: the lock is tried and its failure ignored. *)
LockTried(r) ==
  /\ At(r, "lock")
  /\ holds' = holds \cup {r}
  /\ req' = [req EXCEPT ![r].pc = "lookup"]
  /\ UNCHANGED <<runs, clock>>

(* pg_advisory_xact_lock(LOCK_NS_IDEMPOTENCY, hashtext(key)). *)
Lock(r) ==
  /\ At(r, "lock")
  /\ \A s \in holds : ScopedKey(req[s].ask) # ScopedKey(req[r].ask)
  /\ holds' = holds \cup {r}
  /\ req' = [req EXCEPT ![r].pc = "lookup"]
  /\ UNCHANGED <<runs, clock>>

(* ORDER BY created_at DESC LIMIT 1. *)
Latest(r, x) == x \in InWindow(r) /\ \A y \in InWindow(r) : y.created <= x.created

(* onExisting returns the run that is there: COMMIT. *)
Replay(r) ==
  /\ At(r, "lookup")
  /\ \E x \in runs : Latest(r, x) /\ x.ask.body = req[r].ask.body /\ AnsweredWith(r, x)
  /\ UNCHANGED <<runs, clock>>

(* onExisting throws IdempotencyConflictError: ROLLBACK. *)
Conflict(r) ==
  /\ At(r, "lookup")
  /\ \E x \in runs : Latest(r, x) /\ x.ask.body # req[r].ask.body
  /\ Answered(r, "conflict", None)
  /\ UNCHANGED <<runs, clock>>

(* No run in the window: the INSERT is next. *)
Miss(r) ==
  /\ At(r, "lookup") /\ InWindow(r) = {}
  /\ req' = [req EXCEPT ![r].pc = "insert"]
  /\ UNCHANGED <<runs, holds, clock>>

(* INSERT and COMMIT; the answer of the COMMIT may be lost. *)
Commit(r) ==
  /\ At(r, "insert")
  /\ runs' = runs \cup {NewRow(r)}
  /\ \/ AnsweredWith(r, NewRow(r))
     \/ Lossy /\ Answered(r, "error", None)
  /\ UNCHANGED clock

(* Mutant: the lock belongs to the session and survives the transaction. *)
AbortKeepsLock(r) ==
  /\ Lossy /\ req[r].pc \in {"begin", "lock", "lookup", "insert"}
  /\ req' = [req EXCEPT ![r].pc = "replied", ![r].reply = "error"]
  /\ UNCHANGED <<runs, holds, clock>>

(* The connection is lost before the commit. *)
Abort(r) ==
  /\ Lossy /\ req[r].pc \in {"begin", "lock", "lookup", "insert"}
  /\ Answered(r, "error", None)
  /\ UNCHANGED <<runs, clock>>

Tick ==
  /\ clock < MaxClock
  /\ clock' = clock + 1
  /\ UNCHANGED <<runs, holds, req>>

Handle(r) ==
  \/ PlainInsert(r) \/ Begin(r) \/ Lock(r)
  \/ Replay(r) \/ Conflict(r) \/ Miss(r) \/ Commit(r) \/ Abort(r)

Next ==
  \/ \E r \in Requests : Handle(r) \/ \E ask \in Asks : Arrive(r, ask)
  \/ Tick

Spec == Init /\ [][Next]_vars

(* Statements that were sent are executed, and Postgres hands the lock of  *)
(* a key on to each of those that wait for it.                             *)
Fairness ==
  \A r \in Requests :
    /\ SF_vars(Lock(r))
    /\ WF_vars(PlainInsert(r) \/ Begin(r) \/ Replay(r) \/ Conflict(r) \/ Miss(r) \/ Commit(r))

FairSpec == Spec /\ Fairness

-----------------------------------------------------------------------------
(* Properties. *)

(* However requests and retries with one key interleave, wait for the lock *)
(* or lose their connection, an agent gets at most one run per key in any  *)
(* window: two runs of a key are more than a window apart.                 *)
OneRunPerWindow ==
  \A x, y \in runs :
    /\ x.ask.key # None
    /\ ScopedKey(x.ask) = ScopedKey(y.ask)
    /\ x.created <= y.created
    /\ x # y
    => x.created + Window < y.created

(* A request is answered with a run that it asked for: of its own task,    *)
(* with its own key and body, and not from before its window; and with a   *)
(* conflict only if its key was used for another body in the window.  The  *)
(* guard of the route against runs of another task never has to fire.      *)
RepliesMatch ==
  \A r \in Requests :
    /\ req[r].reply = "run" =>
         \E x \in runs : /\ x.by = req[r].got /\ x.ask = req[r].ask
                         /\ x.created + Window >= req[r].now
    /\ req[r].reply = "conflict" =>
         \E x \in runs : /\ x.ask.task = req[r].ask.task /\ x.ask.key = req[r].ask.key
                         /\ x.ask.body # req[r].ask.body
                         /\ x.created + Window >= req[r].now
    /\ req[r].reply # "crossed"

(* Every request is answered: nobody waits for the lock of a key for ever, *)
(* whether its holder created, replayed, met a conflict or failed.         *)
RequestsAnswered == \A r \in Requests : []<>(req[r].pc \in {"idle", "replied"})

(* The requests behave as if each were handled in one instant. *)
Once == INSTANCE CreateOnce WITH
          rows <- runs,
          asked <- [r \in Requests |-> [ask |-> req[r].ask, now |-> req[r].now]],
          reply <- [r \in Requests |-> req[r].reply],
          got <- [r \in Requests |-> req[r].got]

(* CreateOnce with bounded times, which TLC can enumerate. *)
Times == 0 .. MaxClock

OnceStep ==
  \E r \in Requests :
    \/ \E ask \in Asks, now \in Times : Once!Ask(r, ask, now)
    \/ \E created \in Times : Once!Create(r, created)
    \/ Once!Replay(r) \/ Once!Fail(r)

ImplementsOnce == Once!OnceInit /\ [][OnceStep]_(Once!onceVars)
=============================================================================
