----------------------------- MODULE CreateOnce -----------------------------
(***************************************************************************)
(* What POST .../runs with an Idempotency-Key promises its callers, as     *)
(* idempotency.ts puts it: a request is answered as if it were handled in  *)
(* one instant.  It gets a new run if no run of its key is in its window,  *)
(* the run that is there if the body is the same, and a conflict if it is  *)
(* not.  A request without a key always makes a run.  RunCreation          *)
(* implements this with transactions and an advisory lock.                 *)
(***************************************************************************)
EXTENDS Naturals

CONSTANTS Requests, Tasks, Keys, Bodies, None, Window

VARIABLES
  rows,   \* the runs, each with its creator, what was asked and when it was made
  asked,  \* asked[r]: what r asks for, and when it arrived
  reply,  \* reply[r]: the answer r has got
  got     \* got[r]: the creator of the run in that answer

onceVars == <<rows, asked, reply, got>>

Asks == [task: Tasks, key: Keys \cup {None}, body: Bodies]

NoAsk == [task |-> None, key |-> None, body |-> None]

OnceInit ==
  /\ rows = {}
  /\ asked = [r \in Requests |-> [ask |-> NoAsk, now |-> 0]]
  /\ reply = [r \in Requests |-> "none"]
  /\ got = [r \in Requests |-> None]

SameScope(a, b) == a.task = b.task /\ a.key = b.key

(* The runs that stand in the way of a new one for r. *)
Standing(r) ==
  { x \in rows : /\ asked[r].ask.key # None /\ SameScope(x.ask, asked[r].ask)
                 /\ x.created + Window >= asked[r].now }

Ask(r, ask, now) ==
  /\ asked[r].ask = NoAsk /\ ask \in Asks /\ now \in Nat
  /\ asked' = [asked EXCEPT ![r] = [ask |-> ask, now |-> now]]
  /\ UNCHANGED <<rows, reply, got>>

Reply(r, what, by) ==
  /\ asked[r].ask # NoAsk /\ reply[r] = "none"
  /\ reply' = [reply EXCEPT ![r] = what]
  /\ got' = [got EXCEPT ![r] = by]
  /\ UNCHANGED asked

(* A new run; the answer may be lost after it was made. *)
Create(r, created) ==
  /\ Standing(r) = {} /\ created >= asked[r].now
  /\ rows' = rows \cup {[by |-> r, ask |-> asked[r].ask, created |-> created]}
  /\ Reply(r, "run", r) \/ Reply(r, "error", None)

(* The latest of the runs that stand decides. *)
Replay(r) ==
  /\ \E x \in Standing(r) :
       /\ \A y \in Standing(r) : y.created <= x.created
       /\ IF x.ask.body = asked[r].ask.body THEN Reply(r, "run", x.by)
                                            ELSE Reply(r, "conflict", None)
  /\ UNCHANGED rows

Fail(r) == Reply(r, "error", None) /\ UNCHANGED rows

OnceNext ==
  \E r \in Requests :
    \/ \E ask \in Asks, now \in Nat : Ask(r, ask, now)
    \/ \E created \in Nat : Create(r, created)
    \/ Replay(r) \/ Fail(r)

Spec == OnceInit /\ [][OnceNext]_onceVars
=============================================================================
