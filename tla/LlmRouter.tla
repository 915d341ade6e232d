------------------------------ MODULE LlmRouter ------------------------------
(***************************************************************************)
(* One replica of the llm-router: the pipeline of a call behind its        *)
(* authentication (inference.ts: checks, budget gate, forward.ts with      *)
(* sse-tee.ts), the BudgetService with its cache (budget-service.ts), the  *)
(* BatchingCallRecorder (call-recorder.ts) that writes the calls and their *)
(* cost in one transaction (drizzle-call-store.ts), and the shutdown of    *)
(* the process (server.ts).                                                *)
(*                                                                         *)
(* One budget applies to all calls; a call that is served costs 1, which   *)
(* is known when its response ends.  Which check refuses a call, the       *)
(* catalogue and the translation are nondeterministic.  StoreTravel bounds *)
(* how long an answer of the budget store is under way; the bound is of    *)
(* the environment.                                                        *)
(***************************************************************************)
EXTENDS Naturals, Sequences, FiniteSets, SequencesExt

CONSTANTS
  Calls,
  Limit,      \* limitUsd of the budget, enforced
  BudgetTTL,  \* cacheTtlMs
  StoreTravel, \* how long an answer of the budget store may be under way
  BatchSize, MaxQueue

ASSUME RouterAssumption ==
  /\ Limit \in Nat /\ BudgetTTL \in Nat /\ StoreTravel \in Nat
  /\ BatchSize \in Nat \ {0} /\ MaxQueue \in Nat \ {0}
ASSUME CallsAssumption == IsFiniteSet(Calls)  \* those of one life of the process

VARIABLES
  call,     \* call[c]: where the call is, what it was told of the budget
  cached,   \* the entry of the budget cache: what is left of it, the sum it holds
  over,     \* history: ticks since the recorded cost reached the limit
  queue,    \* records not yet taken
  due,      \* flushOnce calls in the chain
  batch,    \* records of the transaction under way
  calls,    \* the table llm_calls
  usage,    \* cost_usd of the budget in llm_budget_usage
  dropped,  \* records counted as dropped
  phase,    \* of the process
  ahead,    \* flushOnce calls drain() waits for
  early     \* history: what had been recorded when drain() began

callVars == <<call, cached, over>>
meterVars == <<queue, due, batch, calls, usage, dropped>>
stopVars == <<phase, ahead, early>>
routerVars == <<callVars, meterVars, stopVars>>

\* over is not counted further than the properties look.
MaxOver == BudgetTTL + StoreTravel + 1

Open == {"idle", "routing", "loading", "loaded", "send", "body", "stream"}

(* A call that holds no answer of the budget store. *)
CallAt(pc, cost, blind, recorded) ==
  [pc |-> pc, used |-> 0, age |-> 0, cost |-> cost, blind |-> blind, recorded |-> recorded]

New == CallAt("idle", 0, FALSE, FALSE)

RouterTypeOK ==
  /\ call \in [Calls -> [ pc: Open \cup {"done", "cut"}, used: 0 .. Cardinality(Calls),
                          age: 0 .. StoreTravel, cost: 0 .. 1,
                          blind: BOOLEAN, recorded: BOOLEAN ]]
  /\ cached \in [left: 0 .. BudgetTTL, used: 0 .. Cardinality(Calls)]
  /\ over \in 0 .. MaxOver
  /\ Len(queue) <= MaxQueue /\ Len(batch) <= BatchSize
  /\ calls \subseteq Calls /\ dropped \subseteq Calls /\ early \subseteq Calls
  /\ phase \in {"up", "draining", "closed", "flushing", "last", "exited"}
  /\ ahead <= due

(* The process is up, or not running any more (for models of several parts). *)
RouterStart(p) ==
  /\ call = [c \in Calls |-> New]
  /\ cached = [left |-> 0, used |-> 0]
  /\ over = 0
  /\ queue = <<>> /\ due = 0 /\ batch = <<>>
  /\ calls = {} /\ usage = 0 /\ dropped = {}
  /\ phase = p /\ ahead = 0 /\ early = {}

RouterInit == RouterStart("up")

-----------------------------------------------------------------------------
(* The recorder: enqueue, the chain of flushes, the transaction.           *)

Overfull == Len(queue) >= MaxQueue

(* Mutant: the oldest record is shifted out of the queue and not counted. *)
EnqueueUncounted(c) ==
  LET q == Append(IF Overfull THEN Tail(queue) ELSE queue, c) IN
  /\ queue' = q
  /\ due' = IF Len(q) >= BatchSize THEN due + 1 ELSE due
  /\ UNCHANGED <<batch, calls, usage, dropped>>

(* enqueue(): synchronous; the oldest record makes room, a full batch is flushed. *)
Enqueue(c) ==
  LET q == Append(IF Overfull THEN Tail(queue) ELSE queue, c) IN
  /\ queue' = q
  /\ dropped' = IF Overfull THEN dropped \cup {Head(queue)} ELSE dropped
  /\ due' = IF Len(q) >= BatchSize THEN due + 1 ELSE due
  /\ UNCHANGED <<batch, calls, usage>>

(* Mutant: the interval flushes full batches only. *)
FlushTimerWaits ==
  /\ phase \in {"up", "draining"} /\ due = 0 /\ Len(queue) >= BatchSize
  /\ due' = 1
  /\ UNCHANGED <<callVars, queue, batch, calls, usage, dropped, stopVars>>

(* The interval of start(), until drain() clears it. *)
FlushTimer ==
  /\ phase \in {"up", "draining"} /\ due = 0
  /\ due' = 1
  /\ UNCHANGED <<callVars, queue, batch, calls, usage, dropped, stopVars>>

(* One flushOnce ends; the chain goes on with the next. *)
FlushEnds == due' = due - 1 /\ ahead' = IF ahead = 0 THEN 0 ELSE ahead - 1

(* flushOnce() takes a batch, or finds nothing. *)
TakeBatch ==
  /\ due > 0 /\ batch = <<>> /\ phase # "exited"
  /\ IF queue = <<>>
     THEN FlushEnds /\ UNCHANGED <<queue, batch>>
     ELSE /\ batch' = SubSeq(queue, 1, IF Len(queue) < BatchSize THEN Len(queue) ELSE BatchSize)
          /\ queue' = SubSeq(queue, Len(batch') + 1, Len(queue))
          /\ UNCHANGED <<due, ahead>>
  /\ UNCHANGED <<callVars, calls, usage, dropped, phase, early>>

Cost(cs) == Cardinality({ c \in cs : call[c].cost = 1 })

(* insertBatchWithBudget: the calls and the sums, in one transaction. *)
InsertCalls ==
  /\ calls' = calls \cup ToSet(batch)
  /\ usage' = usage + Cost(ToSet(batch))

(* Mutant: a batch that failed goes back to the head of the queue. *)
BatchFailsRequeued ==
  /\ batch # <<>>
  /\ batch' = <<>> /\ queue' = batch \o queue /\ FlushEnds
  /\ \/ InsertCalls \/ UNCHANGED <<calls, usage>>
  /\ UNCHANGED <<callVars, dropped, phase, early>>

(* The transaction fails, or its COMMIT succeeds and the answer is lost: *)
(* the batch is counted as dropped either way and never tried again.     *)
BatchFails ==
  /\ batch # <<>> /\ phase # "exited"
  /\ batch' = <<>> /\ dropped' = dropped \cup ToSet(batch) /\ FlushEnds
  /\ \/ InsertCalls \/ UNCHANGED <<calls, usage>>
  /\ UNCHANGED <<callVars, queue, phase, early>>

BatchWritten ==
  /\ batch # <<>> /\ phase # "exited"
  /\ batch' = <<>> /\ InsertCalls /\ FlushEnds
  /\ UNCHANGED <<callVars, queue, dropped, phase, early>>

-----------------------------------------------------------------------------
(* A call. *)

At(c, pc) == call[c].pc = pc

To(c, pc) == call' = [call EXCEPT ![c].pc = pc, ![c].used = 0, ![c].age = 0]

(* The call is answered and its record enqueued. *)
Recorded(c, cost) ==
  /\ call' = [call EXCEPT ![c] = CallAt("done", cost, FALSE, TRUE)]
  /\ Enqueue(c)

(* An authenticated call: server.close() refuses new connections. *)
Arrive(c) ==
  /\ At(c, "idle") /\ phase \in {"up", "draining"}
  /\ To(c, "routing")
  /\ UNCHANGED <<cached, over, meterVars, stopVars>>

(* JSON, alias, catalogue, protocol; later the translation, the credential *)
(* and an upstream that does not answer: the call is refused with a record *)
(* that costs nothing.                                                     *)
Refuse(c) ==
  /\ call[c].pc \in {"routing", "send"}
  /\ Recorded(c, 0)
  /\ UNCHANGED <<cached, over, stopVars>>

(* Mutant: the limit itself still passes. *)
DecideAtLimit(c, used) ==
  IF used <= Limit THEN To(c, "send") /\ UNCHANGED meterVars ELSE Recorded(c, 0)

(* check(): used < limit passes, otherwise the call is refused. *)
Decide(c, used) ==
  IF used < Limit THEN To(c, "send") /\ UNCHANGED meterVars ELSE Recorded(c, 0)

(* The budget is looked up in the cache; else it is loaded. *)
CheckBudget(c) ==
  /\ At(c, "routing")
  /\ IF cached.left > 0 THEN Decide(c, cached.used)
                        ELSE To(c, "loading") /\ UNCHANGED meterVars
  /\ UNCHANGED <<cached, over, stopVars>>

(* findUsage is executed. *)
FindUsage(c) ==
  /\ At(c, "loading")
  /\ call' = [call EXCEPT ![c].pc = "loaded", ![c].used = usage]
  /\ UNCHANGED <<cached, over, meterVars, stopVars>>

(* Its answer fills the cache, whatever was filled in the meantime. *)
FillBudget(c) ==
  /\ At(c, "loaded")
  /\ cached' = [left |-> BudgetTTL, used |-> IF BudgetTTL > 0 THEN call[c].used ELSE 0]
  /\ Decide(c, call[c].used)
  /\ UNCHANGED <<over, stopVars>>

(* The budget cannot be loaded: the call is let through. *)
BudgetFails(c) ==
  /\ call[c].pc \in {"loading", "loaded"}
  /\ call' = [call EXCEPT ![c] = CallAt("send", 0, TRUE, FALSE)]
  /\ UNCHANGED <<cached, over, meterVars, stopVars>>

(* fetch() answers with headers; the body is read here, or streamed. *)
Upstream(c) ==
  /\ At(c, "send")
  /\ \/ To(c, "body") \/ To(c, "stream")
  /\ UNCHANGED <<cached, over, meterVars, stopVars>>

(* The response ends: it was read or streamed to its end, the stream was   *)
(* cut by either side before or after its usage was known, or it is an     *)
(* error or a body nobody can translate, which costs nothing.              *)
Served(c) ==
  /\ call[c].pc \in {"body", "stream"}
  /\ \E cost \in 0 .. 1 : Recorded(c, cost)
  /\ UNCHANGED <<cached, over, stopVars>>

(* arrayBuffer() of a buffered response throws, out of forward() and of the *)
(* route: the call is answered with a 500 and nobody records it.            *)
BodyBreaks(c) ==
  /\ At(c, "body")
  /\ To(c, "done")
  /\ UNCHANGED <<cached, over, meterVars, stopVars>>

-----------------------------------------------------------------------------
(* The process and its clock. *)

(* SIGTERM: readyz answers 503, calls are still taken. *)
Sigterm ==
  /\ phase = "up" /\ phase' = "draining"
  /\ UNCHANGED <<callVars, meterVars, ahead, early>>

Enqueued == { c \in Calls : call[c].recorded }

(* After DRAIN_TIMEOUT_MS: server.close(), catalog.stop(), drain() begins. *)
Close ==
  /\ phase = "draining" /\ phase' = "closed"
  /\ early' = Enqueued
  /\ UNCHANGED <<callVars, meterVars, ahead>>

(* while (queue.length > 0) await flush(); then await chain. *)
DrainLoop ==
  /\ phase = "closed"
  /\ IF queue # <<>> THEN phase' = "flushing" /\ due' = due + 1 /\ ahead' = due + 1
                     ELSE phase' = "last" /\ ahead' = due /\ UNCHANGED due
  /\ UNCHANGED <<callVars, queue, batch, calls, usage, dropped, early>>

DrainGoesOn ==
  /\ phase = "flushing" /\ ahead = 0
  /\ phase' = "closed"
  /\ UNCHANGED <<callVars, meterVars, ahead, early>>

(* process.exit(0): the calls that are still served are cut off. *)
Exit ==
  /\ phase = "last" /\ ahead = 0
  /\ phase' = "exited"
  /\ call' = [c \in Calls |-> IF call[c].pc = "done" THEN call[c] ELSE [call[c] EXCEPT !.pc = "cut"]]
  /\ UNCHANGED <<cached, over, meterVars, ahead, early>>

Late == { c \in Calls : At(c, "loaded") }

RouterTick ==
  /\ phase # "exited"
  /\ \A c \in Late : call[c].age < StoreTravel
  /\ cached.left > 0 \/ Late # {} \/ (usage >= Limit /\ over < MaxOver)
  /\ cached' = IF cached.left <= 1 THEN [left |-> 0, used |-> 0] ELSE [cached EXCEPT !.left = @ - 1]
  /\ over' = IF usage >= Limit /\ over < MaxOver THEN over + 1 ELSE over
  /\ call' = [c \in Calls |-> IF c \in Late THEN [call[c] EXCEPT !.age = @ + 1] ELSE call[c]]
  /\ UNCHANGED <<meterVars, stopVars>>

Advance(c) ==
  \/ Refuse(c) \/ CheckBudget(c) \/ FindUsage(c) \/ FillBudget(c) \/ BudgetFails(c)
  \/ Upstream(c) \/ Served(c) \/ BodyBreaks(c)

Flush == TakeBatch \/ BatchFails \/ BatchWritten

Stop == Close \/ DrainLoop \/ DrainGoesOn \/ Exit

RouterStep ==
  \/ \E c \in Calls : Arrive(c) \/ Advance(c)
  \/ FlushTimer \/ Flush \/ Sigterm \/ Stop

RouterNext == RouterStep \/ RouterTick

RouterSpec == RouterInit /\ [][RouterNext]_routerVars

(* Handlers run on, an upstream answers or times out, the database answers, *)
(* and the interval and the drain timeout expire.                           *)
RouterFairness ==
  /\ \A c \in Calls : WF_routerVars(Advance(c))
  /\ WF_routerVars(FlushTimer)
  /\ WF_routerVars(Flush)
  /\ WF_routerVars(Stop)

-----------------------------------------------------------------------------
(* Properties. *)

(* The gate is a soft limit, but for how long: once the recorded cost has  *)
(* been at the limit for a TTL and the time an answer travels, no call is  *)
(* let through any more, in whatever order concurrent loads fill the       *)
(* cache; except a call whose budget could not be loaded.                  *)
GateCloses ==
  [][ \A c \in Calls :
        call[c].pc # "send" /\ call'[c].pc = "send" /\ ~ call'[c].blind
          => over <= BudgetTTL + StoreTravel ]_routerVars

(* The ledger charges every call at most once: the sum the gate reads is   *)
(* the cost of the calls in the table, although a batch whose COMMIT was   *)
(* not confirmed is counted as dropped.                                    *)
ChargedOnce == usage = Cost(calls)

(* A record is never out of sight: it waits, is being written, is in the   *)
(* table or is counted as dropped; and only one of the first two and of    *)
(* being settled.                                                          *)
Settled == calls \cup dropped
RecordsAccounted ==
  /\ Enqueued = ToSet(queue) \cup ToSet(batch) \cup Settled
  /\ Len(queue) + Len(batch) + Cardinality(Settled) = Cardinality(Enqueued)

(* What was recorded before the process began to drain is settled when it  *)
(* exits, whatever is enqueued meanwhile and however the writes end.       *)
DrainSettles == phase = "exited" => early \subseteq Settled

(* The books of the recorder: no call is charged twice, no record gets out *)
(* of sight, and a drain settles what it found.                            *)
RecordsSound == ChargedOnce /\ RecordsAccounted /\ DrainSettles

(* A shutdown comes to its end: the loop of drain() is not kept alive by   *)
(* failing writes or by calls that still end.                              *)
ShutdownEnds == []<>(phase \in {"up", "exited"})

(* The recorder catches up while the process stays: nothing waits in the   *)
(* queue for ever, whatever writes fail.                                   *)
RecordsSettle == []<>(Enqueued \subseteq Settled \/ phase # "up")

=============================================================================
