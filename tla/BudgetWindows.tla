---------------------------- MODULE BudgetWindows ----------------------------
(***************************************************************************)
(* The budgets of the llm-router: which one a call is held to (scope.ts,   *)
(* the nearest scope that has any), in which windows its cost is summed    *)
(* (window.ts, budget-delta.ts), and what the cached sums do when a window *)
(* turns (budget-service.ts).                                              *)
(*                                                                         *)
(* Time is a number of ticks with a new day every DayLength and a new      *)
(* month every MonthLength; Way bounds, for the environment, how long the  *)
(* statements of a load take.  Every call costs 1.  Rows of llm_budgets do *)
(* not change, as no route writes them; what becomes of records that are   *)
(* dropped is in LlmRouter.                                                *)
(***************************************************************************)
EXTENDS Naturals, FiniteSets, Sequences, SequencesExt

CONSTANTS
  Billed,                  \* calls
  ScopesOf,                \* ScopesOf[c]: the scopes of its token, nearest first
  BudgetTables,            \* contents llm_budgets may have: sets of rows
  DayLength, MonthLength,
  CacheFor, Way,           \* cacheTtlMs; bound of a load
  LastTick                 \* bound of the clock

ASSUME BudgetAssumption ==
  /\ IsFiniteSet(Billed) /\ ScopesOf \in [Billed -> Seq(STRING)]
  /\ \A row \in UNION BudgetTables :
       row.window \in {"day", "month", "total"} /\ row.limit \in Nat /\ row.enforce \in BOOLEAN
  /\ DayLength \in Nat \ {0} /\ MonthLength \in Nat \ {0}
  /\ CacheFor \in Nat /\ Way \in Nat /\ LastTick \in Nat

VARIABLES
  tick,     \* the clock
  budgets,  \* rows of llm_budgets
  bill,     \* bill[c]: where the call is; when it asked, began, and (one more
            \* than the tick) was charged; what its load read
  cell,     \* the cache: cell[key] for the scopes of a token
  sums      \* llm_budget_usage: cost of a scope in a window

budgetVars == <<tick, budgets, bill, cell, sums>>

CacheKeys == { ScopesOf[c] : c \in Billed }

(* windowKeyFor. *)
WindowKey(window, at) ==
  CASE window = "day"   -> <<"day", at \div DayLength>>
    [] window = "month" -> <<"month", at \div MonthLength>>
    [] window = "total" -> <<"total", 0>>

Windows == {"day", "month", "total"}

(* Rows llm_budget_usage may have. *)
Buckets == UNION { { <<s, WindowKey(w, t)>> : w \in Windows, t \in 0 .. LastTick } :
                   s \in UNION { ToSet(ScopesOf[c]) : c \in Billed } }

(* An entry of the cache; a call. *)
NoEntry == [until |-> 0, used |-> <<>>]

NewBill == [pc |-> "idle", asked |-> 0, read |-> <<>>, began |-> 0, charged |-> 0]

BudgetInit ==
  /\ tick = 0
  /\ budgets \in BudgetTables
  /\ bill = [c \in Billed |-> NewBill]
  /\ cell = [k \in CacheKeys |-> NoEntry]
  /\ sums = [b \in Buckets |-> 0]

-----------------------------------------------------------------------------
RowsOf(s) == { b \in budgets : b.scope = s }

(* Mutant: a call is held to the budgets of all its scopes. *)
RowsOfAll(c) == UNION { RowsOf(s) : s \in ToSet(ScopesOf[c]) }

(* The budgets of the nearest scope that has any, and of no other. *)
Binding(c) ==
  LET found == { i \in DOMAIN ScopesOf[c] : RowsOf(ScopesOf[c][i]) # {} }
  IN  IF found = {} THEN {} ELSE RowsOf(ScopesOf[c][Min(found)])

(* findUsage for the windows of the moment the call asked. *)
UsageOf(c) ==
  LET keys == { <<held.scope, WindowKey(held.window, bill[c].asked)>> : held \in Binding(c) }
  IN  [b \in { k \in keys : sums[k] > 0 } |-> sums[b]]

(* Mutant: a sum is found by its window, whichever day or month it is of. *)
UsedInAny(used, held, at) ==
  LET found == { b \in DOMAIN used : b[1] = held.scope /\ b[2][1] = held.window }
  IN  IF found = {} THEN 0 ELSE used[CHOOSE b \in found : TRUE]

(* A window that is not in what was loaded counts as empty. *)
Used(used, held, at) ==
  LET b == <<held.scope, WindowKey(held.window, at)>>
  IN  IF b \in DOMAIN used THEN used[b] ELSE 0

(* check(): a window that is enforced and full refuses the call. *)
Decision(c, used, at) ==
  bill' = [bill EXCEPT ![c] =
    IF \E held \in Binding(c) : held.enforce /\ Used(used, held, at) >= held.limit
    THEN [NewBill EXCEPT !.pc = "refused"]
    ELSE [NewBill EXCEPT !.pc = "served", !.began = tick]]

Check(c) ==
  /\ bill[c].pc = "idle"
  /\ IF cell[ScopesOf[c]].until > tick
     THEN Decision(c, cell[ScopesOf[c]].used, tick)
     ELSE bill' = [bill EXCEPT ![c].pc = "loading", ![c].asked = tick]
  /\ UNCHANGED <<tick, budgets, cell, sums>>

LoadUsage(c) ==
  /\ bill[c].pc = "loading"
  /\ bill' = [bill EXCEPT ![c].pc = "loaded", ![c].read = UsageOf(c)]
  /\ UNCHANGED <<tick, budgets, cell, sums>>

(* The cell lives from now on; its windows are those of the question. *)
FillEntry(c) ==
  /\ bill[c].pc = "loaded"
  /\ cell' = [cell EXCEPT ![ScopesOf[c]] = [until |-> tick + CacheFor, used |-> bill[c].read]]
  /\ Decision(c, bill[c].read, bill[c].asked)
  /\ UNCHANGED <<tick, budgets, sums>>

(* A load that fails lets the call through. *)
UsageFails(c) ==
  /\ bill[c].pc \in {"loading", "loaded"}
  /\ bill' = [bill EXCEPT ![c] = [NewBill EXCEPT !.pc = "blind", !.began = tick]]
  /\ UNCHANGED <<tick, budgets, cell, sums>>

(* Mutant: the windows of the moment it is written. *)
BucketsNow(c) == { <<s, WindowKey(w, tick)>> : s \in ToSet(ScopesOf[c]), w \in Windows }

(* The buckets of a call: every scope of its token, every window it began in. *)
BucketsOf(c) ==
  { <<s, WindowKey(w, bill[c].began)>> : s \in ToSet(ScopesOf[c]), w \in Windows }

Unpaid == { c \in Billed : bill[c].pc \in {"served", "blind"} /\ bill[c].charged = 0 }

(* A batch of calls that have ended: one sum per bucket is added to its row. *)
Charge(batch) ==
  /\ sums' = [b \in Buckets |-> sums[b] + Cardinality({ c \in batch : b \in BucketsOf(c) })]
  /\ bill' = [c \in Billed |->
       IF c \in batch THEN [bill[c] EXCEPT !.charged = tick + 1] ELSE bill[c]]
  /\ UNCHANGED <<tick, budgets, cell>>

(* A cell whose time is over is as good as none. *)
BudgetTick ==
  /\ tick < LastTick
  /\ \A c \in Billed : bill[c].pc \in {"loading", "loaded"} => tick < bill[c].asked + Way
  /\ tick' = tick + 1
  /\ cell' = [k \in CacheKeys |-> IF cell[k].until > tick' THEN cell[k] ELSE NoEntry]
  /\ UNCHANGED <<budgets, bill, sums>>

BudgetNext ==
  \/ \E c \in Billed : Check(c) \/ LoadUsage(c) \/ FillEntry(c) \/ UsageFails(c)
  \/ \E batch \in SUBSET Unpaid \ {{}} : Charge(batch)
  \/ BudgetTick

BudgetSpec == BudgetInit /\ [][BudgetNext]_budgetVars

-----------------------------------------------------------------------------
(* Properties. *)

(* The budgets a call is held to: those of a scope of its own, and nearer  *)
(* to it is none.                                                          *)
HeldTo(c) ==
  { held \in budgets :
      /\ held.enforce
      /\ \E i \in DOMAIN ScopesOf[c] :
           /\ ScopesOf[c][i] = held.scope
           /\ \A j \in 1 .. i - 1 : \A other \in budgets : other.scope # ScopesOf[c][j] }

(* What the calls under a budget that began in its window of some moment   *)
(* had been charged up to some time.                                       *)
Spent(held, at, upTo) ==
  Cardinality({ c \in Billed :
    /\ bill[c].charged \in 1 .. upTo + 1
    /\ held.scope \in ToSet(ScopesOf[c])
    /\ WindowKey(held.window, bill[c].began) = WindowKey(held.window, at) })

(* When the call that is decided asked: now, or before its load. *)
AskedAt(c) == IF bill[c].pc = "idle" THEN tick ELSE bill[c].asked

(* How many ticks a decision may be behind the books. *)
Lag == Way + (IF CacheFor = 0 THEN 1 ELSE CacheFor)

(* No call is refused for what was spent in another window or scope: one   *)
(* of its own budgets was full in the window it asked in.  And no call is  *)
(* let through by a budget that has been full for the life of a cell of    *)
(* the cache and the way of a load, not even when the window turned, of    *)
(* which the cache holds no sum; except where the load failed.             *)
BudgetHolds ==
  [][ \A c \in Billed :
        /\ bill[c].pc # "refused" /\ bill'[c].pc = "refused" =>
             \E held \in HeldTo(c) : Spent(held, AskedAt(c), tick) >= held.limit
        /\ bill[c].pc # "served" /\ bill'[c].pc = "served" =>
             \A held \in HeldTo(c) :
               tick >= Lag => Spent(held, AskedAt(c), tick - Lag) < held.limit ]_budgetVars
=============================================================================
