--------------------------- MODULE MCRouter_proofs ---------------------------
(***************************************************************************)
(* Proofs about the parts of MCRouter, each from an invariant of its own:  *)
(* LlmRouter (RouterInv: where every record is, what a drain has left, how *)
(* old a known budget can be), CatalogCache (CatalogInv: writes are        *)
(* committed before their bump, and there is one refresh at a time), and   *)
(* the types of all three.                                                 *)
(***************************************************************************)
EXTENDS MCRouter, EventLog_proofs, FiniteSetTheorems

-----------------------------------------------------------------------------
(* Facts about sequences and the sets of their elements. *)

(* Sequences without repetition. *)
NoRepeat(q) == \A i, j \in 1 .. Len(q) : q[i] = q[j] => i = j

LEMMA NoRepeatCardinality ==
  ASSUME NEW S, NEW q \in Seq(S), NoRepeat(q)
  PROVE  IsFiniteSet(ToSet(q)) /\ Cardinality(ToSet(q)) = Len(q)
<1>1. q \in Bijection(1 .. Len(q), ToSet(q))
  <2>1. DOMAIN q = 1 .. Len(q) /\ Len(q) \in Nat
    BY LenProperties
  <2>2. q \in Injection(1 .. Len(q), ToSet(q))
    BY <2>1 DEF Injection, IsInjective, NoRepeat, ToSet
  <2>3. q \in Surjection(1 .. Len(q), ToSet(q))
    BY <2>1 DEF Surjection, ToSet
  <2> QED
    BY <2>2, <2>3 DEF Bijection
<1>2. ExistsBijection(1 .. Len(q), ToSet(q))
  BY <1>1 DEF ExistsBijection
<1>3. IsFiniteSet(1 .. Len(q)) /\ Cardinality(1 .. Len(q)) = Len(q)
  <2>1. Len(q) \in Nat
    BY LenProperties
  <2>2. IsFiniteSet(1 .. Len(q)) /\ Cardinality(1 .. Len(q)) = IF 1 > Len(q) THEN 0 ELSE Len(q) - 1 + 1
    BY <2>1, FS_Interval
  <2> QED
    BY <2>1, <2>2
<1> QED
  BY <1>2, <1>3, FS_Bijection

LEMMA InToSet ==
  ASSUME NEW S, NEW q \in Seq(S)
  PROVE  \A x : x \in ToSet(q) <=> \E i \in 1 .. Len(q) : q[i] = x
  BY LenProperties DEF ToSet

LEMMA ToSetEmpty == ToSet(<<>>) = {} /\ NoRepeat(<<>>)
  BY DEF ToSet, NoRepeat

LEMMA ToSetAppend ==
  ASSUME NEW S, NEW q \in Seq(S), NEW c \in S
  PROVE  /\ Append(q, c) \in Seq(S) /\ Len(Append(q, c)) = Len(q) + 1
         /\ ToSet(Append(q, c)) = ToSet(q) \cup {c}
         /\ NoRepeat(q) /\ c \notin ToSet(q) => NoRepeat(Append(q, c))
<1> DEFINE r == Append(q, c)
<1>1. /\ r \in Seq(S) /\ Len(r) = Len(q) + 1 /\ r[Len(q) + 1] = c
      /\ \A i \in 1 .. Len(q) : r[i] = q[i]
      /\ DOMAIN q = 1 .. Len(q) /\ DOMAIN r = 1 .. Len(q) + 1 /\ Len(q) \in Nat
  BY AppendProperties, LenProperties
<1> HIDE DEF r
<1>2. ToSet(r) = ToSet(q) \cup {c}
  BY <1>1 DEF ToSet
<1>3. NoRepeat(q) /\ c \notin ToSet(q) => NoRepeat(r)
  BY <1>1 DEF ToSet, NoRepeat
<1> QED
  BY <1>1, <1>2, <1>3 DEF r

LEMMA ToSetTail ==
  ASSUME NEW S, NEW q \in Seq(S), q # <<>>, NoRepeat(q)
  PROVE  /\ Tail(q) \in Seq(S) /\ Len(Tail(q)) = Len(q) - 1 /\ NoRepeat(Tail(q))
         /\ Head(q) \in S /\ ToSet(q) = {Head(q)} \cup ToSet(Tail(q))
         /\ Head(q) \notin ToSet(Tail(q))
<1> DEFINE r == Tail(q)
<1>1. /\ r \in Seq(S) /\ Len(r) = Len(q) - 1 /\ Head(q) = q[1] /\ Head(q) \in S
      /\ \A i \in 1 .. Len(r) : r[i] = q[i + 1]
      /\ DOMAIN q = 1 .. Len(q) /\ DOMAIN r = 1 .. Len(r) /\ Len(q) \in Nat \ {0}
  BY HeadTailProperties, LenProperties, EmptySeq
<1> HIDE DEF r
<1>2. \A i \in 2 .. Len(q) : i - 1 \in 1 .. Len(r) /\ r[i - 1] = q[i]
  BY <1>1
<1>3. ToSet(q) = {Head(q)} \cup ToSet(r)
  <2>1. ASSUME NEW x \in ToSet(q), x # Head(q) PROVE x \in ToSet(r)
    <3>1. PICK i \in 1 .. Len(q) : q[i] = x
      BY InToSet
    <3>2. i \in 2 .. Len(q)
      BY <1>1, <2>1, <3>1
    <3> QED
      BY <1>1, <1>2, <3>1, <3>2, InToSet
  <2>2. ASSUME NEW x \in ToSet(r) PROVE x \in ToSet(q)
    <3>1. PICK i \in 1 .. Len(r) : r[i] = x
      BY <1>1, InToSet
    <3>2. i + 1 \in 1 .. Len(q) /\ q[i + 1] = x
      BY <1>1, <3>1
    <3> QED
      BY <3>2, InToSet
  <2>3. Head(q) \in ToSet(q)
    BY <1>1, InToSet
  <2> QED
    BY <2>1, <2>2, <2>3
<1>4. NoRepeat(r) /\ Head(q) \notin ToSet(r)
  <2>1. NoRepeat(r)
    BY <1>1 DEF NoRepeat
  <2>2. \A i \in 1 .. Len(r) : r[i] # q[1]
    BY <1>1 DEF NoRepeat
  <2> QED
    BY <1>1, <2>1, <2>2, InToSet
<1> QED
  BY <1>1, <1>3, <1>4 DEF r

LEMMA ToSetSplit ==
  ASSUME NEW S, NEW q \in Seq(S), NoRepeat(q), NEW n \in 0 .. Len(q)
  PROVE  LET b == SubSeq(q, 1, n)  r == SubSeq(q, n + 1, Len(q)) IN
         /\ b \in Seq(S) /\ Len(b) = n /\ NoRepeat(b)
         /\ r \in Seq(S) /\ Len(r) = Len(q) - n /\ NoRepeat(r)
         /\ ToSet(q) = ToSet(b) \cup ToSet(r) /\ ToSet(b) \cap ToSet(r) = {}
<1> DEFINE b == SubSeq(q, 1, n)
           r == SubSeq(q, n + 1, Len(q))
<1>1. Len(q) \in Nat /\ n \in Nat /\ n <= Len(q) /\ DOMAIN q = 1 .. Len(q)
  BY LenProperties
<1>2. b \in Seq(S) /\ Len(b) = n /\ \A i \in 1 .. n : b[i] = q[i]
  <2>1. /\ b \in Seq(S) /\ Len(b) = IF 1 <= n THEN n - 1 + 1 ELSE 0
        /\ \A i \in 1 .. n - 1 + 1 : b[i] = q[1 + i - 1]
    <3>1. 1 \in 1 .. Len(q) + 1 /\ n \in 0 .. Len(q)
      BY <1>1
    <3> QED
      BY <1>1, <3>1, SubSeqProperties, ElementOfSeq
  <2> HIDE DEF b
  <2> QED
    BY <1>1, <2>1
<1>3. r \in Seq(S) /\ Len(r) = Len(q) - n /\ \A i \in 1 .. Len(q) - n : r[i] = q[n + i]
  <2>1. /\ r \in Seq(S) /\ Len(r) = IF n + 1 <= Len(q) THEN Len(q) - (n + 1) + 1 ELSE 0
        /\ \A i \in 1 .. Len(q) - (n + 1) + 1 : r[i] = q[n + 1 + i - 1]
    <3>1. n + 1 \in 1 .. Len(q) + 1 /\ Len(q) \in n .. Len(q)
      BY <1>1
    <3> QED
      BY <1>1, <3>1, SubSeqProperties, ElementOfSeq
  <2> HIDE DEF r
  <2>2. Len(r) = Len(q) - n
    <3>1. CASE n + 1 <= Len(q)
      BY <1>1, <2>1, <3>1
    <3>2. CASE n = Len(q)
      BY <1>1, <2>1, <3>2
    <3>3. ASSUME NEW k \in Nat, n <= k PROVE n + 1 <= k \/ n = k
      BY <3>3
    <3>4. n + 1 <= Len(q) \/ n = Len(q)
      BY <1>1, <3>3
    <3> QED
      BY <3>1, <3>2, <3>4
  <2>3. ASSUME NEW i \in 1 .. Len(q) - n PROVE r[i] = q[n + i]
    <3>1. i \in 1 .. Len(q) - (n + 1) + 1 /\ n + 1 + i - 1 = n + i
      BY <1>1
    <3> QED
      BY <2>1, <3>1
  <2> QED
    BY <2>1, <2>2, <2>3
<1> HIDE DEF b, r
<1>4. NoRepeat(b) /\ NoRepeat(r)
  <2>1. \A i, j \in 1 .. n : b[i] = b[j] => i = j
    BY <1>1, <1>2 DEF NoRepeat
  <2>2. ASSUME NEW i \in 1 .. Len(q) - n, NEW j \in 1 .. Len(q) - n, r[i] = r[j] PROVE i = j
    <3>1. n + i \in 1 .. Len(q) /\ n + j \in 1 .. Len(q) /\ q[n + i] = q[n + j]
      BY <1>1, <1>3, <2>2, SMTT(30)
    <3>2. n + i = n + j
      BY <3>1 DEF NoRepeat
    <3> QED
      BY <1>1, <3>2
  <2> QED
    BY <1>2, <1>3, <2>1, <2>2 DEF NoRepeat
<1>5. ToSet(q) = ToSet(b) \cup ToSet(r)
  <2>1. ASSUME NEW x \in ToSet(q) PROVE x \in ToSet(b) \/ x \in ToSet(r)
    <3>1. PICK i \in 1 .. Len(q) : q[i] = x
      BY InToSet
    <3>2. CASE i <= n
      BY <1>1, <1>2, <3>1, <3>2, InToSet
    <3>3. CASE i > n
      <4>1. i - n \in 1 .. Len(q) - n /\ n + (i - n) = i
        BY <1>1, <3>3
      <4>2. r[i - n] = x
        BY <1>3, <3>1, <4>1
      <4> QED
        BY <1>3, <4>1, <4>2, InToSet
    <3> QED
      BY <1>1, <3>2, <3>3
  <2>2. ASSUME NEW x \in ToSet(b) PROVE x \in ToSet(q)
    BY <1>1, <1>2, InToSet
  <2>3. ASSUME NEW x \in ToSet(r) PROVE x \in ToSet(q)
    <3>1. PICK i \in 1 .. Len(q) - n : r[i] = x
      BY <1>3, InToSet
    <3>2. n + i \in 1 .. Len(q) /\ q[n + i] = x
      BY <1>1, <1>3, <3>1
    <3> QED
      BY <3>2, InToSet
  <2> QED
    BY <2>1, <2>2, <2>3
<1>6. ToSet(b) \cap ToSet(r) = {}
  <2> SUFFICES ASSUME NEW x \in ToSet(b), x \in ToSet(r) PROVE FALSE
    OBVIOUS
  <2>1. PICK i \in 1 .. n : b[i] = x
    BY <1>2, InToSet
  <2>2. PICK j \in 1 .. Len(q) - n : r[j] = x
    BY <1>3, InToSet
  <2>3. i \in 1 .. Len(q) /\ n + j \in 1 .. Len(q) /\ q[i] = q[n + j] /\ i # n + j
    BY <1>1, <1>2, <1>3, <2>1, <2>2
  <2> QED
    BY <2>3 DEF NoRepeat
<1> QED
  BY <1>2, <1>3, <1>4, <1>5, <1>6 DEF b, r

-----------------------------------------------------------------------------
(* The invariant of the router. *)

CallTyped ==
  call \in [Calls -> [ pc: Open \cup {"done", "cut"}, used: 0 .. Cardinality(Calls),
                       age: 0 .. StoreTravel, cost: 0 .. 1,
                       blind: BOOLEAN, recorded: BOOLEAN ]]

CacheTyped ==
  /\ cached \in [left: 0 .. BudgetTTL, used: 0 .. Cardinality(Calls)]
  /\ over \in 0 .. MaxOver

MeterTyped ==
  /\ queue \in Seq(Calls) /\ Len(queue) <= MaxQueue
  /\ batch \in Seq(Calls) /\ Len(batch) <= BatchSize
  /\ calls \subseteq Calls /\ dropped \subseteq Calls
  /\ due \in Nat /\ usage \in Nat

StopTyped ==
  /\ phase \in {"up", "draining", "closed", "flushing", "last", "exited"}
  /\ early \subseteq Calls /\ ahead \in 0 .. due

RouterTyped == CallTyped /\ CacheTyped /\ MeterTyped /\ StopTyped

(* A record is in one place, and a call that was not answered has none. *)
RecordsInv ==
  /\ NoRepeat(queue) /\ NoRepeat(batch)
  /\ ToSet(queue) \cap ToSet(batch) = {}
  /\ (ToSet(queue) \cup ToSet(batch)) \cap Settled = {}
  /\ Enqueued = ToSet(queue) \cup ToSet(batch) \cup Settled
  /\ \A c \in Calls : call[c].recorded => call[c].pc = "done"
  /\ ChargedOnce

(* The last loop of drain() saw an empty queue; what was recorded before   *)
(* is written, or in the batch of a flush that is still waited for.        *)
DrainInv ==
  /\ early \subseteq Enqueued
  /\ batch # <<>> => due > 0
  /\ phase = "last" => /\ early \cap ToSet(queue) = {}
                       /\ early \cap ToSet(batch) # {} => ahead > 0
  /\ DrainSettles

(* What an answer of the store, and the entry it filled, can be late by. *)
GateInv ==
  /\ usage < Limit => over = 0
  /\ \A c \in Late : call[c].used < Limit => over <= call[c].age
  /\ cached.left > 0 /\ cached.used < Limit => over + cached.left <= StoreTravel + BudgetTTL

RouterInv == RouterTyped /\ RecordsInv /\ DrainInv /\ GateInv

LEMMA CostBound ==
  ASSUME CallTyped, NEW cs \in SUBSET Calls
  PROVE  Cost(cs) \in 0 .. Cardinality(Calls)
<1>1. { c \in cs : call[c].cost = 1 } \in SUBSET Calls
  OBVIOUS
<1> QED
  BY <1>1, CallsAssumption, FS_Subset, FS_CardinalityType DEF Cost

LEMMA CostAdds ==
  ASSUME CallTyped, NEW cs \in SUBSET Calls, NEW ds \in SUBSET Calls, cs \cap ds = {}
  PROVE  Cost(cs \cup ds) = Cost(cs) + Cost(ds)
<1> DEFINE C == { c \in cs : call[c].cost = 1 }
           D == { c \in ds : call[c].cost = 1 }
<1>1. C \in SUBSET Calls /\ D \in SUBSET Calls /\ C \cap D = {}
  OBVIOUS
<1>2. IsFiniteSet(C) /\ IsFiniteSet(D)
  BY <1>1, CallsAssumption, FS_Subset
<1>3. { c \in cs \cup ds : call[c].cost = 1 } = C \cup D
  OBVIOUS
<1>4. Cardinality(C \cup D) = Cardinality(C) + Cardinality(D) - Cardinality(C \cap D)
  BY <1>2, FS_Union
<1>5. Cardinality(C \cap D) = 0 /\ Cardinality(C) \in Nat /\ Cardinality(D) \in Nat
  BY <1>1, <1>2, FS_EmptySet, FS_CardinalityType
<1>6. Cost(cs \cup ds) = Cardinality(C \cup D) /\ Cost(cs) = Cardinality(C) /\ Cost(ds) = Cardinality(D)
  BY <1>3 DEF Cost
<1> HIDE DEF C, D
<1> QED
  BY <1>4, <1>5, <1>6

LEMMA RouterStartInv ==
  ASSUME NEW p \in {"up", "exited"}, RouterStart(p)
  PROVE  RouterInv
<1> USE RouterAssumption DEF RouterStart
<1>1. Cardinality(Calls) \in Nat /\ Cardinality({}) = 0
  BY CallsAssumption, FS_CardinalityType, FS_EmptySet
<1>2. CallTyped
  BY <1>1 DEF CallTyped, New, CallAt, Open
<1>3. CacheTyped /\ MeterTyped /\ StopTyped
  BY <1>1 DEF CacheTyped, MaxOver, MeterTyped, StopTyped
<1>4. RecordsInv
  BY <1>1, ToSetEmpty DEF RecordsInv, Enqueued, Settled, ChargedOnce, Cost, New, CallAt
<1>5. DrainInv /\ GateInv
  BY DEF DrainInv, DrainSettles, GateInv, Late, At, New, CallAt
<1> QED
  BY <1>2, <1>3, <1>4, <1>5 DEF RouterInv, RouterTyped

(* The call is answered and its record enqueued. *)
LEMMA RecordedKeeps ==
  ASSUME RouterTyped, RecordsInv, NEW c \in Calls, call[c].pc # "done",
         NEW cost \in 0 .. 1, Recorded(c, cost)
  PROVE  /\ CallTyped' /\ MeterTyped' /\ RecordsInv'
         /\ c \notin Enqueued /\ Enqueued' = Enqueued \cup {c}
         /\ ToSet(queue') \subseteq ToSet(queue) \cup {c} /\ Settled \subseteq Settled'
         /\ batch' = batch /\ usage' = usage /\ due' \in Nat /\ due' >= due
         /\ \A d \in Calls : d # c => call'[d] = call[d]
         /\ call'[c].pc = "done"
<1> DEFINE q == IF Overfull THEN Tail(queue) ELSE queue
           out == IF Overfull THEN {Head(queue)} ELSE {}
<1>1. CallTyped' /\ call'[c].pc = "done" /\ call'[c].recorded /\ (\A d \in Calls : d # c => call'[d] = call[d])
  <2>1. 0 \in 0 .. Cardinality(Calls) /\ 0 \in 0 .. StoreTravel
    BY RouterAssumption, CallsAssumption, FS_CardinalityType
  <2> QED
    BY <2>1 DEF RouterTyped, CallTyped, Recorded, New, CallAt, Open
<1>2. c \notin Enqueued /\ Enqueued' = Enqueued \cup {c}
  BY <1>1 DEF RecordsInv, Enqueued
<1>3. /\ q \in Seq(Calls) /\ Len(q) < MaxQueue /\ NoRepeat(q)
      /\ ToSet(queue) = out \cup ToSet(q) /\ out \cap ToSet(q) = {} /\ out \subseteq Calls
  <2>1. CASE Overfull
    <3>1. queue # <<>>
      BY <2>1, RouterAssumption DEF Overfull, RouterTyped, MeterTyped
    <3> QED
      BY <2>1, <3>1, ToSetTail, RouterAssumption DEF Overfull, RouterTyped, MeterTyped, RecordsInv
  <2>2. CASE ~ Overfull
    BY <2>2, RouterAssumption, LenProperties DEF Overfull, RouterTyped, MeterTyped, RecordsInv
  <2> QED BY <2>1, <2>2
<1>4. /\ queue' = Append(q, c) /\ dropped' = dropped \cup out
      /\ due' = IF Len(Append(q, c)) >= BatchSize THEN due + 1 ELSE due
      /\ UNCHANGED <<batch, calls, usage>>
  BY DEF Recorded, Enqueue
<1> HIDE DEF q, out
<1>5. c \notin ToSet(q)
  BY <1>2, <1>3 DEF RecordsInv
<1>6. /\ queue' \in Seq(Calls) /\ Len(queue') = Len(q) + 1
      /\ ToSet(queue') = ToSet(q) \cup {c} /\ NoRepeat(queue')
  BY <1>3, <1>4, <1>5, ToSetAppend
<1>7. MeterTyped'
  <2>1. Len(queue') <= MaxQueue
    BY <1>3, <1>6, LenProperties, RouterAssumption
  <2> QED
    BY <1>3, <1>4, <1>6, <2>1 DEF RouterTyped, MeterTyped
<1>8. Settled' = Settled \cup out
  BY <1>4 DEF Settled
<1>9. ChargedOnce'
  <2>1. c \notin calls
    BY <1>2 DEF RecordsInv, Settled
  <2>2. { d \in calls' : call'[d].cost = 1 } = { d \in calls : call[d].cost = 1 }
    BY <1>1, <1>4, <2>1 DEF RouterTyped, MeterTyped
  <2> QED
    BY <1>4, <2>2 DEF RecordsInv, ChargedOnce, Cost
<1>10. RecordsInv'
  <2>1. \A d \in Calls : call'[d].recorded => call'[d].pc = "done"
    BY <1>1 DEF RecordsInv
  <2>2. /\ ToSet(queue') \cap ToSet(batch') = {}
        /\ (ToSet(queue') \cup ToSet(batch')) \cap Settled' = {}
        /\ Enqueued' = ToSet(queue') \cup ToSet(batch') \cup Settled'
    BY <1>2, <1>3, <1>4, <1>6, <1>8 DEF RecordsInv
  <2> QED
    BY <1>4, <1>6, <1>9, <2>1, <2>2 DEF RecordsInv
<1>11. due' \in Nat /\ due' >= due
  BY <1>4 DEF RouterTyped, MeterTyped
<1> QED
  BY <1>1, <1>2, <1>3, <1>4, <1>6, <1>7, <1>8, <1>10, <1>11

(* A step that moves calls without answering them leaves the books alone. *)
LEMMA BooksStay ==
  ASSUME RouterTyped, RecordsInv, UNCHANGED <<queue, batch, calls, usage, dropped>>,
         \A c \in Calls : /\ call'[c].recorded = call[c].recorded /\ call'[c].cost = call[c].cost
                          /\ call[c].pc = "done" => call'[c].pc = "done"
  PROVE  RecordsInv' /\ Enqueued' = Enqueued /\ Settled' = Settled
<1>1. Enqueued' = Enqueued /\ Settled' = Settled
  BY DEF Enqueued, Settled
<1>2. { c \in calls' : call'[c].cost = 1 } = { c \in calls : call[c].cost = 1 }
  BY DEF RouterTyped, MeterTyped
<1>3. ChargedOnce'
  BY <1>2 DEF RecordsInv, ChargedOnce, Cost
<1> QED
  BY <1>1, <1>3 DEF RecordsInv

(* Costs of calls that were not answered do not change either. *)
LEMMA BooksStayUnpriced ==
  ASSUME RouterTyped, RecordsInv, UNCHANGED <<queue, batch, calls, usage, dropped>>,
         NEW c \in Calls, call[c].pc # "done", \A d \in Calls : d # c => call'[d] = call[d],
         ~ call'[c].recorded
  PROVE  RecordsInv' /\ Enqueued' = Enqueued /\ Settled' = Settled
<1>0. ~ call[c].recorded
  BY DEF RecordsInv
<1>1. Enqueued' = Enqueued /\ Settled' = Settled
  BY <1>0 DEF Enqueued, Settled
<1>2. c \notin calls
  BY <1>0 DEF RecordsInv, Enqueued, Settled
<1>3. { d \in calls' : call'[d].cost = 1 } = { d \in calls : call[d].cost = 1 }
  BY <1>2 DEF RouterTyped, MeterTyped
<1>4. ChargedOnce'
  BY <1>3 DEF RecordsInv, ChargedOnce, Cost
<1> QED
  BY <1>1, <1>4 DEF RecordsInv

(* A batch is taken. *)
LEMMA TakeBatchKeeps ==
  ASSUME RouterTyped, RecordsInv, TakeBatch
  PROVE  /\ MeterTyped' /\ RecordsInv' /\ ahead' \in 0 .. due'
         /\ ToSet(queue') \subseteq ToSet(queue) /\ ToSet(batch') \subseteq ToSet(queue)
         /\ Enqueued' = Enqueued /\ Settled' = Settled
         /\ batch' # <<>> => due' > 0
<1>1. Enqueued' = Enqueued /\ Settled' = Settled
  BY DEF TakeBatch, callVars, Enqueued, Settled
<1>2. ChargedOnce'
  BY DEF RecordsInv, ChargedOnce, Cost, TakeBatch, callVars
<1>3. CASE queue = <<>>
  BY <1>1, <1>2, <1>3, ToSetEmpty
     DEF RouterTyped, MeterTyped, StopTyped, RecordsInv, TakeBatch, FlushEnds, callVars
<1>4. CASE queue # <<>>
  <2> DEFINE n == IF Len(queue) < BatchSize THEN Len(queue) ELSE BatchSize
  <2>1. Len(queue) \in Nat \ {0} /\ n \in 0 .. Len(queue) /\ n <= BatchSize /\ batch = <<>>
    BY <1>4, EmptySeq, RouterAssumption DEF RouterTyped, MeterTyped, TakeBatch
  <2>2. batch' = SubSeq(queue, 1, n) /\ queue' = SubSeq(queue, Len(batch') + 1, Len(queue))
    BY <1>4 DEF TakeBatch
  <2> HIDE DEF n
  <2>3. /\ batch' \in Seq(Calls) /\ Len(batch') = n /\ NoRepeat(batch')
    BY <2>1, <2>2, ToSetSplit DEF RouterTyped, MeterTyped, RecordsInv
  <2>4. queue' = SubSeq(queue, n + 1, Len(queue))
    BY <2>2, <2>3
  <2>5. /\ queue' \in Seq(Calls) /\ Len(queue') = Len(queue) - n /\ NoRepeat(queue')
        /\ ToSet(queue) = ToSet(batch') \cup ToSet(queue') /\ ToSet(batch') \cap ToSet(queue') = {}
    BY <2>1, <2>2, <2>4, ToSetSplit DEF RouterTyped, MeterTyped, RecordsInv
  <2>6. UNCHANGED <<call, calls, usage, dropped, due, ahead>> /\ due > 0
    BY <1>4 DEF TakeBatch, callVars
  <2>7. MeterTyped' /\ ahead' \in 0 .. due'
    <3>1. Len(queue') <= MaxQueue /\ Len(batch') <= BatchSize
      BY <2>1, <2>3, <2>5, RouterAssumption DEF RouterTyped, MeterTyped
    <3> QED
      BY <2>3, <2>5, <2>6, <3>1 DEF RouterTyped, MeterTyped, StopTyped
  <2>8. RecordsInv'
    <3>1. /\ ToSet(queue') \cap ToSet(batch') = {}
          /\ (ToSet(queue') \cup ToSet(batch')) \cap Settled' = {}
          /\ Enqueued' = ToSet(queue') \cup ToSet(batch') \cup Settled'
      BY <1>1, <2>1, <2>5, ToSetEmpty DEF RecordsInv
    <3> QED
      BY <1>2, <2>3, <2>5, <2>6, <3>1 DEF RecordsInv
  <2> QED
    BY <1>1, <2>5, <2>6, <2>7, <2>8
<1> QED
  BY <1>3, <1>4

(* The transaction of a batch ends, confirmed or not. *)
LEMMA BatchKeeps ==
  ASSUME RouterTyped, RecordsInv, batch # <<>> => due > 0, BatchFails \/ BatchWritten
  PROVE  /\ MeterTyped' /\ RecordsInv' /\ ahead' \in 0 .. due'
         /\ queue' = queue /\ ToSet(batch') = {} /\ batch' = <<>>
         /\ Enqueued' = Enqueued /\ Settled \subseteq Settled' /\ usage' >= usage
<1>1. /\ batch # <<>> /\ batch' = <<>> /\ FlushEnds /\ UNCHANGED <<call, queue, phase>>
      /\ InsertCalls \/ UNCHANGED <<calls, usage>>
      /\ dropped' = dropped \cup ToSet(batch) \/ (dropped' = dropped /\ InsertCalls)
  BY DEF BatchFails, BatchWritten, callVars
<1>2. ToSet(batch) \in SUBSET Calls /\ ToSet(batch') = {} /\ NoRepeat(batch') /\ Len(batch') = 0
  <2>1. ToSet(batch) \in SUBSET Calls
    BY InToSet, ElementOfSeq DEF RouterTyped, MeterTyped
  <2>2. Len(<<>>) = 0
    BY EmptySeq
  <2> QED
    BY <1>1, <2>1, <2>2, ToSetEmpty
<1>3. Enqueued' = Enqueued
  BY <1>1 DEF Enqueued
<1>4. Settled' = Settled \cup ToSet(batch)
  BY <1>1 DEF Settled, InsertCalls
<1>5. ChargedOnce' /\ usage' >= usage /\ usage' \in Nat /\ calls' \subseteq Calls
  <2>1. CASE InsertCalls
    <3>1. calls \in SUBSET Calls /\ calls \cap ToSet(batch) = {}
      BY DEF RouterTyped, MeterTyped, RecordsInv, Settled
    <3>2. Cost(calls \cup ToSet(batch)) = Cost(calls) + Cost(ToSet(batch))
      BY <1>2, <3>1, CostAdds DEF RouterTyped
    <3>3. Cost(ToSet(batch)) \in Nat
      BY <1>2, CostBound, CallsAssumption, FS_CardinalityType DEF RouterTyped
    <3>4. usage' = Cost(calls')
      BY <2>1, <3>2 DEF InsertCalls, RecordsInv, ChargedOnce
    <3>5. ChargedOnce'
      BY <1>1, <3>4 DEF ChargedOnce, Cost
    <3> QED
      BY <1>2, <2>1, <3>1, <3>3, <3>5 DEF InsertCalls, RouterTyped, MeterTyped
  <2>2. CASE UNCHANGED <<calls, usage>>
    BY <1>1, <2>2 DEF RecordsInv, ChargedOnce, Cost, RouterTyped, MeterTyped
  <2> QED
    BY <1>1, <2>1, <2>2
<1>6. due' \in Nat /\ ahead' \in 0 .. due'
  BY <1>1 DEF FlushEnds, RouterTyped, MeterTyped, StopTyped
<1>7. MeterTyped'
  BY <1>1, <1>2, <1>5, <1>6, EmptySeq, RouterAssumption DEF RouterTyped, MeterTyped
<1>8. RecordsInv'
  BY <1>1, <1>2, <1>3, <1>4, <1>5 DEF RecordsInv
<1> QED
  BY <1>1, <1>2, <1>3, <1>4, <1>5, <1>6, <1>7, <1>8

(* A step of a call that is not answered by it. *)
LEMMA CallMoves ==
  ASSUME RouterInv, NEW c \in Calls,
         Arrive(c) \/ Upstream(c) \/ BodyBreaks(c) \/ BudgetFails(c) \/ FindUsage(c)
  PROVE  RouterInv'
<1> USE DEF RouterInv
<1>0. 0 \in 0 .. Cardinality(Calls) /\ 0 \in 0 .. StoreTravel /\ usage \in 0 .. Cardinality(Calls)
  <2>1. usage \in 0 .. Cardinality(Calls)
    BY CostBound DEF RecordsInv, ChargedOnce, RouterTyped, MeterTyped
  <2> QED
    BY <2>1, RouterAssumption, CallsAssumption, FS_CardinalityType
<1>1. /\ UNCHANGED <<cached, over, meterVars, stopVars>>
      /\ \A d \in Calls : d # c => call'[d] = call[d]
      /\ call[c].pc # "done"
  BY DEF Arrive, Upstream, BodyBreaks, BudgetFails, FindUsage, At, To, RouterTyped, CallTyped
<1>2. CallTyped' /\ ~ call'[c].recorded
  <2>1. ~ call[c].recorded
    BY <1>1 DEF RecordsInv
  <2> QED
    <3>1. CASE Arrive(c) \/ Upstream(c) \/ BodyBreaks(c)
      BY <1>0, <2>1, <3>1 DEF RouterTyped, CallTyped, Open, Arrive, Upstream, BodyBreaks, To
    <3>2. CASE BudgetFails(c)
      BY <1>0, <3>2 DEF RouterTyped, CallTyped, Open, CallAt, BudgetFails
    <3>3. CASE FindUsage(c)
      <4>1. CallTyped
        BY DEF RouterTyped
      <4>2. call' = [call EXCEPT ![c] = [call[c] EXCEPT !.pc = "loaded", !.used = usage]]
        BY <3>3, <4>1 DEF FindUsage, CallTyped
      <4> QED
        BY <1>0, <2>1, <4>1, <4>2 DEF CallTyped, Open
    <3> QED
      BY <3>1, <3>2, <3>3
<1>3. RouterTyped'
  BY <1>1, <1>2 DEF RouterTyped, CacheTyped, MeterTyped, StopTyped, meterVars, stopVars
<1>4. RecordsInv' /\ Enqueued' = Enqueued /\ Settled' = Settled
  BY <1>1, <1>2, BooksStayUnpriced DEF meterVars
<1>5. DrainInv'
  BY <1>1, <1>4 DEF DrainInv, DrainSettles, meterVars, stopVars
<1>6. GateInv'
  <2>1. call'[c].pc = "loaded" => call'[c].used = usage /\ FindUsage(c)
    BY DEF RouterTyped, CallTyped, New, CallAt, Arrive, Upstream, BodyBreaks, BudgetFails, FindUsage, At, To
  <2>2. usage < Limit => over = 0 /\ 0 <= call'[c].age
    BY <1>2, RouterAssumption DEF GateInv, CallTyped
  <2>3. ASSUME NEW d \in Late', call'[d].used < Limit PROVE over' <= call'[d].age
    <3>1. CASE d = c
      BY <1>1, <2>1, <2>2, <2>3, <3>1 DEF Late, At
    <3>2. CASE d # c
      BY <1>1, <2>3, <3>2 DEF Late, At, GateInv
    <3> QED BY <3>1, <3>2
  <2> QED
    BY <1>1, <2>3 DEF GateInv, meterVars
<1> QED
  BY <1>3, <1>4, <1>5, <1>6

(* A call is answered, or let through by its budget. *)
LEMMA CallDecided ==
  ASSUME RouterInv, NEW c \in Calls,
         Refuse(c) \/ CheckBudget(c) \/ FillBudget(c) \/ Served(c)
  PROVE  RouterInv'
<1> USE DEF RouterInv
<1>0. 0 \in 0 .. Cardinality(Calls) /\ 0 \in 0 .. StoreTravel
  BY RouterAssumption, CallsAssumption, FS_CardinalityType
<1>1. UNCHANGED <<over, stopVars>> /\ call[c].pc \notin {"done", "cut"}
  BY DEF Refuse, CheckBudget, FillBudget, Served, At
<1>2. /\ cached' \in [left: 0 .. BudgetTTL, used: 0 .. Cardinality(Calls)]
      /\ cached' # cached => /\ call[c].pc = "loaded" /\ cached'.left = BudgetTTL
                             /\ cached'.left > 0 => cached'.used = call[c].used
  <2>1. CASE FillBudget(c)
    BY <1>0, <2>1, RouterAssumption DEF FillBudget, At, RouterTyped, CallTyped, CacheTyped
  <2>2. CASE ~ FillBudget(c)
    BY <2>2 DEF Refuse, CheckBudget, Served, RouterTyped, CacheTyped
  <2> QED BY <2>1, <2>2
<1>3. /\ \/ \E cost \in 0 .. 1 : Recorded(c, cost)
         \/ UNCHANGED meterVars /\ (To(c, "send") \/ To(c, "loading"))
  BY DEF Refuse, CheckBudget, FillBudget, Served, Decide
<1>4. CASE \E cost \in 0 .. 1 : Recorded(c, cost)
  <2>1. PICK cost \in 0 .. 1 : Recorded(c, cost)
    BY <1>4
  <2>2. /\ CallTyped' /\ MeterTyped' /\ RecordsInv'
        /\ c \notin Enqueued /\ Enqueued' = Enqueued \cup {c}
        /\ ToSet(queue') \subseteq ToSet(queue) \cup {c} /\ Settled \subseteq Settled'
        /\ batch' = batch /\ usage' = usage /\ due' \in Nat /\ due' >= due
        /\ \A d \in Calls : d # c => call'[d] = call[d]
        /\ call'[c].pc = "done"
    BY <1>1, <2>1, RecordedKeeps
  <2>3. StopTyped'
    BY <1>1, <2>2 DEF RouterTyped, StopTyped, MeterTyped, stopVars
  <2>4. CacheTyped'
    BY <1>1, <1>2 DEF RouterTyped, CacheTyped
  <2>5. DrainInv'
    BY <1>1, <2>2 DEF DrainInv, DrainSettles, stopVars, RouterTyped, MeterTyped
  <2>6. GateInv'
    <3>1. \A d \in Late' : d \in Late /\ call'[d] = call[d]
      BY <2>2 DEF Late, At
    <3>2. cached'.left > 0 /\ cached'.used < Limit => over' + cached'.left <= StoreTravel + BudgetTTL
      <4>1. CASE cached' = cached
        BY <1>1, <4>1 DEF GateInv
      <4>2. CASE cached' # cached
        <5>0. call[c].pc = "loaded" /\ cached'.left = BudgetTTL /\ (cached'.left > 0 => cached'.used = call[c].used)
          BY <1>2, <4>2
        <5>1. c \in Late /\ over \in Nat /\ call[c].age \in 0 .. StoreTravel
          BY <5>0, RouterAssumption DEF Late, At, RouterTyped, CallTyped, CacheTyped, MaxOver
        <5>2. cached'.left > 0 /\ cached'.used < Limit => over <= call[c].age /\ cached'.left = BudgetTTL
          BY <5>0, <5>1 DEF GateInv
        <5> QED
          BY <1>1, <5>1, <5>2, RouterAssumption
      <4> QED
        BY <4>1, <4>2
    <3> QED
      BY <1>1, <2>2, <3>1, <3>2 DEF GateInv
  <2> QED
    BY <2>2, <2>3, <2>4, <2>5, <2>6 DEF RouterTyped
<1>5. CASE UNCHANGED meterVars /\ (To(c, "send") \/ To(c, "loading"))
  <2>1. /\ CallTyped' /\ \A d \in Calls : d # c => call'[d] = call[d]
        /\ call'[c].pc \in {"send", "loading"} /\ ~ call'[c].recorded
    <3>1. ~ call[c].recorded
      BY <1>1 DEF RecordsInv
    <3> QED
      BY <1>0, <1>5, <3>1 DEF To, RouterTyped, CallTyped, Open
  <2>2. RecordsInv' /\ Enqueued' = Enqueued /\ Settled' = Settled
    BY <1>1, <1>5, <2>1, BooksStayUnpriced DEF meterVars
  <2>3. RouterTyped'
    BY <1>1, <1>2, <1>5, <2>1 DEF RouterTyped, CacheTyped, MeterTyped, StopTyped, meterVars, stopVars
  <2>4. DrainInv'
    BY <1>1, <1>5, <2>2 DEF DrainInv, DrainSettles, meterVars, stopVars
  <2>5. GateInv'
    <3>1. \A d \in Late' : d \in Late /\ call'[d] = call[d]
      BY <2>1 DEF Late, At
    <3>2. cached'.left > 0 /\ cached'.used < Limit => over' + cached'.left <= StoreTravel + BudgetTTL
      <4>1. CASE cached' = cached
        BY <1>1, <4>1 DEF GateInv
      <4>2. CASE cached' # cached
        <5>0. call[c].pc = "loaded" /\ cached'.left = BudgetTTL /\ (cached'.left > 0 => cached'.used = call[c].used)
          BY <1>2, <4>2
        <5>1. c \in Late /\ over \in Nat /\ call[c].age \in 0 .. StoreTravel
          BY <5>0, RouterAssumption DEF Late, At, RouterTyped, CallTyped, CacheTyped, MaxOver
        <5>2. cached'.left > 0 /\ cached'.used < Limit => over <= call[c].age /\ cached'.left = BudgetTTL
          BY <5>0, <5>1 DEF GateInv
        <5> QED
          BY <1>1, <5>1, <5>2, RouterAssumption
      <4> QED
        BY <4>1, <4>2
    <3> QED
      BY <1>1, <1>5, <3>1, <3>2 DEF GateInv, meterVars
  <2> QED
    BY <2>2, <2>3, <2>4, <2>5
<1> QED
  BY <1>3, <1>4, <1>5

LEMMA FlushKeeps ==
  ASSUME RouterInv, FlushTimer \/ Flush
  PROVE  RouterInv'
<1> USE DEF RouterInv
<1>1. CASE FlushTimer
  <2>1. RecordsInv' /\ Enqueued' = Enqueued /\ Settled' = Settled
    BY <1>1, BooksStay DEF FlushTimer, callVars
  <2>2. RouterTyped'
    BY <1>1 DEF FlushTimer, RouterTyped, CallTyped, CacheTyped, MeterTyped, StopTyped, callVars, stopVars
  <2>3. DrainInv' /\ GateInv'
    BY <1>1, <2>1 DEF FlushTimer, DrainInv, DrainSettles, GateInv, Late, At, callVars, stopVars
  <2> QED BY <2>1, <2>2, <2>3
<1>2. CASE TakeBatch
  <2>1. /\ MeterTyped' /\ RecordsInv' /\ ahead' \in 0 .. due'
        /\ ToSet(queue') \subseteq ToSet(queue) /\ ToSet(batch') \subseteq ToSet(queue)
        /\ Enqueued' = Enqueued /\ Settled' = Settled
        /\ batch' # <<>> => due' > 0
    BY <1>2, TakeBatchKeeps
  <2>2. UNCHANGED <<callVars, phase, early, usage>>
    BY <1>2 DEF TakeBatch
  <2>3. RouterTyped'
    BY <2>1, <2>2 DEF RouterTyped, CallTyped, CacheTyped, StopTyped, callVars
  <2>4. DrainInv' /\ GateInv'
    BY <2>1, <2>2 DEF DrainInv, DrainSettles, GateInv, Late, At, callVars
  <2> QED BY <2>1, <2>3, <2>4
<1>3. CASE BatchFails \/ BatchWritten
  <2>1. /\ MeterTyped' /\ RecordsInv' /\ ahead' \in 0 .. due'
        /\ queue' = queue /\ ToSet(batch') = {} /\ batch' = <<>>
        /\ Enqueued' = Enqueued /\ Settled \subseteq Settled' /\ usage' >= usage
    BY <1>3, BatchKeeps DEF DrainInv
  <2>2. UNCHANGED <<callVars, phase, early>>
    BY <1>3 DEF BatchFails, BatchWritten
  <2>3. RouterTyped'
    BY <2>1, <2>2 DEF RouterTyped, CallTyped, CacheTyped, StopTyped, callVars
  <2>4. DrainInv'
    BY <2>1, <2>2 DEF DrainInv, DrainSettles
  <2>5. GateInv'
    <3>1. usage' < Limit => usage < Limit
      BY <2>1, RouterAssumption DEF RouterTyped, MeterTyped
    <3> QED
      BY <2>2, <3>1 DEF GateInv, Late, At, callVars
  <2> QED BY <2>1, <2>3, <2>4, <2>5
<1> QED
  BY <1>1, <1>2, <1>3 DEF Flush

(* The shutdown, and the clock. *)
LEMMA StopKeeps ==
  ASSUME RouterInv, Sigterm \/ Stop
  PROVE  RouterInv'
<1> USE DEF RouterInv
<1>1. CASE Sigterm \/ Close \/ DrainLoop \/ DrainGoesOn
  <2>1. UNCHANGED <<call, cached, over, queue, batch, calls, usage, dropped>>
    BY <1>1 DEF Sigterm, Close, DrainLoop, DrainGoesOn, callVars, meterVars
  <2>2. RecordsInv' /\ Enqueued' = Enqueued /\ Settled' = Settled
    BY <2>1, BooksStay
  <2>3. Enqueued \subseteq Calls
    BY DEF Enqueued
  <2>4. RouterTyped'
    BY <1>1, <2>1, <2>3, SMTT(30) DEF RouterTyped, CallTyped, CacheTyped, MeterTyped, StopTyped,
      Sigterm, Close, DrainLoop, DrainGoesOn, callVars, meterVars
  <2>5. GateInv'
    BY <2>1 DEF GateInv, Late, At
  <2>6. DrainInv'
    <3>1. CASE Sigterm \/ Close \/ DrainGoesOn
      BY <2>1, <2>2, <3>1 DEF DrainInv, DrainSettles, Sigterm, Close, DrainGoesOn, meterVars
    <3>2. CASE DrainLoop
      <4>1. batch # <<>> => due > 0 /\ due' > 0
        BY <3>2 DEF DrainInv, DrainLoop, RouterTyped, MeterTyped
      <4>2. phase' = "last" => queue = <<>> /\ ahead' = due
        BY <3>2 DEF DrainLoop
      <4> QED
        BY <2>1, <2>2, <3>2, <4>1, <4>2, ToSetEmpty DEF DrainInv, DrainSettles, DrainLoop
    <3> QED
      BY <1>1, <3>1, <3>2
  <2> QED
    BY <2>2, <2>4, <2>5, <2>6
<1>2. CASE Exit
  <2>1. \A c \in Calls : /\ call'[c].recorded = call[c].recorded /\ call'[c].cost = call[c].cost
                         /\ call[c].pc = "done" => call'[c].pc = "done"
                         /\ call'[c].pc # "loaded"
    BY <1>2 DEF Exit, RouterTyped, CallTyped
  <2>2. RecordsInv' /\ Enqueued' = Enqueued /\ Settled' = Settled
    BY <1>2, <2>1, BooksStay DEF Exit, meterVars
  <2>3. CallTyped'
    BY <1>2 DEF Exit, RouterTyped, CallTyped
  <2>4. RouterTyped'
    BY <1>2, <2>3 DEF Exit, RouterTyped, CacheTyped, MeterTyped, StopTyped, meterVars
  <2>5. DrainInv'
    <3>1. early \subseteq Settled
      BY <1>2 DEF Exit, DrainInv, RecordsInv, RouterTyped, StopTyped
    <3> QED
      BY <1>2, <2>2, <3>1 DEF Exit, DrainInv, DrainSettles, meterVars
  <2>6. GateInv'
    BY <1>2, <2>1 DEF Exit, GateInv, Late, At, meterVars
  <2> QED
    BY <2>2, <2>4, <2>5, <2>6
<1> QED
  BY <1>1, <1>2 DEF Stop

LEMMA TickKeeps ==
  ASSUME RouterInv, RouterTick
  PROVE  RouterInv'
<1> USE DEF RouterInv
<1>1. /\ UNCHANGED <<meterVars, stopVars>>
      /\ \A c \in Calls : c \in Late => call'[c] = [call[c] EXCEPT !.age = @ + 1] /\ call[c].age < StoreTravel
      /\ \A c \in Calls : c \notin Late => call'[c] = call[c]
  BY DEF RouterTick
<1>2. CallTyped'
  BY RouterAssumption DEF RouterTick, RouterTyped, CallTyped
<1>3. \A c \in Calls : /\ call'[c].recorded = call[c].recorded /\ call'[c].cost = call[c].cost
                       /\ call'[c].pc = call[c].pc /\ call'[c].used = call[c].used
                       /\ c \in Late => call'[c].age = call[c].age + 1
  <2>1. ASSUME NEW c \in Calls, c \in Late
        PROVE  /\ call'[c].recorded = call[c].recorded /\ call'[c].cost = call[c].cost
               /\ call'[c].pc = call[c].pc /\ call'[c].used = call[c].used
               /\ call'[c].age = call[c].age + 1
    <3>1. call'[c] = [call[c] EXCEPT !.age = @ + 1]
      BY <1>1, <2>1
    <3> QED
      BY <3>1 DEF RouterTyped, CallTyped
  <2> QED
    BY <1>1, <2>1
<1>4. /\ over' \in 0 .. MaxOver /\ over' <= over + 1 /\ (usage < Limit => over' = over)
      /\ over \in Nat
  BY RouterAssumption DEF RouterTick, RouterTyped, CacheTyped, MeterTyped, MaxOver
<1>5. /\ cached' \in [left: 0 .. BudgetTTL, used: 0 .. Cardinality(Calls)]
      /\ cached'.left > 0 => cached'.left + 1 = cached.left /\ cached'.used = cached.used
  <2>1. 0 \in 0 .. Cardinality(Calls)
    BY CallsAssumption, FS_CardinalityType
  <2> QED
    BY <2>1, RouterAssumption DEF RouterTick, RouterTyped, CacheTyped
<1>6. RecordsInv' /\ Enqueued' = Enqueued /\ Settled' = Settled
  BY <1>1, <1>3, BooksStay DEF meterVars
<1>7. RouterTyped'
  BY <1>1, <1>2, <1>4, <1>5 DEF RouterTyped, CacheTyped, MeterTyped, StopTyped, meterVars, stopVars
<1>8. DrainInv'
  BY <1>1, <1>6 DEF DrainInv, DrainSettles, meterVars, stopVars
<1>9. GateInv'
  <2>1. usage' < Limit => over' = 0
    BY <1>1, <1>4 DEF GateInv, meterVars
  <2>2. ASSUME NEW c \in Late', call'[c].used < Limit PROVE over' <= call'[c].age
    <3>1. c \in Late /\ over <= call[c].age
      BY <1>3, <2>2 DEF Late, At, GateInv
    <3>2. call[c].age \in Nat
      BY <3>1, RouterAssumption DEF Late, RouterTyped, CallTyped
    <3> QED
      BY <1>3, <1>4, <3>1, <3>2, RouterAssumption DEF Late, MaxOver
  <2>3. cached'.left > 0 /\ cached'.used < Limit => over' + cached'.left <= StoreTravel + BudgetTTL
    <3>1. cached'.left > 0 /\ cached'.used < Limit => over + cached.left <= StoreTravel + BudgetTTL /\ cached.left > 0
      BY <1>5, RouterAssumption DEF GateInv, RouterTyped, CacheTyped
    <3>2. over' \in Nat /\ cached.left \in Nat /\ cached'.left \in Nat
      BY <1>4, <1>5, RouterAssumption DEF RouterTyped, CacheTyped, MaxOver
    <3> QED
      BY <1>4, <1>5, <3>1, <3>2, RouterAssumption
  <2> QED
    BY <2>1, <2>2, <2>3 DEF GateInv
<1> QED
  BY <1>6, <1>7, <1>8, <1>9

LEMMA RouterStepKeeps == RouterInv /\ [RouterNext]_routerVars => RouterInv'
<1> SUFFICES ASSUME RouterInv, [RouterNext]_routerVars PROVE RouterInv'
  OBVIOUS
<1>1. ASSUME NEW c \in Calls, Arrive(c) \/ Advance(c) PROVE RouterInv'
  BY <1>1, CallMoves, CallDecided DEF Advance
<1>2. CASE UNCHANGED routerVars
  BY <1>2 DEF routerVars, callVars, meterVars, stopVars, RouterInv, RouterTyped, CallTyped, CacheTyped, MeterTyped,
    StopTyped, RecordsInv, ChargedOnce, Cost, Settled, Enqueued, DrainInv, DrainSettles, GateInv, Late, At
<1> QED
  BY <1>1, <1>2, FlushKeeps, StopKeeps, TickKeeps DEF RouterNext, RouterStep

LEMMA RouterAlways == RouterSpec => []RouterInv
<1>1. RouterInit => RouterInv
  BY RouterStartInv DEF RouterInit
<1> QED
  BY <1>1, RouterStepKeeps, PTL DEF RouterSpec

LEMMA BooksBalance == ASSUME RouterInv PROVE RecordsSound
<1> USE DEF RouterInv
<1>1. Cardinality(ToSet(queue)) = Len(queue) /\ IsFiniteSet(ToSet(queue))
  BY NoRepeatCardinality DEF RouterTyped, MeterTyped, RecordsInv
<1>2. Cardinality(ToSet(batch)) = Len(batch) /\ IsFiniteSet(ToSet(batch))
  BY NoRepeatCardinality DEF RouterTyped, MeterTyped, RecordsInv
<1>3. IsFiniteSet(Settled)
  <2>1. Settled \in SUBSET Calls
    BY DEF Settled, RouterTyped, MeterTyped
  <2> QED
    BY <2>1, CallsAssumption, FS_Subset
<1> DEFINE W == ToSet(queue) \cup ToSet(batch)
<1>4. IsFiniteSet(W) /\ Cardinality(W) = Len(queue) + Len(batch)
  <2>1. /\ IsFiniteSet(W)
        /\ Cardinality(W) = Cardinality(ToSet(queue)) + Cardinality(ToSet(batch))
                              - Cardinality(ToSet(queue) \cap ToSet(batch))
    BY <1>1, <1>2, FS_Union
  <2>2. Cardinality(ToSet(queue) \cap ToSet(batch)) = 0
    BY FS_EmptySet DEF RecordsInv
  <2>3. Len(queue) \in Nat /\ Len(batch) \in Nat
    BY LenProperties DEF RouterTyped, MeterTyped
  <2> HIDE DEF W
  <2> QED
    BY <1>1, <1>2, <2>1, <2>2, <2>3
<1> HIDE DEF W
<1>5. Cardinality(Enqueued) = Len(queue) + Len(batch) + Cardinality(Settled)
  <2>1. Cardinality(W \cup Settled) = Cardinality(W) + Cardinality(Settled) - Cardinality(W \cap Settled)
    BY <1>3, <1>4, FS_Union
  <2>2. W \cap Settled = {} /\ Enqueued = W \cup Settled
    BY DEF W, RecordsInv
  <2>3. Cardinality(W \cap Settled) = 0
    BY <2>2, FS_EmptySet
  <2>4. Cardinality(W) \in Nat /\ Cardinality(Settled) \in Nat
    BY <1>3, <1>4, FS_CardinalityType
  <2> QED
    BY <1>4, <2>1, <2>2, <2>3, <2>4
<1> QED
  BY <1>5 DEF RecordsSound, RecordsAccounted, RecordsInv, DrainInv

(* The books of the recorder balance: no call is charged twice, no record  *)
(* gets out of sight, and a drain settles what it found.                   *)
THEOREM RecordsAlwaysSound == RouterSpec => []RecordsSound
  BY RouterAlways, BooksBalance, PTL

(* Whom a step lets through, it lets through in time. *)
LEMMA GateStep ==
  RouterInv /\ [RouterNext]_routerVars =>
    [ \A c \in Calls : call[c].pc # "send" /\ call'[c].pc = "send" /\ ~ call'[c].blind
                        => over <= BudgetTTL + StoreTravel ]_routerVars
<1>1. ASSUME RouterInv, RouterNext, NEW c \in Calls,
             call[c].pc # "send", call'[c].pc = "send", ~ call'[c].blind
      PROVE  over <= BudgetTTL + StoreTravel
  <2> USE DEF RouterInv, RouterTyped
  <2>1. CheckBudget(c) \/ FillBudget(c)
    <3>1. ASSUME NEW d \in Calls, d # c, Arrive(d) \/ Advance(d) PROVE FALSE
      <4>1. CASE \E cost \in 0 .. 1 : Recorded(d, cost)
        BY <1>1, <3>1, <4>1 DEF CallTyped, Recorded
      <4>2. CASE ~ \E cost \in 0 .. 1 : Recorded(d, cost)
        <5>1. (\E pc \in Open \cup {"done"} : To(d, pc)) \/ BudgetFails(d) \/ FindUsage(d)
          BY <3>1, <4>2 DEF Arrive, Advance, Refuse, CheckBudget, FillBudget, Upstream, Served, BodyBreaks, Decide, Open
        <5> QED
          BY <1>1, <3>1, <5>1 DEF CallTyped, BudgetFails, FindUsage, To
      <4> QED
        BY <4>1, <4>2
    <3>2. ASSUME Arrive(c) \/ Refuse(c) \/ FindUsage(c) \/ BudgetFails(c) \/ Upstream(c) \/ Served(c) \/ BodyBreaks(c)
          PROVE  FALSE
      <4>1. CASE \E cost \in 0 .. 1 : Recorded(c, cost)
        BY <1>1, <4>1 DEF CallTyped, Recorded, CallAt
      <4>2. CASE To(c, "routing") \/ To(c, "body") \/ To(c, "stream") \/ To(c, "done")
        BY <1>1, <4>2 DEF CallTyped, To
      <4>3. CASE BudgetFails(c)
        BY <1>1, <4>3 DEF CallTyped, BudgetFails, CallAt
      <4>4. CASE FindUsage(c)
        BY <1>1, <4>4 DEF CallTyped, FindUsage
      <4> QED
        BY <3>2, <4>1, <4>2, <4>3, <4>4 DEF Arrive, Refuse, Upstream, Served, BodyBreaks
    <3>3. ASSUME FlushTimer \/ Flush \/ Sigterm \/ Stop \/ RouterTick PROVE FALSE
      <4>1. CASE Exit
        BY <1>1, <4>1 DEF CallTyped, Exit
      <4>2. CASE RouterTick
        BY <1>1, <4>2 DEF CallTyped, RouterTick
      <4>3. CASE UNCHANGED call
        BY <1>1, <4>3
      <4> QED
        BY <3>3, <4>1, <4>2, <4>3 DEF FlushTimer, Flush, TakeBatch, BatchFails, BatchWritten, Sigterm, Stop, Close,
          DrainLoop, DrainGoesOn, callVars
    <3> QED
      BY <1>1, <3>1, <3>2, <3>3 DEF RouterNext, RouterStep, Advance
  <2>2. over \in Nat /\ cached.left \in 0 .. BudgetTTL /\ call[c].age \in 0 .. StoreTravel
    BY <1>1, RouterAssumption DEF CacheTyped, CallTyped, MaxOver
  <2>3. CASE CheckBudget(c)
    <3>1. cached.left > 0 /\ cached.used < Limit
      BY <1>1, <2>3 DEF CheckBudget, Decide, To, CallTyped, Recorded, New, CallAt
    <3> QED
      BY <1>1, <2>2, <3>1, RouterAssumption DEF GateInv
  <2>4. CASE FillBudget(c)
    <3>1. c \in Late /\ call[c].used < Limit
      BY <1>1, <2>4 DEF FillBudget, Late, At, Decide, To, CallTyped, Recorded, New, CallAt
    <3> QED
      BY <1>1, <2>2, <3>1, RouterAssumption DEF GateInv
  <2> QED
    BY <2>1, <2>3, <2>4
<1> QED
  BY <1>1

(* Once the recorded cost has been at the limit for a TTL and the time an  *)
(* answer of the store travels, the gate lets no call through that knows   *)
(* its budget.                                                             *)
THEOREM GateAlwaysCloses == RouterSpec => GateCloses
  BY GateStep, RouterAlways, PTL DEF RouterSpec, GateCloses

-----------------------------------------------------------------------------
(* The catalogue: its invariant. *)

(* The types of CatalogTypeOK but for the bound of the version, which      *)
(* takes a count of the bumps.                                             *)
CatalogTyped ==
  /\ tables \in Tables /\ version \in Nat \ {0}
  /\ writer \in [Editors -> [pc: {"idle", "written", "bumped", "over"}, bump: 0 .. version]]
  /\ snapshot \in [version: 0 .. version, of: Tables]
  /\ run \in [Slots -> [pc: {"none", "read", "compare", "publish"},
                        version: 0 .. version, read: Tables]]
  /\ state \in {"boot", "on", "stopped"}
  /\ pending \in BOOLEAN /\ listening \in BOOLEAN /\ owed \in 0 .. version
  /\ wire \subseteq 2 .. version

(* ON DELETE RESTRICT, in the tables and so in whatever was read of them. *)
Whole(t) == t.ref = NoCred \/ t.ref \in t.creds

AllWhole == Whole(tables) /\ Whole(snapshot.of) /\ \A s \in Slots : Whole(run[s].read)

(* A write is in the tables before its bump, and stays in them. *)
CommittedFirst ==
  \A w \in Editors :
    /\ writer[w].pc \in {"written", "bumped"} \/ writer[w].bump # 0 => w \in tables.done
    /\ writer[w].pc \in {"idle", "written"} => writer[w].bump = 0
    /\ writer[w].pc = "bumped" => writer[w].bump >= 2

(* There is one refresh at a time, and what it read is no older than the  *)
(* snapshot.                                                              *)
OneRefresh ==
  /\ run[2] = Idle
  /\ run[1].pc \in {"compare", "publish"} => snapshot.version <= run[1].version

CatalogInv ==
  CatalogTyped /\ AllWhole /\ CommittedFirst /\ OneRefresh /\ ReadInTime /\ SnapshotCurrent

(* The number of the version counts the bumps. *)
Bumped == { w \in Editors : writer[w].bump # 0 }
VersionCounts == IsFiniteSet(Bumped) /\ version = Cardinality(Bumped) + 1

LEMMA CatalogInitInv == ASSUME NEW st \in {"boot", "on", "stopped"}, CatalogStart(st) PROVE CatalogInv
<1> USE DEF CatalogStart, Idle, Empty, Tables, Slots
<1>1. CatalogTyped
  <2>1. Idle \in [pc: {"none", "read", "compare", "publish"}, version: 0 .. version, read: Tables]
    OBVIOUS
  <2>2. run \in [Slots -> [pc: {"none", "read", "compare", "publish"}, version: 0 .. version, read: Tables]]
    OBVIOUS
  <2>3. writer \in [Editors -> [pc: {"idle", "written", "bumped", "over"}, bump: 0 .. version]]
    OBVIOUS
  <2>4. tables \in Tables /\ snapshot \in [version: 0 .. version, of: Tables]
    OBVIOUS
  <2>5. version \in Nat \ {0} /\ wire \subseteq 2 .. version /\ owed \in 0 .. version
    OBVIOUS
  <2>6. pending \in BOOLEAN /\ listening \in BOOLEAN /\ state \in {"boot", "on", "stopped"}
    OBVIOUS
  <2> HIDE DEF CatalogStart, Idle, Empty, Tables, Slots
  <2> QED
    BY <2>2, <2>3, <2>4, <2>5, <2>6 DEF CatalogTyped
<1>2. AllWhole /\ CommittedFirst /\ OneRefresh /\ ReadInTime /\ SnapshotCurrent
  BY DEF AllWhole, Whole, CommittedFirst, OneRefresh, ReadInTime, SnapshotCurrent
<1> QED
  BY <1>1, <1>2 DEF CatalogInv

(* A write leaves a record of the tables that is whole. *)
LEMMA WrittenTables ==
  ASSUME NEW t \in Tables, Whole(t), NEW u \in Written(t), NEW w \in Editors
  PROVE  LET v == [u EXCEPT !.done = @ \cup {w}] IN
         v \in Tables /\ Whole(v) /\ v.done = t.done \cup {w}
  BY CatalogAssumption DEF Written, Tables, Whole

(* A step of the one refresh there is. *)
LEMMA OnlyOne ==
  ASSUME CatalogInv, NEW s \in Slots, run[s].pc # "none"
  PROVE  s = 1
  BY DEF CatalogInv, OneRefresh, Slots, Idle

(* What a trigger does, and the end of a refresh. *)
LEMMA RefreshKeeps ==
  ASSUME CatalogInv, Refresh \/ (\E s \in Slots : run[s].pc # "none" /\ Ends(s)) \/ UNCHANGED <<run, pending>>
  PROVE  /\ \/ run' = run
            \/ run' = [run EXCEPT ![1] = [Idle EXCEPT !.pc = "read"]]
            \/ run' = [run EXCEPT ![1] = Idle]
         /\ pending' \in BOOLEAN
  BY OnlyOne DEF CatalogInv, CatalogTyped, Refresh, Ends

LEMMA CatalogStep == CatalogInv /\ [CatalogNext]_catalogVars => CatalogInv'
<1> SUFFICES ASSUME CatalogInv, [CatalogNext]_catalogVars PROVE CatalogInv'
  OBVIOUS
<1> USE DEF CatalogInv
<1>1. ASSUME NEW w \in Editors, Write(w) PROVE CatalogInv'
  <2>1. PICK u \in Written(tables) : tables' = [u EXCEPT !.done = @ \cup {w}]
    BY <1>1 DEF Write
  <2>2. tables' \in Tables /\ Whole(tables') /\ tables'.done = tables.done \cup {w}
    BY <2>1, WrittenTables DEF CatalogTyped, AllWhole
  <2>3. CatalogTyped'
    BY <1>1, <2>2 DEF CatalogTyped, Write, Goes, replicaVars
  <2>4. AllWhole' /\ CommittedFirst'
    BY <1>1, <2>2 DEF CatalogTyped, AllWhole, Whole, CommittedFirst, Write, Goes, replicaVars
  <2>5. OneRefresh' /\ ReadInTime' /\ SnapshotCurrent'
    BY <1>1 DEF CatalogTyped, OneRefresh, ReadInTime, SnapshotCurrent, Write, Goes, replicaVars
  <2> QED BY <2>3, <2>4, <2>5
<1>2. ASSUME NEW w \in Editors, Bump(w) PROVE CatalogInv'
  <2>1. CatalogTyped'
    BY <1>2 DEF CatalogTyped, Bump, replicaVars
  <2>2. AllWhole' /\ CommittedFirst' /\ OneRefresh'
    BY <1>2 DEF CatalogTyped, AllWhole, Whole, CommittedFirst, OneRefresh, Bump, replicaVars
  <2>3. ReadInTime' /\ SnapshotCurrent'
    BY <1>2 DEF CatalogTyped, ReadInTime, SnapshotCurrent, Bump, replicaVars, Slots
  <2> QED BY <2>1, <2>2, <2>3
<1>3. ASSUME NEW w \in Editors, Notify(w) \/ WriterGivesUp(w) PROVE CatalogInv'
  <2>1. wire' \subseteq 2 .. version
    <3>1. writer[w].bump \in 0 .. version /\ version \in Nat
      BY DEF CatalogTyped
    <3>2. writer[w].pc = "bumped" => writer[w].bump \in 2 .. version
      BY <3>1 DEF CommittedFirst
    <3> QED
      BY <1>3, <3>2 DEF Notify, WriterGivesUp, CatalogTyped
  <2>2. CatalogTyped'
    BY <1>3, <2>1 DEF CatalogTyped, Notify, WriterGivesUp, Goes, replicaVars
  <2>3. AllWhole' /\ CommittedFirst' /\ OneRefresh'
    BY <1>3 DEF CatalogTyped, AllWhole, Whole, CommittedFirst, OneRefresh, Notify, WriterGivesUp, Goes, replicaVars
  <2>4. ReadInTime' /\ SnapshotCurrent'
    BY <1>3 DEF CatalogTyped, ReadInTime, SnapshotCurrent, Notify, WriterGivesUp, Goes, replicaVars, Slots
  <2> QED BY <2>2, <2>3, <2>4
<1>4. ASSUME UNCHANGED <<tables, version, writer, snapshot>>,
             Refresh \/ (\E s \in Slots : run[s].pc # "none" /\ Ends(s)) \/ UNCHANGED <<run, pending>>,
             wire' \subseteq wire, state' \in {"boot", "on", "stopped"}, listening' \in BOOLEAN,
             owed' \in 0 .. version
      PROVE  CatalogInv'
  <2>1. CatalogTyped'
    BY <1>4, RefreshKeeps DEF CatalogTyped, Idle, Slots, Empty, Tables
  <2>2. AllWhole'
    BY <1>4, RefreshKeeps DEF CatalogTyped, AllWhole, Whole, Idle, Slots, Empty
  <2>4. CommittedFirst' /\ OneRefresh'
    BY <1>4, RefreshKeeps DEF CatalogTyped, CommittedFirst, OneRefresh, Idle, Slots
  <2>3. ReadInTime' /\ SnapshotCurrent'
    BY <1>4, RefreshKeeps DEF CatalogTyped, ReadInTime, SnapshotCurrent, Idle, Slots
  <2> QED BY <2>1, <2>2, <2>3, <2>4
<1>5. ASSUME NEW n \in wire, Deliver(n) PROVE CatalogInv'
  BY <1>4, <1>5 DEF Deliver, CatalogTyped
<1>6. CASE Poll \/ Started
  BY <1>4, <1>6 DEF Poll, Started, CatalogTyped, dbVars
<1>7. CASE StopListening
  <2>1. CatalogTyped'
    BY <1>7 DEF CatalogTyped, StopListening, dbVars
  <2> QED
    BY <1>7, <2>1 DEF StopListening, dbVars, AllWhole, Whole, CommittedFirst, OneRefresh, ReadInTime, SnapshotCurrent
<1>8. ASSUME NEW s \in Slots, RefreshFails(s) PROVE CatalogInv'
  BY <1>4, <1>8 DEF RefreshFails, CatalogTyped, dbVars
<1>9. ASSUME NEW s \in Slots, ReadVersion(s) \/ Unchanged(s) \/ Load(s) PROVE CatalogInv'
  <2>1. s = 1
    BY <1>9, OnlyOne DEF ReadVersion, Unchanged, Load
  <2>2. CatalogTyped'
    BY <1>9, <2>1 DEF CatalogTyped, ReadVersion, Unchanged, Load, dbVars, Idle, Empty, Tables, Slots
  <2>3. AllWhole' /\ CommittedFirst'
    BY <1>9, <2>1 DEF CatalogTyped, AllWhole, Whole, CommittedFirst, ReadVersion, Unchanged, Load, dbVars, Idle, Empty, Slots
  <2>4. OneRefresh' /\ SnapshotCurrent'
    BY <1>9, <2>1 DEF CatalogTyped, OneRefresh, SnapshotCurrent, ReadVersion, Unchanged, Load, dbVars, Idle, Slots
  <2>5. ReadInTime'
    BY <1>9, <2>1 DEF CatalogTyped, ReadInTime, CommittedFirst, ReadVersion, Unchanged, Load, dbVars, Idle, Slots
  <2> QED BY <2>2, <2>3, <2>4, <2>5
<1>10. ASSUME NEW s \in Slots, Publish(s) PROVE CatalogInv'
  <2>1. s = 1
    BY <1>10, OnlyOne DEF Publish
  <2>2. /\ \/ run' = [run EXCEPT ![1] = [Idle EXCEPT !.pc = "read"]]
           \/ run' = [run EXCEPT ![1] = Idle]
        /\ pending' \in BOOLEAN
    BY <1>10, <2>1 DEF Publish, Ends, CatalogTyped
  <2>3. CatalogTyped'
    BY <1>10, <2>1, <2>2 DEF CatalogTyped, Publish, dbVars, Idle, Empty, Tables, Slots
  <2>4. AllWhole' /\ CommittedFirst'
    BY <1>10, <2>1, <2>2 DEF CatalogTyped, AllWhole, Whole, CommittedFirst, Publish, dbVars, Idle, Empty, Slots
  <2>5. OneRefresh' /\ ReadInTime' /\ SnapshotCurrent'
    BY <1>10, <2>1, <2>2 DEF CatalogTyped, OneRefresh, ReadInTime, SnapshotCurrent, Publish, dbVars, Idle, Slots
  <2> QED BY <2>3, <2>4, <2>5
<1>11. CASE UNCHANGED catalogVars
  BY <1>11 DEF catalogVars, CatalogTyped, AllWhole, Whole, CommittedFirst, OneRefresh, ReadInTime, SnapshotCurrent
<1> QED
  BY <1>1, <1>2, <1>3, <1>5, <1>6, <1>7, <1>8, <1>9, <1>10, <1>11 DEF CatalogNext, Proceed

(* The version and the bumps. *)
LEMMA VersionStep ==
  ASSUME CatalogInv, VersionCounts, [CatalogNext]_catalogVars
  PROVE  VersionCounts'
<1>1. ASSUME NEW w \in Editors, Bump(w) PROVE VersionCounts'
  <2>1. Bumped' = Bumped \cup {w} /\ w \notin Bumped /\ version' = version + 1
    BY <1>1 DEF Bumped, Bump, CatalogInv, CatalogTyped, CommittedFirst
  <2>2. IsFiniteSet(Bumped) /\ Cardinality(Bumped) \in Nat
    BY FS_CardinalityType DEF VersionCounts
  <2>3. IsFiniteSet(Bumped') /\ Cardinality(Bumped') = Cardinality(Bumped) + 1
    BY <2>1, <2>2, FS_AddElement
  <2> QED
    BY <2>1, <2>2, <2>3 DEF VersionCounts
<1>2. CASE ~ \E w \in Editors : Bump(w)
  <2>1. version' = version
    BY <1>2 DEF CatalogNext, catalogVars, Write, Notify, WriterGivesUp, Deliver, Poll, Started, StopListening,
      Proceed, ReadVersion, Unchanged, Load, Publish, RefreshFails, dbVars
  <2>2. writer' = writer \/ \E w \in Editors, pc \in {"written", "over"} : Goes(w, pc)
    BY <1>2 DEF CatalogNext, catalogVars, Write, Notify, WriterGivesUp, Deliver, Poll, Started, StopListening,
      Proceed, ReadVersion, Unchanged, Load, Publish, RefreshFails, dbVars
  <2>3. \A w \in Editors : writer'[w].bump = writer[w].bump
    BY <2>2 DEF Goes, CatalogInv, CatalogTyped
  <2> QED
    BY <2>1, <2>3 DEF VersionCounts, Bumped
<1> QED
  BY <1>1, <1>2

LEMMA CatalogTypes == CatalogInv /\ VersionCounts => CatalogTypeOK
<1> SUFFICES ASSUME CatalogInv, VersionCounts PROVE CatalogTypeOK
  OBVIOUS
<1>1. version \in 1 .. Cardinality(Editors) + 1
  <2>1. Bumped \in SUBSET Editors
    BY DEF Bumped
  <2>2. Cardinality(Bumped) <= Cardinality(Editors) /\ Cardinality(Bumped) \in Nat /\ Cardinality(Editors) \in Nat
    BY <2>1, EditorsAssumption, FS_Subset, FS_CardinalityType
  <2> QED
    BY <2>2 DEF VersionCounts
<1> QED
  BY <1>1 DEF CatalogInv, CatalogTyped, CatalogTypeOK

LEMMA CatalogAlways == CatalogSpec => []CatalogInv
<1>1. CatalogInit => CatalogInv
  BY CatalogInitInv DEF CatalogInit
<1> QED
  BY <1>1, CatalogStep, PTL DEF CatalogSpec

(* Every snapshot that is published is one the tables went through, late   *)
(* only by writes its version does not count, and whole, whatever is       *)
(* written while it is loaded and however often refreshes fail.            *)
THEOREM SnapshotsSound == CatalogSpec => []SnapshotSound
<1>1. CatalogInv => SnapshotSound
  BY DEF CatalogInv, AllWhole, Whole, SnapshotSound, NoHole
<1> QED
  BY <1>1, CatalogAlways, PTL

LEMMA NotBack ==
  CatalogInv /\ [CatalogNext]_catalogVars => [snapshot'.version >= snapshot.version]_catalogVars
<1>1. ASSUME CatalogInv, CatalogNext PROVE snapshot'.version >= snapshot.version
  <2>1. ASSUME NEW s \in Slots, Publish(s) PROVE snapshot'.version >= snapshot.version
    <3>1. s = 1
      BY <1>1, <2>1, OnlyOne DEF Publish
    <3> QED
      BY <1>1, <2>1, <3>1 DEF Publish, CatalogInv, OneRefresh, CatalogTyped
  <2>2. CASE ~ \E s \in Slots : Publish(s)
    <3>1. snapshot' = snapshot
      BY <1>1, <2>2 DEF CatalogNext, Write, Bump, Notify, WriterGivesUp, Deliver, Poll, Started, StopListening,
        Proceed, ReadVersion, Unchanged, Load, RefreshFails, replicaVars
    <3> QED
      BY <1>1, <3>1 DEF CatalogInv, CatalogTyped
  <2> QED
    BY <2>1, <2>2
<1> QED
  BY <1>1 DEF catalogVars

(* No refresh publishes an older version over a newer one. *)
THEOREM VersionNeverBack == CatalogSpec => NeverBack
  BY NotBack, CatalogAlways, PTL DEF CatalogSpec, NeverBack

-----------------------------------------------------------------------------
(* The parts of MCRouter side by side. *)

LEMMA RouterTypes == RouterInv => RouterTypeOK
<1> SUFFICES ASSUME RouterInv PROVE RouterTypeOK
  OBVIOUS
<1> USE DEF RouterInv, RouterTyped
<1>1. CallTyped /\ CacheTyped
  OBVIOUS
<1>2. MeterTyped /\ StopTyped
  OBVIOUS
<1> QED
  BY <1>1, <1>2 DEF CallTyped, CacheTyped, MeterTyped, StopTyped, RouterTypeOK

(* Whichever part moves, a part takes a step of its own or none.           *)
LEMMA RouterPartsStep ==
  [MCNext]_mcVars => [Next]_vars /\ [RouterNext]_routerVars /\ [CatalogNext]_catalogVars
BY DEF MCNext, mcVars, RouterNext

RouterPartsInv == LogInv /\ RouterInv /\ CatalogInv /\ VersionCounts

(* The parts begin where their invariants hold, at rest or not.            *)
LEMMA RouterPartsAlways == MCSpec => []RouterPartsInv
<1>1. MCInit => RouterPartsInv
  <2> SUFFICES ASSUME MCInit PROVE RouterPartsInv
    OBVIOUS
  <2>1. LogInv
    BY LogInit DEF MCInit
  <2>2. RouterInv
    BY RouterStartInv DEF MCInit
  <2>3. CatalogInv
    BY CatalogInitInv DEF MCInit
  <2>4. VersionCounts
    <3>1. Bumped = {} /\ version = 1
      BY DEF MCInit, CatalogStart, Bumped
    <3> QED
      BY <3>1, FS_EmptySet DEF VersionCounts
  <2> QED
    BY <2>1, <2>2, <2>3, <2>4 DEF RouterPartsInv
<1>2. RouterPartsInv /\ [MCNext]_mcVars => RouterPartsInv'
  <2> SUFFICES ASSUME RouterPartsInv, [MCNext]_mcVars PROVE RouterPartsInv'
    OBVIOUS
  <2>1. [Next]_vars /\ [RouterNext]_routerVars /\ [CatalogNext]_catalogVars
    BY RouterPartsStep
  <2> QED
    BY <2>1, LogStep, RouterStepKeeps, CatalogStep, VersionStep DEF RouterPartsInv
<1> QED
  BY <1>1, <1>2, PTL DEF MCSpec

(* Every variable of the event log, the router and the catalogue stays in  *)
(* its type, the bounds of the books and of the version included.          *)
THEOREM RouterTypesCorrect == MCSpec => []TypesOK
<1>1. RouterPartsInv => TypesOK
  BY RouterTypes, CatalogTypes DEF RouterPartsInv, LogInv, TypesOK
<1> QED
  BY <1>1, RouterPartsAlways, PTL

(* The router and the catalogue promise in the model that has them all     *)
(* what they promise alone.                                                *)
THEOREM RouterPartsHold ==
  MCSpec => [](RecordsSound /\ SnapshotSound) /\ GateCloses /\ NeverBack
<1>1. RouterPartsInv => RecordsSound /\ SnapshotSound
  BY BooksBalance DEF RouterPartsInv, CatalogInv, AllWhole, Whole, SnapshotSound, NoHole
<1>2. RouterPartsInv /\ [MCNext]_mcVars =>
        [ \A c \in Calls : call[c].pc # "send" /\ call'[c].pc = "send" /\ ~ call'[c].blind
                            => over <= BudgetTTL + StoreTravel ]_routerVars
  BY GateStep, RouterPartsStep DEF RouterPartsInv
<1>3. RouterPartsInv /\ [MCNext]_mcVars => [snapshot'.version >= snapshot.version]_catalogVars
  BY NotBack, RouterPartsStep DEF RouterPartsInv
<1> QED
  BY <1>1, <1>2, <1>3, RouterPartsAlways, PTL DEF MCSpec, GateCloses, NeverBack

(* The log of the model that has them all is one of EventLog, and so keeps *)
(* its rows, numbers them once, and implements AppendOnlyLog.              *)
THEOREM LogInRouterHolds == MCSpec => RowsStay /\ []NeverCollides /\ ImplementsLog
<1>1. MCInit => Init
  BY DEF MCInit
<1>2. MCSpec => Spec
  BY <1>1, RouterPartsStep, PTL DEF MCSpec, Spec
<1> QED
  BY <1>2, RowsNeverChange, SeqsNeverCollide, LogImplemented
=============================================================================
