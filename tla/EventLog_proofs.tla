--------------------------- MODULE EventLog_proofs ---------------------------
(***************************************************************************)
(* Proofs about EventLog.  Rows never change, whatever kinds of writers a  *)
(* run has.  When every writer assigns seqs under the advisory lock, no    *)
(* writer meets a seq that is taken, and the table is the log that         *)
(* AppendOnlyLog specifies.                                                *)
(***************************************************************************)
EXTENDS EventLog, SequenceTheorems, TLAPS

(* The unique index at work: a row that waits for its commit is the only   *)
(* one with its seq, among the committed and among the waiting.            *)
UniqueInv ==
  /\ tx \in [Writers -> {"idle", "begun", "locked", "numbered", "inserted"}]
  /\ DOMAIN seq = Writers
  /\ \A w \in Writers :
       tx[w] = "inserted" =>
         /\ seq[w] \notin DOMAIN rows
         /\ \A v \in Writers \ {w} : tx[v] = "inserted" => seq[v] # seq[w]

LEMMA UniqueInit == Init => UniqueInv
  BY DEF Init, UniqueInv

LEMMA UniqueStep == UniqueInv /\ [Next]_vars => UniqueInv'
<1> SUFFICES ASSUME UniqueInv, [Next]_vars PROVE UniqueInv'
  OBVIOUS
<1> USE DEF UniqueInv
<1>1. ASSUME NEW w \in Writers, Begin(w) \/ Lock(w) PROVE UniqueInv'
  BY <1>1 DEF Begin, Lock
<1>2. ASSUME NEW w \in Writers, Number(w) PROVE UniqueInv'
  BY <1>2 DEF Number
<1>3. ASSUME NEW w \in Writers, Insert(w) PROVE UniqueInv'
  BY <1>3 DEF Insert, Inserting
<1>4. ASSUME NEW w \in Writers, Commit(w) PROVE UniqueInv'
  BY <1>4 DEF Commit, WithRow
<1>5. ASSUME NEW w \in Writers, Rollback(w) PROVE UniqueInv'
  BY <1>5 DEF Rollback
<1>6. ASSUME NEW w \in Writers, AppendExplicit(w) PROVE UniqueInv'
  BY <1>6 DEF AppendExplicit, WithRow, Inserting
<1>7. CASE UNCHANGED vars
  BY <1>7 DEF vars
<1> QED
  BY <1>1, <1>2, <1>3, <1>4, <1>5, <1>6, <1>7 DEF Next, Step

(* No committed row is replaced or removed, by v1 and legacy writers alike. *)
THEOREM RowsNeverChange == Spec => RowsStay
<1>1. ASSUME UniqueInv, [Next]_vars
      PROVE  [\A s \in DOMAIN rows : s \in DOMAIN rows' /\ rows'[s] = rows[s]]_rows
  <2> USE DEF UniqueInv
  <2>1. ASSUME NEW w \in Writers, Commit(w)
        PROVE  \A s \in DOMAIN rows : s \in DOMAIN rows' /\ rows'[s] = rows[s]
    BY <1>1, <2>1 DEF Commit, WithRow
  <2>2. ASSUME NEW w \in Writers, AppendExplicit(w)
        PROVE  \A s \in DOMAIN rows : s \in DOMAIN rows' /\ rows'[s] = rows[s]
    BY <2>2 DEF AppendExplicit, WithRow
  <2>3. ASSUME NEW w \in Writers, Step(w), ~ Commit(w), ~ AppendExplicit(w)
        PROVE  rows' = rows
    BY <2>3 DEF Step, Begin, Lock, Number, Insert, Rollback
  <2> QED
    BY <1>1, <2>1, <2>2, <2>3 DEF Next, vars
<1> QED
  BY <1>1, UniqueInit, UniqueStep, PTL DEF Spec, RowsStay

-----------------------------------------------------------------------------
(* Types, for every mix of writers.                                        *)

(* MAX(seq) is defined: the seqs that are taken have a greatest one. *)
HasMax ==
  DOMAIN rows = {} \/ \E m \in DOMAIN rows : \A s \in DOMAIN rows : s <= m

(* A transaction belongs to an append that was called. *)
Called == \A w \in Writers : tx[w] # "idle" => sent[w] >= 1

LogInv == TypeOK /\ HasMax /\ Called

LEMMA LogInit == Init => LogInv
  BY AppendsAssumption DEF Init, LogInv, TypeOK, HasMax, Called

LEMMA NextSeqIsNat ==
  ASSUME DOMAIN rows \subseteq Nat, HasMax
  PROVE  NextSeq \in Nat
<1> DEFINE S == {1} \cup {t + 1 : t \in DOMAIN rows}
<1>1. \E s \in S : IsNextSeq(s)
  <2>1. CASE DOMAIN rows = {}
    BY <2>1 DEF IsNextSeq
  <2>2. CASE DOMAIN rows # {}
    <3>1. PICK m \in DOMAIN rows : \A s \in DOMAIN rows : s <= m
      BY <2>2 DEF HasMax
    <3>2. IsNextSeq(m + 1)
      BY <3>1 DEF IsNextSeq
    <3> QED
      BY <3>2
  <2> QED
    BY <2>1, <2>2
<1>2. NextSeq \in S
  BY <1>1 DEF NextSeq
<1> QED
  BY <1>2

LEMMA WithRowTypes ==
  ASSUME DOMAIN rows \subseteq Nat, \A t \in DOMAIN rows : rows[t] \in Rows, HasMax,
         NEW s \in Nat, NEW row \in Rows, rows' = WithRow(s, row)
  PROVE  DOMAIN rows' \subseteq Nat /\ (\A t \in DOMAIN rows' : rows'[t] \in Rows) /\ HasMax'
<1>1. DOMAIN rows' = DOMAIN rows \cup {s} /\ \A t \in DOMAIN rows' : rows'[t] \in Rows
  BY DEF WithRow
<1>2. HasMax'
  <2>1. CASE DOMAIN rows = {}
    BY <1>1, <2>1 DEF HasMax
  <2>2. CASE DOMAIN rows # {}
    <3>1. PICK m \in DOMAIN rows : \A t \in DOMAIN rows : t <= m
      BY <2>2 DEF HasMax
    <3>2. CASE s <= m
      BY <1>1, <3>1, <3>2 DEF HasMax
    <3>3. CASE m < s
      <4>1. \A t \in DOMAIN rows' : t <= s
        BY <1>1, <3>1, <3>3
      <4> QED
        BY <1>1, <4>1 DEF HasMax
    <3> QED
      BY <3>1, <3>2, <3>3
  <2> QED
    BY <2>1, <2>2
<1> QED
  BY <1>1, <1>2

LEMMA LogStep == LogInv /\ [Next]_vars => LogInv'
<1> SUFFICES ASSUME LogInv, [Next]_vars PROVE LogInv'
  OBVIOUS
<1> USE AppendsAssumption DEF LogInv, TypeOK
<1>1. ASSUME NEW w \in Writers, Begin(w) \/ Lock(w) \/ Insert(w) \/ Rollback(w) PROVE LogInv'
  BY <1>1 DEF Begin, Lock, Insert, Rollback, HasMax, Called
<1>2. ASSUME NEW w \in Writers, Number(w) PROVE LogInv'
  BY <1>2, NextSeqIsNat DEF Number, HasMax, Called
<1>3. ASSUME NEW w \in Writers, Commit(w) PROVE LogInv'
  <2>1. [by |-> w, n |-> sent[w]] \in Rows
    BY <1>3 DEF Commit, Called, Rows
  <2>2. DOMAIN rows' \subseteq Nat /\ (\A t \in DOMAIN rows' : rows'[t] \in Rows) /\ HasMax'
    BY <1>3, <2>1, WithRowTypes DEF Commit
  <2> QED
    BY <1>3, <2>2 DEF Commit, Called
<1>4. ASSUME NEW w \in Writers, AppendExplicit(w) PROVE LogInv'
  <2>1. [by |-> w, n |-> sent[w] + 1] \in Rows
    BY <1>4 DEF AppendExplicit, Rows
  <2>2. DOMAIN rows' \subseteq Nat /\ (\A t \in DOMAIN rows' : rows'[t] \in Rows) /\ HasMax'
    <3>1. CASE rows' = rows
      BY <3>1 DEF HasMax
    <3>2. CASE rows' = WithRow(sent[w], [by |-> w, n |-> sent[w] + 1])
      BY <2>1, <3>2, WithRowTypes
    <3> QED
      BY <1>4, <3>1, <3>2 DEF AppendExplicit
  <2> QED
    BY <1>4, <2>2 DEF AppendExplicit, Called
<1>5. CASE UNCHANGED vars
  BY <1>5 DEF vars, HasMax, Called
<1> QED
  BY <1>1, <1>2, <1>3, <1>4, <1>5 DEF Next, Step

-----------------------------------------------------------------------------
(* Writers that assign seqs under the lock.                                *)

(* The rows are numbered 1 .. k. *)
Dense == \E k \in Nat : rows \in [1 .. k -> Rows]

(* Only the holder of the lock has computed a seq, and it is the next one. *)
LockInv ==
  /\ \A w \in Writers : tx[w] \in {"locked", "numbered", "inserted"} => lock = w
  /\ \A w \in Writers : tx[w] \in {"numbered", "inserted"} => IsNextSeq(seq[w])

(* The append under way is the last one its writer called, and is not yet  *)
(* in the table.                                                           *)
SentInv ==
  /\ \A s \in DOMAIN rows : rows[s].n <= sent[rows[s].by]
  /\ \A w \in Writers : tx[w] # "idle" =>
       /\ sent[w] # 0
       /\ \A s \in DOMAIN rows : rows[s].by = w => rows[s].n < sent[w]

V1Inv == TypeOK /\ Dense /\ LockInv /\ SentInv

LEMMA V1Init == Init => V1Inv
<1> SUFFICES ASSUME Init PROVE V1Inv
  OBVIOUS
<1>1. TypeOK /\ LockInv /\ SentInv
  BY AppendsAssumption DEF Init, TypeOK, LockInv, SentInv
<1>2. rows \in [1 .. 0 -> Rows]
  BY DEF Init
<1> QED
  BY <1>1, <1>2 DEF V1Inv, Dense

(* The next seq exists and is the one behind the last row. *)
LEMMA NextOfDense ==
  ASSUME NEW k \in Nat, rows \in [1 .. k -> Rows]
  PROVE  /\ IsNextSeq(NextSeq) /\ NextSeq \in Nat
         /\ \A s \in Nat : IsNextSeq(s) => s = k + 1
<1>1. IsNextSeq(k + 1)
  BY DEF IsNextSeq
<1>2. k + 1 \in {1} \cup {t + 1 : t \in DOMAIN rows}
  <2>1. CASE k = 0
    BY <2>1
  <2>2. CASE k # 0
    <3>1. k \in DOMAIN rows
      BY <2>2
    <3> QED
      BY <3>1
  <2> QED
    BY <2>1, <2>2
<1>3. IsNextSeq(NextSeq) /\ NextSeq \in {1} \cup {t + 1 : t \in DOMAIN rows}
  BY <1>1, <1>2 DEF NextSeq
<1>4. ASSUME NEW s \in Nat, IsNextSeq(s) PROVE s = k + 1
  BY <1>4 DEF IsNextSeq
<1> QED
  BY <1>3, <1>4

(* A commit appends to the rows as to a sequence. *)
LEMMA CommitAppends ==
  ASSUME V1Inv, legacy = {}, NEW w \in Writers, Commit(w)
  PROVE  LET row == [by |-> w, n |-> sent[w]] IN
         /\ row \in Rows
         /\ rows \in Seq(Rows)
         /\ seq[w] = Len(rows) + 1
         /\ rows' = Append(rows, row)
         /\ rows' \in [1 .. Len(rows) + 1 -> Rows]
<1> DEFINE row == [by |-> w, n |-> sent[w]]
<1>1. row \in Rows
  BY AppendsAssumption DEF V1Inv, TypeOK, SentInv, Commit, Rows
<1> HIDE DEF row
<1>2. PICK k \in Nat : rows \in [1 .. k -> Rows]
  BY DEF V1Inv, Dense
<1>3. seq[w] = k + 1
  BY <1>2, NextOfDense DEF V1Inv, LockInv, TypeOK, Commit
<1>4. rows \in Seq(Rows) /\ Len(rows) = k
  BY <1>2
<1>5. rows' = [t \in 1 .. k + 1 |-> IF t = k + 1 THEN row ELSE rows[t]]
  <2>1. DOMAIN rows \cup {k + 1} = 1 .. k + 1
    BY <1>2
  <2> QED
    BY <1>3, <2>1 DEF Commit, WithRow, row
<1>6. rows' \in [1 .. k + 1 -> Rows]
  BY <1>1, <1>2, <1>5
<1>7. rows' = Append(rows, row)
  <2>1. rows' \in Seq(Rows) /\ Len(rows') = k + 1
    BY <1>6
  <2>2. /\ Append(rows, row) \in Seq(Rows)
        /\ Len(Append(rows, row)) = k + 1
        /\ \A i \in 1 .. k : Append(rows, row)[i] = rows[i]
        /\ Append(rows, row)[k + 1] = row
    BY <1>1, <1>4, AppendProperties
  <2>3. \A i \in 1 .. k + 1 : rows'[i] = Append(rows, row)[i]
    BY <1>5, <2>2
  <2> QED
    BY <2>1, <2>2, <2>3, SeqEqual
<1> QED
  BY <1>1, <1>3, <1>4, <1>6, <1>7 DEF row

LEMMA V1Step == V1Inv /\ [Next]_vars /\ legacy = {} => V1Inv'
<1> SUFFICES ASSUME V1Inv, [Next]_vars, legacy = {} PROVE V1Inv'
  OBVIOUS
<1> USE AppendsAssumption, WritersAssumption DEF V1Inv, TypeOK, LockInv, SentInv
<1>1. ASSUME NEW w \in Writers, Begin(w) PROVE V1Inv'
  <2>1. Dense'
    BY <1>1 DEF Begin, Dense
  <2> QED
    BY <1>1, <2>1 DEF Begin, IsNextSeq, Rows
<1>2. ASSUME NEW w \in Writers, Lock(w) PROVE V1Inv'
  <2>1. Dense'
    BY <1>2 DEF Lock, Dense
  <2> QED
    BY <1>2, <2>1 DEF Lock, IsNextSeq
<1>3. ASSUME NEW w \in Writers, Number(w) PROVE V1Inv'
  <2>1. IsNextSeq(NextSeq)
    BY NextOfDense DEF Dense
  <2>2. NextSeq \in Nat
    BY NextOfDense DEF Dense
  <2>3. Dense'
    BY <1>3 DEF Number, Dense
  <2>4. \A v \in Writers : seq'[v] = IF v = w THEN NextSeq ELSE seq[v]
    BY <1>3 DEF Number
  <2>5. TypeOK' /\ SentInv'
    BY <1>3, <2>2 DEF Number
  <2>6. LockInv'
    BY <1>3, <2>1, <2>4 DEF Number, IsNextSeq
  <2> QED
    BY <2>3, <2>5, <2>6
<1>4. ASSUME NEW w \in Writers, Insert(w) PROVE V1Inv'
  <2>1. Dense'
    BY <1>4 DEF Insert, Dense
  <2> QED
    BY <1>4, <2>1 DEF Insert, IsNextSeq
<1>5. ASSUME NEW w \in Writers, Commit(w) PROVE V1Inv'
  <2> DEFINE row == [by |-> w, n |-> sent[w]]
  <2>1. /\ row \in Rows /\ rows' \in [1 .. Len(rows) + 1 -> Rows] /\ Len(rows) \in Nat
        /\ rows \in Seq(Rows) /\ rows' = Append(rows, row)
    BY <1>5, CommitAppends
  <2>2. Dense'
    <3>1. Len(rows) + 1 \in Nat
      BY <2>1
    <3> QED
      BY <2>1, <3>1 DEF Dense
  <2>3. /\ DOMAIN rows' = DOMAIN rows \cup {seq[w]}
        /\ \A s \in DOMAIN rows' : rows'[s] = IF s = seq[w] THEN row ELSE rows[s]
    BY <1>5 DEF Commit, WithRow
  <2>4. TypeOK'
    <3>1. seq[w] \in Nat /\ DOMAIN rows \subseteq Nat /\ DOMAIN rows' \subseteq Nat
      BY <2>3
    <3>2. \A s \in DOMAIN rows' : rows'[s] \in Rows
      BY <2>1, <2>3
    <3> QED
      BY <1>5, <3>1, <3>2 DEF Commit
  <2>5. LockInv'
    BY <1>5 DEF Commit
  <2>6. SentInv'
    BY <1>5, <2>3 DEF Commit, Rows
  <2> QED
    BY <2>2, <2>4, <2>5, <2>6
<1>6. ASSUME NEW w \in Writers, Rollback(w) PROVE V1Inv'
  <2>1. Dense'
    BY <1>6 DEF Rollback, Dense
  <2> QED
    BY <1>6, <2>1 DEF Rollback, IsNextSeq
<1>7. ASSUME NEW w \in Writers, AppendExplicit(w) PROVE FALSE
  BY <1>7 DEF AppendExplicit
<1>8. CASE UNCHANGED vars
  BY <1>8 DEF vars, Dense, IsNextSeq
<1> QED
  BY <1>1, <1>2, <1>3, <1>4, <1>5, <1>6, <1>7, <1>8 DEF Next, Step

(* Which writers are legacy writers never changes. *)
LEMMA LegacyFixed == [Next]_vars => legacy' = legacy
  BY DEF Next, Step, Begin, Lock, Number, Insert, Commit, Rollback, AppendExplicit, vars

(* What holds of a run without legacy writers. *)
GuardedInv == legacy = {} => V1Inv

LEMMA GuardedInit == Init => GuardedInv
  BY V1Init DEF GuardedInv

LEMMA GuardedStep == GuardedInv /\ [Next]_vars => GuardedInv'
  BY V1Step, LegacyFixed DEF GuardedInv

(* A v1 writer never meets the unique index: the seq it computed is free.  *)
THEOREM SeqsNeverCollide == Spec => []NeverCollides
<1>1. GuardedInv => NeverCollides
  <2> SUFFICES ASSUME V1Inv, NEW w \in V1, tx[w] = "numbered"
               PROVE  seq[w] \notin DOMAIN rows /\ ~ Inserting(seq[w])
    BY DEF NeverCollides, GuardedInv
  <2>1. seq[w] \in Nat /\ \A t \in DOMAIN rows : t < seq[w]
    BY DEF V1Inv, LockInv, IsNextSeq, V1, TypeOK
  <2>2. seq[w] \notin DOMAIN rows
    BY <2>1
  <2>3. ~ Inserting(seq[w])
    BY DEF V1Inv, LockInv, Inserting, V1
  <2> QED
    BY <2>2, <2>3
<1> QED
  BY <1>1, GuardedInit, GuardedStep, PTL DEF Spec

(* The transactions implement the log the readers rely on. *)
THEOREM LogImplemented == Spec => ImplementsLog
<1>1. Init => Log!LogInit
  <2> SUFFICES ASSUME Init PROVE rows = <<>>
    BY DEF Log!LogInit, V1Rows
  <2>1. rows \in [1 .. 0 -> {}]
    BY DEF Init
  <2>2. rows \in Seq({}) /\ Len(rows) = 0
    BY <2>1
  <2> QED
    BY <2>2
<1>2. ASSUME V1Inv, [Next]_vars, legacy = {} PROVE [Log!LogNext]_V1Rows
  <2>0. V1Rows = rows /\ V1Rows' = rows'
    BY <1>2, LegacyFixed DEF V1Rows
  <2>1. ASSUME NEW w \in Writers, Commit(w) PROVE Log!LogNext
    <3> DEFINE row == [by |-> w, n |-> sent[w]]
    <3>1. row \in Rows /\ rows' = Append(rows, row)
      BY <1>2, <2>1, CommitAppends
    <3>2. \A i \in DOMAIN rows : rows[i].by = w => rows[i].n < sent[w]
      BY <1>2, <2>1 DEF V1Inv, SentInv, Commit
    <3>3. Log!AppendEntry(row)
      BY <2>0, <3>1, <3>2 DEF Log!AppendEntry
    <3>4. row \in Log!Entries
      BY <3>1 DEF Rows, Log!Entries
    <3> QED
      BY <3>3, <3>4 DEF Log!LogNext
  <2>2. ASSUME NEW w \in Writers, AppendExplicit(w) PROVE FALSE
    BY <1>2, <2>2 DEF AppendExplicit
  <2>3. ASSUME NEW w \in Writers, Step(w), ~ Commit(w), ~ AppendExplicit(w) PROVE rows' = rows
    BY <2>3 DEF Step, Begin, Lock, Number, Insert, Rollback
  <2> QED
    BY <1>2, <2>0, <2>1, <2>2, <2>3 DEF Next, vars
<1>3. ASSUME GuardedInv, [Next]_vars PROVE [Log!LogNext]_V1Rows
  <2>1. CASE legacy = {}
    BY <1>2, <1>3, <2>1 DEF GuardedInv
  <2>2. CASE legacy # {}
    BY <1>3, <2>2, LegacyFixed DEF V1Rows
  <2> QED
    BY <2>1, <2>2
<1> QED
  BY <1>1, <1>3, GuardedInit, GuardedStep, PTL DEF Spec, ImplementsLog, Log!Spec
=============================================================================
