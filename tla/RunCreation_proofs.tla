------------------------- MODULE RunCreation_proofs -------------------------
(***************************************************************************)
(* Proofs about RunCreation, for any number of requests, agents, keys and  *)
(* bodies, any window, and with or without lost connections.               *)
(*                                                                         *)
(* The inductive invariant says what a transaction knows while it holds    *)
(* the advisory lock: it is the only one of its key that does              *)
(* (LockInv), and a request that is about to insert has an empty window    *)
(* (FreeInv).  Its row is made at or after the moment its window is        *)
(* counted from (TimeInv), so the row cannot come into the window of an    *)
(* older one.                                                              *)
(***************************************************************************)
EXTENDS RunCreation, TLAPS

InTx == {"begin", "lock", "lookup", "insert"}

AskInv ==
  \A r \in Requests :
    /\ At(r, "idle") <=> req[r].ask = NoAsk
    /\ ~ At(r, "replied") <=> req[r].reply = "none"
    /\ At(r, "plain") => req[r].ask.key = None
    /\ req[r].pc \in InTx => req[r].ask.key # None
    /\ ~ At(r, "replied") => req[r].got = None

TimeInv ==
  /\ clock <= MaxClock
  /\ \A r \in Requests :
       /\ req[r].now <= clock
       /\ req[r].pc \in {"lock", "lookup", "insert"} =>
            req[r].now <= req[r].created /\ req[r].created <= clock

LockInv ==
  /\ \A r \in Requests : r \in holds <=> req[r].pc \in {"lookup", "insert"}
  /\ \A r, s \in holds : ScopedKey(req[r].ask) = ScopedKey(req[s].ask) => r = s

FreeInv == \A r \in Requests : At(r, "insert") => InWindow(r) = {}

IInv == TypeOK /\ AskInv /\ TimeInv /\ LockInv /\ FreeInv /\ OneRunPerWindow /\ RepliesMatch

-----------------------------------------------------------------------------

(* A scoped key determines the task and the key of the client.             *)
LEMMA ScopedKeyInjective ==
  ASSUME NEW a \in Asks, NEW b \in Asks
  PROVE  ScopedKey(a) = ScopedKey(b) <=> a.task = b.task /\ a.key = b.key
BY DEF ScopedKey, Asks

LEMMA InitIInv == Init => IInv
<1> SUFFICES ASSUME Init PROVE IInv
  OBVIOUS
<1> USE NoneAssumption, WindowAssumption DEF Init
<1>1. TypeOK
  BY DEF TypeOK, Rows, NoAsk
<1>2. AskInv /\ TimeInv
  BY DEF AskInv, TimeInv, At, InTx, NoAsk
<1>3. LockInv /\ FreeInv /\ OneRunPerWindow /\ RepliesMatch
  BY DEF LockInv, FreeInv, OneRunPerWindow, RepliesMatch, At
<1> QED
  BY <1>1, <1>2, <1>3 DEF IInv

LEMMA TypeStep == TypeOK /\ AskInv /\ [Next]_vars => TypeOK'
<1> SUFFICES ASSUME TypeOK, AskInv, [Next]_vars PROVE TypeOK'
  OBVIOUS
<1> USE NoneAssumption DEF TypeOK
<1>1. ASSUME NEW r \in Requests, NEW ask \in Asks, Arrive(r, ask) PROVE TypeOK'
  BY <1>1 DEF Arrive
<1>2. ASSUME NEW r \in Requests, PlainInsert(r) PROVE TypeOK'
  <2>1. req[r].ask \in Asks
    BY <1>2 DEF PlainInsert, AskInv, At
  <2>2. [NewRow(r) EXCEPT !.created = clock] \in Rows
    BY <2>1 DEF NewRow, Rows
  <2>3. [NewRow(r) EXCEPT !.created = clock].by = r
    BY DEF NewRow
  <2> QED
    BY <1>2, <2>2, <2>3 DEF PlainInsert, AnsweredWith, Answered
<1>3. ASSUME NEW r \in Requests, Begin(r) \/ Lock(r) \/ Miss(r) PROVE TypeOK'
  BY <1>3 DEF Begin, Lock, Miss
<1>4. ASSUME NEW r \in Requests, Replay(r) \/ Conflict(r) \/ Abort(r) PROVE TypeOK'
  BY <1>4 DEF Replay, Conflict, Abort, AnsweredWith, Answered, Rows
<1>5. ASSUME NEW r \in Requests, Commit(r) PROVE TypeOK'
  <2>1. req[r].ask \in Asks
    BY <1>5 DEF Commit, AskInv, At
  <2>2. NewRow(r) \in Rows /\ NewRow(r).by = r
    BY <2>1 DEF NewRow, Rows
  <2> QED
    BY <1>5, <2>2 DEF Commit, AnsweredWith, Answered
<1>6. CASE Tick
  BY <1>6 DEF Tick
<1>7. CASE UNCHANGED vars
  BY <1>7 DEF vars
<1> QED
  BY <1>1, <1>2, <1>3, <1>4, <1>5, <1>6, <1>7 DEF Next, Handle

(* What a request did does not change what the others are about.           *)
LEMMA LocalStep == IInv /\ TypeOK' /\ [Next]_vars => AskInv' /\ TimeInv'
<1> SUFFICES ASSUME IInv, TypeOK', [Next]_vars PROVE AskInv' /\ TimeInv'
  OBVIOUS
<1> USE NoneAssumption, WindowAssumption DEF IInv, TypeOK, AskInv, TimeInv, At, InTx
<1>1. ASSUME NEW r \in Requests, NEW ask \in Asks, Arrive(r, ask) PROVE AskInv' /\ TimeInv'
  <2>1. ask # NoAsk
    BY DEF Asks, NoAsk
  <2>2. req' = [req EXCEPT ![r] =
                  [ pc |-> IF ask.key = None THEN "plain" ELSE "begin", ask |-> ask,
                    now |-> clock, created |-> 0, reply |-> "none", got |-> None ]]
        /\ clock' = clock /\ req[r].pc = "idle"
    BY <1>1 DEF Arrive
  <2>3. AskInv'
    BY <2>1, <2>2
  <2>4. TimeInv'
    BY <2>2
  <2> QED
    BY <2>3, <2>4
<1>2. ASSUME NEW r \in Requests, Begin(r) \/ Lock(r) \/ Miss(r) PROVE AskInv' /\ TimeInv'
  BY <1>2 DEF Begin, Lock, Miss
<1>3. ASSUME NEW r \in Requests, NEW what \in {"run", "conflict", "crossed", "error"}, NEW by,
             Answered(r, what, by), clock' = clock, req[r].pc \in InTx \cup {"plain"}
      PROVE  AskInv' /\ TimeInv'
  BY <1>3 DEF Answered
<1>4. ASSUME NEW r \in Requests,
             PlainInsert(r) \/ Replay(r) \/ Conflict(r) \/ Abort(r) \/ Commit(r)
      PROVE  AskInv' /\ TimeInv'
  BY <1>3, <1>4 DEF PlainInsert, Replay, Conflict, Abort, Commit, AnsweredWith
<1>5. CASE Tick
  BY <1>5 DEF Tick
<1>6. CASE UNCHANGED vars
  BY <1>6 DEF vars
<1> QED
  BY <1>1, <1>2, <1>4, <1>5, <1>6 DEF Next, Handle

LEMMA LockStep == IInv /\ TypeOK' /\ [Next]_vars => LockInv'
<1> SUFFICES ASSUME IInv, TypeOK', [Next]_vars PROVE LockInv'
  OBVIOUS
<1> USE DEF IInv, TypeOK, LockInv, At
<1>1. ASSUME NEW r \in Requests, NEW ask \in Asks, Arrive(r, ask) PROVE LockInv'
  <2>1. r \notin holds /\ r \notin holds'
    BY <1>1 DEF Arrive
  <2>2. \A s \in Requests \ {r} : req'[s] = req[s]
    BY <1>1 DEF Arrive
  <2>3. req'[r].pc \notin {"lookup", "insert"} /\ holds' = holds
    BY <1>1 DEF Arrive
  <2> QED
    BY <2>1, <2>2, <2>3 DEF ScopedKey
<1>2. ASSUME NEW r \in Requests, Begin(r) \/ Miss(r) PROVE LockInv'
  BY <1>2 DEF Begin, Miss, ScopedKey
<1>3. ASSUME NEW r \in Requests, Lock(r) PROVE LockInv'
  <2>1. /\ holds' = holds \cup {r}
        /\ \A s \in Requests : req'[s].ask = req[s].ask
        /\ \A s \in Requests \ {r} : req'[s].pc = req[s].pc
        /\ req'[r].pc = "lookup"
    BY <1>3 DEF Lock
  <2>2. \A s \in holds : ScopedKey(req[s].ask) # ScopedKey(req[r].ask)
    BY <1>3 DEF Lock
  <2>3. \A s \in Requests : ScopedKey(req'[s].ask) = ScopedKey(req[s].ask)
    BY <2>1 DEF ScopedKey
  <2> QED
    BY <2>1, <2>2, <2>3
<1>4. ASSUME NEW r \in Requests, NEW what, NEW by, Answered(r, what, by) PROVE LockInv'
  BY <1>4 DEF Answered, ScopedKey
<1>5. ASSUME NEW r \in Requests,
             PlainInsert(r) \/ Replay(r) \/ Conflict(r) \/ Abort(r) \/ Commit(r)
      PROVE  LockInv'
  BY <1>4, <1>5 DEF PlainInsert, Replay, Conflict, Abort, Commit, AnsweredWith
<1>6. CASE Tick
  BY <1>6 DEF Tick, ScopedKey
<1>7. CASE UNCHANGED vars
  BY <1>7 DEF vars, ScopedKey
<1> QED
  BY <1>1, <1>2, <1>3, <1>5, <1>6, <1>7 DEF Next, Handle

(* The two steps that make a row; the row of Commit is for an empty window. *)
NewRowStep(r, row) ==
  /\ row \in Rows
  /\ runs' = runs \cup {row}
  /\ row.ask = req[r].ask
  /\ \/ row.ask.key = None
     \/ At(r, "insert") /\ InWindow(r) = {} /\ req[r].now <= row.created

LEMMA MakerStep ==
  ASSUME IInv, NEW r \in Requests, PlainInsert(r) \/ Commit(r), runs' # runs
  PROVE  \E row \in Rows : NewRowStep(r, row)
<1> USE DEF IInv, TypeOK, AskInv, TimeInv, FreeInv, At, InTx
<1>1. CASE PlainInsert(r)
  <2> DEFINE row == [NewRow(r) EXCEPT !.created = clock]
  <2>1. req[r].ask \in Asks /\ req[r].ask.key = None
    BY <1>1 DEF PlainInsert
  <2>2. row \in Rows /\ row.ask = req[r].ask
    BY <2>1 DEF NewRow, Rows
  <2>3. runs' = runs \cup {row}
    BY <1>1 DEF PlainInsert
  <2> QED
    BY <2>1, <2>2, <2>3 DEF NewRowStep
<1>2. CASE Commit(r)
  <2>1. req[r].ask \in Asks /\ At(r, "insert") /\ InWindow(r) = {}
    BY <1>2 DEF Commit
  <2>2. NewRow(r) \in Rows /\ NewRow(r).ask = req[r].ask /\ req[r].now <= NewRow(r).created
    BY <2>1 DEF NewRow, Rows
  <2>3. runs' = runs \cup {NewRow(r)}
    BY <1>2 DEF Commit
  <2> QED
    BY <2>1, <2>2, <2>3 DEF NewRowStep
<1> QED
  BY <1>1, <1>2

LEMMA RowsStep ==
  IInv /\ [Next]_vars =>
    runs' = runs \/ \E r \in Requests : \E row \in Rows : NewRowStep(r, row)
<1> SUFFICES ASSUME IInv, [Next]_vars, runs' # runs
             PROVE  \E r \in Requests : \E row \in Rows : NewRowStep(r, row)
  OBVIOUS
<1>1. PICK r \in Requests : PlainInsert(r) \/ Commit(r)
  BY DEF Next, Handle, Arrive, Begin, Lock, Replay, Conflict, Miss, Abort, Tick, vars
<1> QED
  BY <1>1, MakerStep

(* A new row of a key is more than a window younger than all others.       *)
LEMMA WindowStep == IInv /\ TypeOK' /\ [Next]_vars => OneRunPerWindow'
<1> SUFFICES ASSUME IInv, TypeOK', [Next]_vars PROVE OneRunPerWindow'
  OBVIOUS
<1> USE DEF IInv
<1>1. CASE runs' = runs
  BY <1>1 DEF OneRunPerWindow, ScopedKey
<1>2. ASSUME NEW r \in Requests, NEW row \in Rows, NewRowStep(r, row)
      PROVE  OneRunPerWindow'
  <2>1. ASSUME NEW x \in runs, x.ask.key # None, ScopedKey(x.ask) = ScopedKey(row.ask)
        PROVE  x.created + Window < row.created
    <3>1. x \in Rows /\ x.ask \in Asks /\ row.ask \in Asks
      BY <2>1 DEF TypeOK, Rows
    <3>2. row.ask.key # None
      BY <2>1, <3>1, ScopedKeyInjective
    <3>3. InWindow(r) = {} /\ req[r].now <= row.created /\ row.ask = req[r].ask
      BY <1>2, <3>2 DEF NewRowStep
    <3>4. ~ (x.created + Window >= req[r].now)
      BY <2>1, <3>3 DEF InWindow
    <3> QED
      BY <3>1, <3>3, <3>4, WindowAssumption DEF TypeOK, Rows
  <2>2. ASSUME NEW x \in runs', NEW y \in runs',
               x.ask.key # None, ScopedKey(x.ask) = ScopedKey(y.ask),
               x.created <= y.created, x # y
        PROVE  x.created + Window < y.created
    <3>1. runs' = runs \cup {row}
      BY <1>2 DEF NewRowStep
    <3>2. x \in Rows /\ y \in Rows
      BY DEF TypeOK
    <3>3. CASE x \in runs /\ y \in runs
      BY <2>2, <3>3 DEF OneRunPerWindow
    <3>4. CASE x \in runs /\ y = row
      BY <2>1, <2>2, <3>4
    <3>5. CASE x = row /\ y \in runs
      <4>1. y.ask.key # None
        BY <2>2, <3>2, ScopedKeyInjective DEF Rows
      <4>2. y.created + Window < row.created
        BY <2>1, <2>2, <3>5, <4>1
      <4> QED
        BY <2>2, <3>2, <3>5, <4>2, WindowAssumption DEF Rows
    <3> QED
      BY <2>2, <3>1, <3>3, <3>4, <3>5
  <2> QED
    BY <2>2 DEF OneRunPerWindow, ScopedKey
<1> QED
  BY <1>1, <1>2, RowsStep

(* A request is about to insert because it has just missed.                *)
LEMMA InsertComesFromMiss ==
  ASSUME TypeOK, [Next]_vars, NEW s \in Requests, At(s, "insert")'
  PROVE  Miss(s) \/ req'[s] = req[s]
<1> USE DEF TypeOK, At
<1>1. ASSUME NEW r \in Requests, NEW what, NEW by, Answered(r, what, by)
      PROVE  req'[s] = req[s]
  BY <1>1 DEF Answered
<1>2. ASSUME NEW r \in Requests,
             PlainInsert(r) \/ Replay(r) \/ Conflict(r) \/ Abort(r) \/ Commit(r)
      PROVE  req'[s] = req[s]
  BY <1>1, <1>2 DEF PlainInsert, Replay, Conflict, Abort, Commit, AnsweredWith
<1>3. ASSUME NEW r \in Requests, NEW ask \in Asks, Arrive(r, ask) PROVE req'[s] = req[s]
  BY <1>3 DEF Arrive
<1>4. ASSUME NEW r \in Requests, Begin(r) \/ Lock(r) PROVE req'[s] = req[s]
  BY <1>4 DEF Begin, Lock
<1>5. ASSUME NEW r \in Requests, Miss(r) PROVE Miss(s) \/ req'[s] = req[s]
  BY <1>5 DEF Miss
<1> QED
  BY <1>2, <1>3, <1>4, <1>5 DEF Next, Handle, Tick, vars

(* While r holds the lock of its key nobody else inserts a row of it.      *)
LEMMA FreeStep == IInv /\ TypeOK' /\ [Next]_vars => FreeInv'
<1> SUFFICES ASSUME IInv, TypeOK', [Next]_vars,
                    NEW s \in Requests, At(s, "insert")'
             PROVE  InWindow(s)' = {}
  BY DEF FreeInv
<1> USE DEF IInv
<1>1. CASE At(s, "insert")
  <2>1. req'[s].ask = req[s].ask /\ req'[s].now = req[s].now
    BY <1>1, InsertComesFromMiss DEF Miss, At
  <2>2. InWindow(s) = {}
    BY <1>1 DEF FreeInv
  <2>3. CASE runs' = runs
    BY <2>1, <2>2, <2>3 DEF InWindow, ScopedKey
  <2>4. ASSUME NEW r \in Requests, NEW row \in Rows, NewRowStep(r, row), r # s
        PROVE  InWindow(s)' = {}
    <3>1. req[s].ask \in Asks /\ req[s].ask.key # None /\ row.ask \in Asks
      BY <1>1 DEF TypeOK, AskInv, At, InTx, Rows
    <3>2. row.ask.key = None \/ ScopedKey(row.ask) # ScopedKey(req[s].ask)
      <4>1. CASE row.ask.key # None
        <5>1. r \in holds /\ s \in holds /\ row.ask = req[r].ask
          BY <1>1, <2>4, <4>1 DEF NewRowStep, LockInv, At
        <5> QED
          BY <2>4, <5>1 DEF LockInv
      <4> QED
        BY <4>1
    <3>3. runs' = runs \cup {row}
      BY <2>4 DEF NewRowStep
    <3> QED
      BY <2>1, <2>2, <3>2, <3>3 DEF InWindow, ScopedKey
  <2>5. ASSUME NEW r \in Requests, PlainInsert(r) \/ Commit(r)
        PROVE  r # s
    BY <1>1, <2>5 DEF PlainInsert, Commit, AnsweredWith, Answered, At, TypeOK
  <2>6. ASSUME runs' # runs
        PROVE  \E r \in Requests \ {s} : \E row \in Rows : NewRowStep(r, row)
    <3>1. PICK r \in Requests : PlainInsert(r) \/ Commit(r)
      BY <2>6 DEF Next, Handle, Arrive, Begin, Lock, Replay, Conflict, Miss, Abort, Tick, vars
    <3>2. r # s
      BY <2>5, <3>1
    <3>3. \E row \in Rows : NewRowStep(r, row)
      BY <3>1, <2>6, MakerStep
    <3> QED
      BY <3>2, <3>3
  <2> QED
    BY <2>3, <2>4, <2>6
<1>2. CASE ~ At(s, "insert")
  <2>1. Miss(s)
    BY <1>2, InsertComesFromMiss DEF At
  <2>2. InWindow(s) = {} /\ runs' = runs /\ req'[s].ask = req[s].ask /\ req'[s].now = req[s].now
    BY <2>1 DEF Miss, TypeOK
  <2> QED
    BY <2>2 DEF InWindow, ScopedKey
<1> QED
  BY <1>1, <1>2
(* An answer is right when it is given, and rows do not go away.           *)
ReplyOf(r) ==
  /\ req[r].reply = "run" =>
       \E x \in runs : /\ x.by = req[r].got /\ x.ask = req[r].ask
                       /\ x.created + Window >= req[r].now
  /\ req[r].reply = "conflict" =>
       \E x \in runs : /\ x.ask.task = req[r].ask.task /\ x.ask.key = req[r].ask.key
                       /\ x.ask.body # req[r].ask.body
                       /\ x.created + Window >= req[r].now
  /\ req[r].reply # "crossed"

LEMMA FoundRow ==
  ASSUME IInv, NEW r \in Requests, At(r, "lookup"), NEW x \in runs, Latest(r, x)
  PROVE  /\ x.ask.task = req[r].ask.task /\ x.ask.key = req[r].ask.key
         /\ x.created + Window >= req[r].now
         /\ x.ask \in Asks /\ req[r].ask \in Asks
<1>1. x.ask \in Asks /\ req[r].ask \in Asks
  BY DEF IInv, TypeOK, AskInv, At, Rows
<1>2. ScopedKey(x.ask) = ScopedKey(req[r].ask) /\ x.created + Window >= req[r].now
  BY DEF Latest, InWindow
<1> QED
  BY <1>1, <1>2, ScopedKeyInjective

LEMMA RepliesStep == IInv /\ TypeOK' /\ [Next]_vars => RepliesMatch'
<1> SUFFICES ASSUME IInv, TypeOK', [Next]_vars PROVE RepliesMatch'
  OBVIOUS
<1> USE DEF IInv
<1>1. runs \subseteq runs'
  BY RowsStep DEF NewRowStep
<1>2. \A s \in Requests : ReplyOf(s)
  BY DEF RepliesMatch, ReplyOf
<1>3. ASSUME NEW s \in Requests,
             req'[s] = req[s] \/ req'[s].reply = "none"
      PROVE  ReplyOf(s)'
  BY <1>1, <1>2, <1>3 DEF ReplyOf
<1>4. ASSUME NEW r \in Requests, NEW what, NEW by, Answered(r, what, by), ReplyOf(r)'
      PROVE  \A s \in Requests : ReplyOf(s)'
  BY <1>3, <1>4 DEF Answered, TypeOK
<1>5. ASSUME NEW r \in Requests, NEW ask \in Asks, Arrive(r, ask) PROVE \A s \in Requests : ReplyOf(s)'
  BY <1>3, <1>5 DEF Arrive, TypeOK, AskInv, At
<1>6. ASSUME NEW r \in Requests, Begin(r) \/ Lock(r) \/ Miss(r) PROVE \A s \in Requests : ReplyOf(s)'
  BY <1>3, <1>6 DEF Begin, Lock, Miss, TypeOK, AskInv, At
<1>7. ASSUME NEW r \in Requests, Answered(r, "error", None) PROVE ReplyOf(r)'
  BY <1>7 DEF Answered, TypeOK, ReplyOf
<1>8. ASSUME NEW r \in Requests, NEW x \in runs', AnsweredWith(r, x),
             x.ask = req[r].ask, x.created + Window >= req[r].now
      PROVE  ReplyOf(r)'
  BY <1>8 DEF AnsweredWith, Answered, TypeOK, ReplyOf
<1>9. ASSUME NEW r \in Requests, Replay(r) PROVE \A s \in Requests : ReplyOf(s)'
  <2>1. PICK x \in runs : Latest(r, x) /\ x.ask.body = req[r].ask.body /\ AnsweredWith(r, x)
    BY <1>9 DEF Replay
  <2>2. At(r, "lookup")
    BY <1>9 DEF Replay
  <2>3. x.ask = req[r].ask
    BY <2>1, <2>2, FoundRow DEF Asks
  <2>4. ReplyOf(r)'
    BY <1>1, <1>8, <2>1, <2>2, <2>3, FoundRow
  <2> QED
    BY <1>4, <2>1, <2>4 DEF AnsweredWith
<1>10. ASSUME NEW r \in Requests, Conflict(r) PROVE \A s \in Requests : ReplyOf(s)'
  <2>1. PICK x \in runs : Latest(r, x) /\ x.ask.body # req[r].ask.body
    BY <1>10 DEF Conflict
  <2>2. At(r, "lookup") /\ Answered(r, "conflict", None)
    BY <1>10 DEF Conflict
  <2>3. /\ x.ask.task = req[r].ask.task /\ x.ask.key = req[r].ask.key
        /\ x.created + Window >= req[r].now
    BY <2>1, <2>2, FoundRow
  <2>4. ReplyOf(r)'
    BY <1>1, <2>1, <2>2, <2>3 DEF Answered, TypeOK, ReplyOf
  <2> QED
    BY <1>4, <2>2, <2>4
<1>11. ASSUME NEW r \in Requests, PlainInsert(r) PROVE \A s \in Requests : ReplyOf(s)'
  <2> DEFINE row == [NewRow(r) EXCEPT !.created = clock]
  <2>1. CASE runs' = runs \cup {row} /\ AnsweredWith(r, row)
    <3>1. row.ask = req[r].ask /\ row.created + Window >= req[r].now
      BY WindowAssumption DEF NewRow, TypeOK, TimeInv
    <3>2. ReplyOf(r)'
      BY <1>8, <2>1, <3>1
    <3> QED
      BY <1>4, <2>1, <3>2 DEF AnsweredWith
  <2>2. CASE Answered(r, "error", None)
    BY <1>4, <1>7, <2>2
  <2> QED
    BY <1>11, <2>1, <2>2 DEF PlainInsert
<1>12. ASSUME NEW r \in Requests, Commit(r) PROVE \A s \in Requests : ReplyOf(s)'
  <2>1. CASE runs' = runs \cup {NewRow(r)} /\ AnsweredWith(r, NewRow(r))
    <3>1. NewRow(r).ask = req[r].ask /\ NewRow(r).created + Window >= req[r].now
      BY <1>12, WindowAssumption DEF NewRow, TypeOK, TimeInv, Commit, At
    <3>2. ReplyOf(r)'
      BY <1>8, <2>1, <3>1
    <3> QED
      BY <1>4, <2>1, <3>2 DEF AnsweredWith
  <2>2. CASE Answered(r, "error", None)
    BY <1>4, <1>7, <2>2
  <2> QED
    BY <1>12, <2>1, <2>2 DEF Commit
<1>13. ASSUME NEW r \in Requests, Abort(r) PROVE \A s \in Requests : ReplyOf(s)'
  BY <1>4, <1>7, <1>13 DEF Abort
<1>14. \A s \in Requests : ReplyOf(s)'
  BY <1>3, <1>5, <1>6, <1>9, <1>10, <1>11, <1>12, <1>13 DEF Next, Handle, Tick, vars
<1> QED
  BY <1>14 DEF ReplyOf, RepliesMatch

LEMMA StepIInv == IInv /\ [Next]_vars => IInv'
BY TypeStep, LocalStep, LockStep, FreeStep, WindowStep, RepliesStep DEF IInv

(* The inductive invariant holds of every behaviour.                       *)
THEOREM Invariance == Spec => []IInv
BY InitIInv, StepIInv, PTL DEF Spec

(* Requests of one key make at most one run in any window, however they    *)
(* interleave and whatever connections are lost.                           *)
THEOREM AtMostOneRun == Spec => []OneRunPerWindow
BY Invariance, PTL DEF IInv

(* Every answer is one the request may get.                                *)
THEOREM AnswersMatch == Spec => []RepliesMatch
BY Invariance, PTL DEF IInv

-----------------------------------------------------------------------------
(* The refinement: Commit, PlainInsert and the lookups that find a row are *)
(* the instants at which a request is handled.                             *)

Asked == [r \in Requests |-> [ask |-> req[r].ask, now |-> req[r].now]]
Reply == [r \in Requests |-> req[r].reply]
Got == [r \in Requests |-> req[r].got]

LEMMA StandingIsInWindow ==
  ASSUME IInv, NEW r \in Requests, req[r].ask \in Asks, req[r].ask.key # None
  PROVE  Once!Standing(r) = InWindow(r)
<1>1. ASSUME NEW x \in runs
      PROVE  /\ x.ask \in Asks
             /\ Once!SameScope(x.ask, req[r].ask) <=> ScopedKey(x.ask) = ScopedKey(req[r].ask)
  <2>1. x.ask \in Asks
    BY DEF IInv, TypeOK, Rows
  <2> QED
    BY <2>1, ScopedKeyInjective DEF Once!SameScope
<1> QED
  BY <1>1, ScopedKeyInjective DEF Once!Standing, Once!SameScope, InWindow

(* Answered is the Reply of the abstract request. *)
LEMMA AnswerIsReply ==
  ASSUME IInv, NEW r \in Requests, ~ At(r, "replied"), ~ At(r, "idle"),
         NEW what, NEW by, Answered(r, what, by)
  PROVE  Once!Reply(r, what, by)
<1>1. req[r].ask # NoAsk /\ req[r].reply = "none"
  BY DEF IInv, AskInv
<1>2. Asked' = Asked
  BY DEF IInv, TypeOK, Answered, Asked
<1>3. Reply' = [Reply EXCEPT ![r] = what]
  BY DEF IInv, TypeOK, Answered, Reply
<1>4. Got' = [Got EXCEPT ![r] = by]
  BY DEF IInv, TypeOK, Answered, Got
<1> QED
  BY <1>1, <1>2, <1>3, <1>4 DEF Once!Reply, Once!NoAsk, NoAsk, Asked, Reply, Got

LEMMA CommitRefines ==
  ASSUME IInv, NEW r \in Requests, Commit(r)
  PROVE  \E created \in Times : Once!Create(r, created)
<1>1. /\ req[r].ask \in Asks /\ req[r].ask.key # None
      /\ InWindow(r) = {} /\ ~ At(r, "replied") /\ ~ At(r, "idle")
  BY DEF Commit, IInv, TypeOK, AskInv, FreeInv, At, InTx
<1>2. Once!Standing(r) = {}
  BY <1>1, StandingIsInWindow
<1>3. req[r].created \in Times /\ req[r].created >= req[r].now
  BY WindowAssumption DEF Commit, IInv, TypeOK, TimeInv, At, Times
<1>4. Answered(r, "run", r) \/ Answered(r, "error", None)
  BY DEF Commit, AnsweredWith, NewRow
<1>5. Once!Reply(r, "run", r) \/ Once!Reply(r, "error", None)
  BY <1>1, <1>4, AnswerIsReply
<1>6. runs' = runs \cup {[by |-> r, ask |-> req[r].ask, created |-> req[r].created]}
  BY DEF Commit, NewRow
<1> QED
  BY <1>2, <1>3, <1>5, <1>6 DEF Once!Create

LEMMA PlainInsertRefines ==
  ASSUME IInv, NEW r \in Requests, PlainInsert(r)
  PROVE  (\E created \in Times : Once!Create(r, created)) \/ Once!Fail(r)
<1> DEFINE row == [NewRow(r) EXCEPT !.created = clock]
<1>1. req[r].ask.key = None /\ ~ At(r, "replied") /\ ~ At(r, "idle")
  BY DEF PlainInsert, IInv, AskInv, At
<1>2. Once!Standing(r) = {}
  BY <1>1 DEF Once!Standing
<1>3. clock \in Times /\ clock >= req[r].now
  BY WindowAssumption DEF IInv, TypeOK, TimeInv, Times
<1>4. row = [by |-> r, ask |-> req[r].ask, created |-> clock]
  BY DEF NewRow
<1>5. CASE runs' = runs \cup {row}
  <2>1. Answered(r, "run", r) \/ Answered(r, "error", None)
    BY <1>4 DEF PlainInsert, AnsweredWith
  <2>2. Once!Reply(r, "run", r) \/ Once!Reply(r, "error", None)
    BY <1>1, <2>1, AnswerIsReply
  <2> QED
    BY <1>2, <1>3, <1>4, <1>5, <2>2 DEF Once!Create
<1>6. CASE runs' = runs /\ Answered(r, "error", None)
  <2>1. Once!Reply(r, "error", None)
    BY <1>1, <1>6, AnswerIsReply
  <2> QED
    BY <1>6, <2>1 DEF Once!Fail
<1> QED
  BY <1>5, <1>6 DEF PlainInsert

LEMMA LookupRefines ==
  ASSUME IInv, NEW r \in Requests, Replay(r) \/ Conflict(r)
  PROVE  Once!Replay(r)
<1>1. PICK x \in runs :
        /\ Latest(r, x)
        /\ \/ x.ask.body = req[r].ask.body /\ AnsweredWith(r, x)
           \/ x.ask.body # req[r].ask.body /\ Answered(r, "conflict", None)
  BY DEF Replay, Conflict
<1>2. At(r, "lookup") /\ runs' = runs
  BY DEF Replay, Conflict
<1>3. req[r].ask \in Asks /\ req[r].ask.key # None /\ ~ At(r, "replied") /\ ~ At(r, "idle")
  BY <1>2 DEF IInv, TypeOK, AskInv, At, InTx
<1>4. x \in Once!Standing(r) /\ \A y \in Once!Standing(r) : y.created <= x.created
  BY <1>1, <1>3, StandingIsInWindow DEF Latest
<1>5. x.ask.task = req[r].ask.task
  BY <1>1, <1>2, FoundRow
<1>6. IF x.ask.body = req[r].ask.body THEN Once!Reply(r, "run", x.by)
                                      ELSE Once!Reply(r, "conflict", None)
  BY <1>1, <1>3, <1>5, AnswerIsReply DEF AnsweredWith
<1> QED
  BY <1>2, <1>4, <1>6 DEF Once!Replay

LEMMA StepOnce == IInv /\ [Next]_vars => [OnceStep]_(Once!onceVars)
<1> SUFFICES ASSUME IInv, [Next]_vars PROVE [OnceStep]_(Once!onceVars)
  OBVIOUS
<1>1. ASSUME NEW r \in Requests, NEW ask \in Asks, Arrive(r, ask)
      PROVE  \E now \in Times : Once!Ask(r, ask, now)
  <2>1. req[r].ask = NoAsk /\ clock \in Times
    BY <1>1, WindowAssumption DEF Arrive, IInv, AskInv, TypeOK, TimeInv, Times
  <2>2. Asked' = [Asked EXCEPT ![r] = [ask |-> ask, now |-> clock]]
    BY <1>1 DEF Arrive, IInv, TypeOK, Asked
  <2>3. Reply' = Reply /\ Got' = Got /\ runs' = runs
    BY <1>1 DEF Arrive, IInv, TypeOK, AskInv, At, Reply, Got
  <2>4. Asked[r].ask = Once!NoAsk /\ ask \in Once!Asks
    BY <2>1 DEF Once!NoAsk, NoAsk, Once!Asks, Asks, Asked
  <2>5. Times \subseteq Nat
    BY WindowAssumption DEF Times
  <2>6. PICK now \in Times : now = clock
    BY <2>1
  <2>7. Once!Ask(r, ask, now)
    BY <2>2, <2>3, <2>4, <2>5, <2>6 DEF Once!Ask, Asked, Reply, Got
  <2> QED
    BY <2>7
<1>2. ASSUME NEW r \in Requests, Begin(r) \/ Lock(r) \/ Miss(r)
      PROVE  UNCHANGED Once!onceVars
  <2>1. Asked' = Asked /\ Reply' = Reply /\ Got' = Got /\ runs' = runs
    BY <1>2 DEF Begin, Lock, Miss, IInv, TypeOK, Asked, Reply, Got
  <2> QED
    BY <2>1 DEF Once!onceVars, Asked, Reply, Got
<1>3. ASSUME NEW r \in Requests, Abort(r) PROVE Once!Fail(r)
  <2>1. Answered(r, "error", None) /\ runs' = runs /\ ~ At(r, "replied") /\ ~ At(r, "idle")
    BY <1>3 DEF Abort, At
  <2> QED
    BY <2>1, AnswerIsReply DEF Once!Fail
<1>4. CASE Tick \/ UNCHANGED vars
  BY <1>4 DEF Tick, vars, Once!onceVars
<1> QED
  BY <1>1, <1>2, <1>3, <1>4, CommitRefines, PlainInsertRefines, LookupRefines
     DEF Next, Handle, OnceStep

(* The transactions implement the promise of idempotency.ts: each request  *)
(* is answered as if it were handled in one instant.                       *)
THEOREM OnceImplemented == Spec => ImplementsOnce
<1>1. Init => Once!OnceInit
  BY DEF Init, Once!OnceInit, Once!NoAsk, NoAsk
<1> QED
  BY <1>1, StepOnce, Invariance, PTL DEF Spec, ImplementsOnce
=============================================================================
