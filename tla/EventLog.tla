------------------------------- MODULE EventLog -------------------------------
(***************************************************************************)
(* The table run_events for one run, and the two ways an execution appends *)
(* to it (drizzle-event-store.ts):                                         *)
(*   appendAssignSeq, with OPENRUSH_V1_EVENTS_ENABLED: a transaction that   *)
(*     takes an advisory lock on the run, inserts MAX(seq) + 1 and commits; *)
(*   append, without it: one INSERT ... ON CONFLICT DO NOTHING with the     *)
(*     position in the execution's own stream, from 0, as seq.              *)
(* The flag is read by each execution, so a run whose job was redelivered   *)
(* to a worker with another setting has both kinds of writers.             *)
(*                                                                         *)
(* A row is visible to others once its transaction has committed; the      *)
(* advisory lock is released by the commit or the rollback.  A row is       *)
(* abstracted to who wrote it and which of its appends it was.             *)
(***************************************************************************)
EXTENDS Naturals

CONSTANTS
  Writers,     \* the executions of the run
  None,
  MaxAppends   \* bound: appends of one writer

ASSUME WritersAssumption == None \notin Writers
ASSUME AppendsAssumption == MaxAppends \in Nat

VARIABLES
  legacy, \* the writers that run with the flag off
  rows,   \* rows[seq]: the committed row with that seq
  lock,   \* the writer that holds pg_advisory_xact_lock of the run
  tx,     \* tx[w]: where the transaction of w stands
  seq,    \* seq[w]: the seq computed in the transaction of w
  sent    \* sent[w]: the appends w has called

vars == <<legacy, rows, lock, tx, seq, sent>>

V1 == Writers \ legacy

Rows == [by: Writers, n: 1 .. MaxAppends]

TypeOK ==
  /\ legacy \subseteq Writers
  /\ DOMAIN rows \subseteq Nat
  /\ \A s \in DOMAIN rows : rows[s] \in Rows
  /\ lock \in Writers \cup {None}
  /\ tx \in [Writers -> {"idle", "begun", "locked", "numbered", "inserted"}]
  /\ seq \in [Writers -> Nat]
  /\ sent \in [Writers -> 0 .. MaxAppends]

Init ==
  /\ legacy \in SUBSET Writers
  /\ rows = [s \in {} |-> 0]
  /\ lock = None
  /\ tx = [w \in Writers |-> "idle"]
  /\ seq = [w \in Writers |-> 0]
  /\ sent = [w \in Writers |-> 0]

-----------------------------------------------------------------------------

(* COALESCE(MAX(seq), 0) + 1 over the rows the statement can see: one more *)
(* than every committed seq, and no less than needed.                      *)
IsNextSeq(s) ==
  /\ \A t \in DOMAIN rows : t < s
  /\ s = 1 \/ s - 1 \in DOMAIN rows

(* Mutant: no COALESCE, and NULL for the empty table. *)
NextSeqNull ==
  IF DOMAIN rows = {} THEN None
                      ELSE CHOOSE s \in {t + 1 : t \in DOMAIN rows} : IsNextSeq(s)

NextSeq == CHOOSE s \in {1} \cup {t + 1 : t \in DOMAIN rows} : IsNextSeq(s)

(* The table with one more row. *)
WithRow(s, row) == [t \in DOMAIN rows \cup {s} |-> IF t = s THEN row ELSE rows[t]]

(* appendAssignSeq is called and its transaction begins. *)
Begin(w) ==
  /\ w \in V1 /\ tx[w] = "idle" /\ sent[w] < MaxAppends
  /\ tx' = [tx EXCEPT ![w] = "begun"]
  /\ sent' = [sent EXCEPT ![w] = @ + 1]
  /\ UNCHANGED <<legacy, rows, lock, seq>>

(* Mutant: the lock is not waited for. *)
LockNotAwaited(w) ==
  /\ tx[w] = "begun"
  /\ lock' = w
  /\ tx' = [tx EXCEPT ![w] = "locked"]
  /\ UNCHANGED <<legacy, rows, seq, sent>>

(* SELECT pg_advisory_xact_lock(hashtext(run_id)). *)
Lock(w) ==
  /\ tx[w] = "begun" /\ lock = None
  /\ lock' = w
  /\ tx' = [tx EXCEPT ![w] = "locked"]
  /\ UNCHANGED <<legacy, rows, seq, sent>>

(* Mutant: the number comes from a sequence, which no rollback resets. *)
NumberFromSequence(w) ==
  /\ tx[w] = "locked"
  /\ \E s \in {1} \cup {seq[v] + 1 : v \in Writers} :
       /\ \A v \in Writers : seq[v] < s
       /\ seq' = [seq EXCEPT ![w] = s]
  /\ tx' = [tx EXCEPT ![w] = "numbered"]
  /\ UNCHANGED <<legacy, rows, lock, sent>>

(* The INSERT evaluates MAX(seq) + 1 on the snapshot of the statement. *)
Number(w) ==
  /\ tx[w] = "locked"
  /\ seq' = [seq EXCEPT ![w] = NextSeq]
  /\ tx' = [tx EXCEPT ![w] = "numbered"]
  /\ UNCHANGED <<legacy, rows, lock, sent>>

(* Two transactions cannot both hold a row with the same run_id and seq:   *)
(* the unique index makes the later one wait for the earlier one.          *)
Inserting(s) == \E w \in Writers : tx[w] = "inserted" /\ seq[w] = s

(* The row goes into the unique index (run_id, seq), not yet visible. *)
Insert(w) ==
  /\ tx[w] = "numbered" /\ seq[w] \notin DOMAIN rows /\ ~ Inserting(seq[w])
  /\ tx' = [tx EXCEPT ![w] = "inserted"]
  /\ UNCHANGED <<legacy, rows, lock, seq, sent>>

Commit(w) ==
  /\ tx[w] = "inserted"
  /\ rows' = WithRow(seq[w], [by |-> w, n |-> sent[w]])
  /\ lock' = None
  /\ tx' = [tx EXCEPT ![w] = "idle"]
  /\ UNCHANGED <<legacy, seq, sent>>

(* Mutant: the lock belongs to the session and survives the rollback. *)
RollbackKeepsLock(w) ==
  /\ tx[w] # "idle"
  /\ tx' = [tx EXCEPT ![w] = "idle"]
  /\ UNCHANGED <<legacy, rows, lock, seq, sent>>

(* The transaction rolls back: a unique violation, or a lost connection at *)
(* any point.  The append throws and is not tried again.                   *)
Rollback(w) ==
  /\ tx[w] # "idle"
  /\ tx' = [tx EXCEPT ![w] = "idle"]
  /\ lock' = IF lock = w THEN None ELSE lock
  /\ UNCHANGED <<legacy, rows, seq, sent>>

(* Mutant: an existing row is replaced. *)
AppendUpsert(w) ==
  LET s == sent[w] IN
  /\ w \in legacy /\ sent[w] < MaxAppends /\ ~ Inserting(s)
  /\ sent' = [sent EXCEPT ![w] = @ + 1]
  /\ rows' \in { rows, WithRow(s, [by |-> w, n |-> s + 1]) }
  /\ UNCHANGED <<legacy, lock, tx, seq>>

(* append, one statement: the counter of the execution's stream is the seq, *)
(* and a seq that is taken, or an error, leaves the table as it is.        *)
AppendExplicit(w) ==
  LET s == sent[w] IN
  /\ w \in legacy /\ sent[w] < MaxAppends /\ ~ Inserting(s)
  /\ sent' = [sent EXCEPT ![w] = @ + 1]
  /\ rows' \in { rows, IF s \in DOMAIN rows THEN rows ELSE WithRow(s, [by |-> w, n |-> s + 1]) }
  /\ UNCHANGED <<legacy, lock, tx, seq>>

Step(w) ==
  \/ Begin(w) \/ Lock(w) \/ Number(w) \/ Insert(w) \/ Commit(w) \/ Rollback(w)
  \/ AppendExplicit(w)

Next == \E w \in Writers : Step(w)

Spec == Init /\ [][Next]_vars

(* Postgres answers, and hands the lock on: each statement of a            *)
(* transaction that has begun is executed sooner or later, and an INSERT   *)
(* of a taken number fails.  Nothing obliges a transaction that waits for  *)
(* the lock to give up.                                                    *)
Violation(w) == tx[w] = "numbered" /\ seq[w] \in DOMAIN rows /\ Rollback(w)

Fairness ==
  \A w \in Writers : /\ SF_vars(Lock(w))
                     /\ WF_vars(Number(w) \/ Insert(w) \/ Commit(w) \/ Violation(w))

FairSpec == Spec /\ Fairness

-----------------------------------------------------------------------------
(* Properties. *)

(* What a reader has seen stays what it is: no writer of either kind       *)
(* replaces or removes a row.                                              *)
RowsStay ==
  [][\A s \in DOMAIN rows : s \in DOMAIN rows' /\ rows'[s] = rows[s]]_rows

(* The advisory lock spares a v1 writer the unique violation, which would  *)
(* lose its event: without legacy writers the seq it computed is free until *)
(* it has committed.                                                       *)
NeverCollides ==
  \A w \in V1 : legacy = {} /\ tx[w] = "numbered" => seq[w] \notin DOMAIN rows /\ ~ Inserting(seq[w])

(* An append that has begun ends, committed or not: the writers of a run   *)
(* do not block each other for ever.                                       *)
AppendsEnd == \A w \in Writers : []<>(tx[w] = "idle")

(* With v1 writers only, the table is the log that the readers of a run    *)
(* and the rest of this project take it for: the seqs are 1, 2, 3, ...     *)
(* whatever was rolled back, rows become visible in that order and stay,   *)
(* and each writer's events keep their order.  With legacy writers nothing *)
(* of the kind is promised.                                                *)
V1Rows == IF legacy = {} THEN rows ELSE <<>>

Log == INSTANCE AppendOnlyLog WITH log <- V1Rows

ImplementsLog == Log!Spec
=============================================================================
