---------------------------- MODULE AppendOnlyLog ----------------------------
(***************************************************************************)
(* What the event log of one run is to everybody who reads it with a       *)
(* cursor: a sequence that only grows at its end, in which the entries of  *)
(* each writer keep the order in which it wrote them.  RunLifecycle and    *)
(* EventStream take the log to be this; EventLog implements it with        *)
(* transactions.                                                           *)
(***************************************************************************)
EXTENDS Naturals, Sequences

CONSTANTS Writers, MaxAppends

VARIABLE log

Entries == [by: Writers, n: 1 .. MaxAppends]

LogInit == log = <<>>

(* The next entry of a writer comes after all it has in the log. *)
AppendEntry(entry) ==
  /\ \A i \in DOMAIN log : log[i].by = entry.by => log[i].n < entry.n
  /\ log' = Append(log, entry)

LogNext == \E entry \in Entries : AppendEntry(entry)

Spec == LogInit /\ [][LogNext]_log
=============================================================================
