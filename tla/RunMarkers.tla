------------------------------ MODULE RunMarkers ------------------------------
(***************************************************************************)
(* What the event log of a run promises its readers, as the comments of    *)
(* run-orchestrator.ts put it: each writer (one execution of the run) may  *)
(* open its part of the log with run-started, and closes what it opened    *)
(* with at most one run-done, after which it writes nothing.  A run whose  *)
(* agent definition version is not bound is never opened, hence never      *)
(* closed.  Several writers may interleave in one log.                     *)
(* RunLifecycle implements this specification.                             *)
(***************************************************************************)
EXTENDS Naturals, Sequences

CONSTANTS Runs, Writers, None

VARIABLES
  log,    \* log[r]: the events of run r
  phase,  \* phase[w]: whether writer w has opened or closed its part
  at      \* at[w]: the run w writes to, or None

markerVars == <<log, phase, at>>

DoneEvents == {"done_success", "done_failed"}
PlainEvents == {"chunk", "usage"}
Events == [type: {"started"} \cup PlainEvents \cup DoneEvents, by: Writers]

MarkersInit ==
  /\ log = [r \in Runs |-> <<>>]
  /\ phase = [w \in Writers |-> "idle"]
  /\ at = [w \in Writers |-> None]

Logged(w, type) == log' = [log EXCEPT ![at[w]] = Append(@, [type |-> type, by |-> w])]

(* A writer takes up a run. *)
Join(w, r) ==
  /\ at[w] \notin Runs
  /\ at' = [at EXCEPT ![w] = r]
  /\ UNCHANGED <<log, phase>>

(* run-started: once, and before anything is closed. *)
Open(w) ==
  /\ at[w] \in Runs /\ phase[w] = "idle"
  /\ Logged(w, "started")
  /\ phase' = [phase EXCEPT ![w] = "open"]
  /\ UNCHANGED at

(* Anything else a writer logs, until it has closed its part. *)
Write(w, type) ==
  /\ at[w] \in Runs /\ phase[w] # "closed"
  /\ Logged(w, type)
  /\ UNCHANGED <<phase, at>>

(* run-done: only for what was opened, and never twice. *)
Close(w, type) ==
  /\ at[w] \in Runs /\ phase[w] = "open"
  /\ Logged(w, type)
  /\ phase' = [phase EXCEPT ![w] = "closed"]
  /\ UNCHANGED at

MarkersNext ==
  \E w \in Writers :
    \/ \E r \in Runs : Join(w, r)
    \/ Open(w)
    \/ \E type \in PlainEvents : Write(w, type)
    \/ \E type \in DoneEvents : Close(w, type)

Spec == MarkersInit /\ [][MarkersNext]_markerVars

-----------------------------------------------------------------------------

MarkersTypeOK ==
  /\ log \in [Runs -> Seq(Events)]
  /\ phase \in [Writers -> {"idle", "open", "closed"}]
  /\ at \in [Writers -> Runs \cup {None}]

(* In every log, a run-done marker of a writer has that writer's           *)
(* run-started before it and nothing of that writer after it.              *)
Bracketed ==
  \A r \in Runs : \A i \in DOMAIN log[r] :
    log[r][i].type \in DoneEvents =>
      /\ \E j \in 1 .. i - 1 : log[r][j] = [type |-> "started", by |-> log[r][i].by]
      /\ \A j \in DOMAIN log[r] : j > i => log[r][j].by # log[r][i].by

(* Why Bracketed holds: phase remembers what the log shows. *)
PhaseMatchesLog ==
  \A r \in Runs : \A i \in DOMAIN log[r] :
    /\ at[log[r][i].by] = r
    /\ log[r][i].type \in DoneEvents => phase[log[r][i].by] = "closed"

OpenedInLog ==
  \A w \in Writers :
    phase[w] # "idle" =>
      /\ at[w] \in Runs
      /\ \E j \in DOMAIN log[at[w]] : log[at[w]][j] = [type |-> "started", by |-> w]

MarkersInv == MarkersTypeOK /\ Bracketed /\ PhaseMatchesLog /\ OpenedInLog
=============================================================================
