--------------------------- MODULE RunStateMachine ---------------------------
(***************************************************************************)
(* The status machine of a run: packages/control-plane/src/run/            *)
(* run-state-machine.ts (the table RunService consults) and the two status *)
(* sets cancelRun is written from (run-service.ts).                        *)
(* Pure definitions; RunLifecycle builds on them.                          *)
(***************************************************************************)

Statuses ==
  { "queued", "provisioning", "preparing", "running",
    "finalizing_prepare", "finalizing_uploading", "finalizing_verifying",
    "finalizing_metadata_commit", "finalized", "completed", "failed",
    "worker_unreachable", "finalizing_retryable_failed",
    "finalizing_timeout", "finalizing_manual_intervention" }

(* TRANSITIONS: the statuses a run may move to from each status. *)
Transitions ==
  [ queued                         |-> {"provisioning", "failed"},
    provisioning                   |-> {"preparing", "failed"},
    preparing                      |-> {"running", "failed"},
    running                        |-> {"finalizing_prepare", "failed", "worker_unreachable"},
    worker_unreachable             |-> {"running", "failed"},
    finalizing_prepare             |-> {"finalizing_uploading", "failed"},
    finalizing_uploading           |-> {"finalizing_verifying", "finalizing_retryable_failed", "failed"},
    finalizing_verifying           |-> {"finalizing_metadata_commit", "finalizing_retryable_failed", "failed"},
    finalizing_metadata_commit     |-> {"finalized", "failed"},
    finalized                      |-> {"completed"},
    finalizing_retryable_failed    |-> {"finalizing_uploading", "finalizing_timeout"},
    finalizing_timeout             |-> {"finalizing_manual_intervention", "failed"},
    finalizing_manual_intervention |-> {"failed"},
    completed                      |-> {},
    failed                         |-> {"queued"} ]

(* Mutant: a step to failed is missing from the table. *)
CanTransitionNoFailure(from, to) ==
  to \in Transitions[from] /\ ~ (from = "preparing" /\ to = "failed")

CanTransition(from, to) == to \in Transitions[from]

Terminal == {"completed", "failed"}

IsTerminal(s) == s \in Terminal

(* CANCEL_ALREADY_TERMINAL and CANCELLABLE_STATES of run-service.ts. *)
CancelAlreadyTerminal == {"completed", "failed", "finalized"}

CancellableStates ==
  { "queued", "provisioning", "preparing", "running", "worker_unreachable",
    "finalizing_prepare", "finalizing_uploading", "finalizing_verifying",
    "finalizing_metadata_commit", "finalizing_timeout",
    "finalizing_manual_intervention" }

(* What cancelRun decides from the status it read: the run is over, the    *)
(* run cannot be cancelled from here, or the move to failed may be tried.  *)
CancelVerdict(s) ==
  CASE s \in CancelAlreadyTerminal -> "already"
    [] s \notin CancelAlreadyTerminal
       /\ ~ (s \in CancellableStates /\ CanTransition(s, "failed")) -> "conflict"
    [] OTHER -> "proceed"
=============================================================================
