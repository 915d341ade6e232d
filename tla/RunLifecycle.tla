---------------------------- MODULE RunLifecycle ----------------------------
(***************************************************************************)
(* The execution of the runs of one task: the run rows in Postgres, the    *)
(* orchestrator executions that pg-boss deliveries start in the control    *)
(* worker (run-orchestrator.ts, RunOrchestrator.execute), the cancel       *)
(* requests of the web application (run-service.ts, cancelRun), the recovery *)
(* sweep, and what an execution holds while it runs: llm-router tokens, a  *)
(* sandbox and the lock of the task.                                       *)
(*                                                                         *)
(* Every await of execute is a step of its own.  RunService.transition is  *)
(* two statements, a read that checks the transition table and an          *)
(* unconditional UPDATE, with nothing that ties them together: it is two   *)
(* steps here (TransitionCheck, TransitionWrite), and so are the cancel    *)
(* request's and the task lock's read and write.                           *)
(*                                                                         *)
(* The model has OPENRUSH_V1_EVENTS_ENABLED on and llmAccess wired, and no *)
(* checkpoint service, which is how worker.ts builds the orchestrator.     *)
(* Timestamps of the row are left out.                                     *)
(***************************************************************************)
EXTENDS RunStateMachine, Naturals, Sequences

CONSTANTS
  Runs,       \* the runs of the task
  Execs,      \* deliveries of run/execute jobs, redeliveries included
  Cancels,    \* cancel requests
  None,       \* no run
  MaxChunks,  \* bound: stream chunks of one execution
  Faults      \* what may go wrong, a subset of FaultKinds

FaultKinds == {"db", "sandbox", "agent", "crash"}

ASSUME RunsAssumption == None \notin Runs
ASSUME BoundAssumption == MaxChunks \in Nat
ASSUME FaultsAssumption == Faults \subseteq FaultKinds

VARIABLES
  run,      \* run[r]: the row of runs: status, error_message, whether a version is bound
  events,   \* events[r]: run_events of r; the position is the seq appendAssignSeq gives
  token,    \* token[e]: the llm-router token issued by execution e
  sandbox,  \* sandbox[e]: the sandbox created by execution e
  task,     \* the row of tasks: active_run_id and head_run_id
  exec,     \* exec[e]: the local state of an execution
  cancel    \* cancel[c]: the local state of a cancel request

rowVars == <<run, events, task>>
heldVars == <<token, sandbox>>
vars == <<run, events, token, sandbox, task, exec, cancel>>

Messages == {"none", "cancelled", "error", "unreachable"}

DoneTypes == {"done_success", "done_failed"}
EventTypes == {"started", "chunk", "usage"} \cup DoneTypes

(* Where an execution stands: the call it makes next. *)
InTry == { "check", "write", "issue", "create", "endpoint", "open", "prompt",
           "stream", "usage", "done" }
InFinally == {"revoke", "release", "unlock", "advance", "destroy"}
ExecPcs == InTry \cup {"idle", "catch"} \cup InFinally \cup {"ended", "crashed"}

ExecStates ==
  [ run: Runs \cup {None}, pc: ExecPcs, to: Statuses,
    started: BOOLEAN, done: BOOLEAN, chunks: 0 .. MaxChunks ]

CancelStates ==
  [ run: Runs \cup {None}, pc: {"idle", "check", "write", "replied"},
    reply: {"none", "cancelled", "already", "conflict", "error"} ]

TypeOK ==
  /\ run \in [Runs -> [status: Statuses, msg: Messages, versioned: BOOLEAN]]
  /\ events \in [Runs -> Seq([type: EventTypes, by: Execs])]
  /\ token \in [Execs -> {"none", "live", "revoked"}]
  /\ sandbox \in [Execs -> {"none", "live", "orphan", "destroyed"}]
  /\ task \in [active: Runs \cup {None}, head: Runs \cup {None}]
  /\ exec \in [Execs -> ExecStates]
  /\ cancel \in [Cancels -> CancelStates]

(* Rows as POST /agents and POST /agents/:id/runs leave them: every run is *)
(* queued, and the task points at its first run, as active and as head, if *)
(* the agent was created with an initial input.                            *)
Init ==
  /\ run \in [Runs -> [status: {"queued"}, msg: {"none"}, versioned: BOOLEAN]]
  /\ events = [r \in Runs |-> <<>>]
  /\ token = [e \in Execs |-> "none"]
  /\ sandbox = [e \in Execs |-> "none"]
  /\ \E first \in Runs \cup {None} : task = [active |-> first, head |-> first]
  /\ exec = [e \in Execs |-> [run |-> None, pc |-> "idle", to |-> "provisioning",
                              started |-> FALSE, done |-> FALSE, chunks |-> 0]]
  /\ cancel = [c \in Cancels |-> [run |-> None, pc |-> "idle", reply |-> "none"]]

-----------------------------------------------------------------------------
(* Helpers. *)

At(e, pc) == exec[e].pc = pc

Goto(e, pc) == exec' = [exec EXCEPT ![e].pc = pc]

Status(e) == run[exec[e].run].status

(* The next thing execute does is transition(runId, to). *)
GotoTransition(e, to) == exec' = [exec EXCEPT ![e].pc = "check", ![e].to = to]

(* appendAssignSeq: the event gets the next seq of the run. *)
Emitted(e, type) ==
  [events EXCEPT ![exec[e].run] = Append(@, [type |-> type, by |-> e])]

(* A failing INSERT or UPDATE may have been committed before the           *)
(* connection was lost.                                                    *)
MaybeEmitted(e, type) == events' \in {events, Emitted(e, type)}

(* Mutant: a cancelled run gets a status of its own. *)
WithStatusCancelled(r, s, m) ==
  [run EXCEPT ![r].status = IF m = "cancelled" THEN m ELSE s, ![r].msg = m]

WithStatus(r, s, m) == [run EXCEPT ![r].status = s, ![r].msg = m]

(* The row after the UPDATE of transition(runId, to): only an error        *)
(* message that is given is written.                                       *)
Moved(e) ==
  LET r == exec[e].run IN
  WithStatus(r, exec[e].to, IF exec[e].to = "failed" THEN "error" ELSE run[r].msg)

(* Where execute goes when a call throws: to the catch block, or, from the *)
(* catch block's own transition, on to the finally block.                  *)
OnThrow(e) == IF exec[e].to = "failed" THEN "revoke" ELSE "catch"

(* Mutant: the error path skips the revocation of the tokens. *)
AfterMoveFailedKeepsToken(s) ==
  CASE s = "provisioning" -> "issue"
    [] s = "preparing" -> "endpoint"
    [] s = "running" -> "open"
    [] s = "completed" -> "revoke"
    [] s = "failed" -> "release"
    [] OTHER -> "check"

(* What execute does after transition(runId, s) returned. *)
AfterMove(s) ==
  CASE s = "provisioning" -> "issue"
    [] s = "preparing" -> "endpoint"
    [] s = "running" -> "open"
    [] s \in {"completed", "failed"} -> "revoke"
    [] OTHER -> "check"

(* The transition that follows inside finalize. *)
NextTarget(s) ==
  CASE s = "finalizing_prepare" -> "finalizing_uploading"
    [] s = "finalizing_uploading" -> "finalizing_verifying"
    [] s = "finalizing_verifying" -> "finalizing_metadata_commit"
    [] s = "finalizing_metadata_commit" -> "finalized"
    [] s = "finalized" -> "completed"
    [] OTHER -> s

-----------------------------------------------------------------------------
(* The execution: RunOrchestrator.execute. *)

(* pg-boss hands a run/execute job to the worker: the first delivery, or a *)
(* redelivery because the job expired or its worker died.  The first read  *)
(* of the run is outside of the try block.                                 *)
Deliver(e, r) ==
  /\ At(e, "idle")
  /\ \/ exec' = [exec EXCEPT ![e].run = r, ![e].pc = "check"]
     \/ "db" \in Faults /\ exec' = [exec EXCEPT ![e].run = r, ![e].pc = "ended"]
  /\ UNCHANGED <<rowVars, heldVars, cancel>>

(* transition, first half: findById and the check against the table. *)
TransitionCheck(e) ==
  /\ At(e, "check")
  /\ \/ /\ CanTransition(Status(e), exec[e].to)
        /\ Goto(e, "write")
     \/ /\ ~ CanTransition(Status(e), exec[e].to) \/ "db" \in Faults
        /\ Goto(e, OnThrow(e))
  /\ UNCHANGED <<rowVars, heldVars, cancel>>

(* transition, second half: UPDATE runs SET status = to WHERE id = runId. *)
TransitionWrite(e) ==
  /\ At(e, "write")
  /\ \/ /\ run' = Moved(e)
        /\ exec' = [exec EXCEPT ![e].pc = AfterMove(exec[e].to),
                                ![e].to = NextTarget(exec[e].to)]
     \/ /\ "db" \in Faults
        /\ run' \in {run, Moved(e)}
        /\ Goto(e, OnThrow(e))
  /\ UNCHANGED <<events, task, heldVars, cancel>>

(* prepareContext, then issueForRun: the token exists before the sandbox. *)
IssueToken(e) ==
  /\ At(e, "issue")
  /\ \/ /\ token' = [token EXCEPT ![e] = "live"]
        /\ Goto(e, "create")
     \/ /\ "agent" \in Faults
        /\ Goto(e, "catch")
        /\ UNCHANGED token
     \/ /\ "db" \in Faults
        /\ Goto(e, "catch")
        /\ token' \in {token, [token EXCEPT ![e] = "live"]}
  /\ UNCHANGED <<rowVars, sandbox, cancel>>

(* sandboxProvider.create: when waiting for the new sandbox fails, its id  *)
(* never reaches the orchestrator and the sandbox is orphaned.             *)
CreateSandbox(e) ==
  /\ At(e, "create")
  /\ \/ /\ sandbox' = [sandbox EXCEPT ![e] = "live"]
        /\ GotoTransition(e, "preparing")
     \/ /\ "sandbox" \in Faults
        /\ sandbox' \in {sandbox, [sandbox EXCEPT ![e] = "orphan"]}
        /\ Goto(e, "catch")
  /\ UNCHANGED <<rowVars, token, cancel>>

(* healthCheck, whose result is ignored, and getEndpointUrl. *)
ResolveEndpoint(e) ==
  /\ At(e, "endpoint")
  /\ \/ GotoTransition(e, "running")
     \/ "sandbox" \in Faults /\ Goto(e, "catch")
  /\ UNCHANGED <<rowVars, heldVars, cancel>>

(* Mutant: runStartedEmitted is set before the append has returned. *)
EmitStartedFlagFirst(e) ==
  /\ At(e, "open")
  /\ \/ /\ run[exec[e].run].versioned
        /\ events' = Emitted(e, "started")
        /\ exec' = [exec EXCEPT ![e].pc = "prompt", ![e].started = TRUE]
     \/ /\ run[exec[e].run].versioned /\ "db" \in Faults
        /\ MaybeEmitted(e, "started")
        /\ exec' = [exec EXCEPT ![e].pc = "catch", ![e].started = TRUE]
     \/ /\ ~ run[exec[e].run].versioned
        /\ Goto(e, "prompt")
        /\ UNCHANGED events
  /\ UNCHANGED <<run, task, heldVars, cancel>>

(* emitRunStarted: skipped for a run without a bound definition version. *)
EmitStarted(e) ==
  /\ At(e, "open")
  /\ \/ /\ run[exec[e].run].versioned
        /\ events' = Emitted(e, "started")
        /\ exec' = [exec EXCEPT ![e].pc = "prompt", ![e].started = TRUE]
     \/ /\ run[exec[e].run].versioned /\ "db" \in Faults
        /\ MaybeEmitted(e, "started")
        /\ Goto(e, "catch")
     \/ /\ ~ run[exec[e].run].versioned
        /\ Goto(e, "prompt")
        /\ UNCHANGED events
  /\ UNCHANGED <<run, task, heldVars, cancel>>

(* agentBridge.sendPrompt. *)
SendPrompt(e) ==
  /\ At(e, "prompt")
  /\ \/ Goto(e, "stream")
     \/ "agent" \in Faults /\ Goto(e, "catch")
  /\ UNCHANGED <<rowVars, heldVars, cancel>>

(* consumeStream: one chunk of the worker's stream.  A save that throws is *)
(* swallowed with the malformed lines and the stream goes on.              *)
StoreChunk(e) ==
  /\ At(e, "stream")
  /\ exec[e].chunks < MaxChunks
  /\ exec' = [exec EXCEPT ![e].chunks = @ + 1]
  /\ \/ events' = Emitted(e, "chunk")
     \/ "db" \in Faults /\ UNCHANGED events
  /\ UNCHANGED <<run, task, heldVars, cancel>>

(* consumeStream returns at the end of the body or throws when it breaks. *)
EndStream(e) ==
  /\ At(e, "stream")
  /\ \/ Goto(e, "usage")
     \/ "agent" \in Faults /\ Goto(e, "catch")
  /\ UNCHANGED <<rowVars, heldVars, cancel>>

(* aggregateUsage and emitUsage: no calls recorded, or an error, leaves    *)
(* the event out.                                                          *)
EmitUsage(e) ==
  /\ At(e, "usage")
  /\ MaybeEmitted(e, "usage")
  /\ Goto(e, "done")
  /\ UNCHANGED <<run, task, heldVars, cancel>>

(* Mutant: runDoneEmitted is never set on the success path. *)
EmitDoneForgotten(e) ==
  /\ At(e, "done")
  /\ events' = IF exec[e].started THEN Emitted(e, "done_success") ELSE events
  /\ GotoTransition(e, "finalizing_prepare")
  /\ UNCHANGED <<run, task, heldVars, cancel>>

(* Mutant: an append that throws is ignored, as it is for usage. *)
EmitDoneBestEffort(e) ==
  /\ At(e, "done")
  /\ \/ events' = IF exec[e].started THEN Emitted(e, "done_success") ELSE events
     \/ "db" \in Faults /\ UNCHANGED events
  /\ GotoTransition(e, "finalizing_prepare")
  /\ UNCHANGED <<run, task, heldVars, cancel>>

(* emitRunDone(success), only behind a started event; runDoneEmitted is    *)
(* set when the append has returned.                                       *)
EmitDone(e) ==
  /\ At(e, "done")
  /\ \/ /\ exec[e].started
        /\ events' = Emitted(e, "done_success")
        /\ exec' = [exec EXCEPT ![e].pc = "check", ![e].to = "finalizing_prepare",
                                ![e].done = TRUE]
     \/ /\ exec[e].started /\ "db" \in Faults
        /\ MaybeEmitted(e, "done_success")
        /\ Goto(e, "catch")
     \/ /\ ~ exec[e].started
        /\ GotoTransition(e, "finalizing_prepare")
        /\ UNCHANGED events
  /\ UNCHANGED <<run, task, heldVars, cancel>>

(* The catch block up to its transition to failed: emitRunDone(failed)     *)
(* when a started event has no done event yet; its errors are swallowed.   *)
CatchError(e) ==
  /\ At(e, "catch")
  /\ \/ /\ exec[e].started /\ ~ exec[e].done
        /\ events' = Emitted(e, "done_failed")
        /\ exec' = [exec EXCEPT ![e].pc = "check", ![e].to = "failed", ![e].done = TRUE]
     \/ /\ exec[e].started /\ ~ exec[e].done /\ "db" \in Faults
        /\ MaybeEmitted(e, "done_failed")
        /\ GotoTransition(e, "failed")
     \/ /\ ~ (exec[e].started /\ ~ exec[e].done)
        /\ GotoTransition(e, "failed")
        /\ UNCHANGED events
  /\ UNCHANGED <<run, task, heldVars, cancel>>

(* finally: revokeForRun revokes every live token of the run, whichever    *)
(* execution issued it; an error is logged and ignored.                    *)
RevokeTokens(e) ==
  LET revoked == [x \in Execs |-> IF exec[x].run = exec[e].run /\ token[x] = "live"
                                  THEN "revoked" ELSE token[x]] IN
  /\ At(e, "revoke")
  /\ \/ token' = revoked
     \/ "db" \in Faults /\ UNCHANGED token
  /\ Goto(e, "release")
  /\ UNCHANGED <<rowVars, sandbox, cancel>>

(* Mutant: only a completed run releases the lock. *)
ReleaseReadCompletedOnly(e) ==
  /\ At(e, "release")
  /\ \/ Goto(e, IF Status(e) = "completed" THEN "advance" ELSE "destroy")
     \/ "db" \in Faults /\ Goto(e, "destroy")
  /\ UNCHANGED <<rowVars, heldVars, cancel>>

(* releaseTaskLock, first statement: read the run. *)
ReleaseRead(e) ==
  /\ At(e, "release")
  /\ \/ Goto(e, IF Status(e) = "completed" THEN "advance" ELSE "unlock")
     \/ "db" \in Faults /\ Goto(e, "destroy")
  /\ UNCHANGED <<rowVars, heldVars, cancel>>

(* releaseTaskLock, second statement: one UPDATE that applies only while   *)
(* the task still points at this run, and that moves head_run_id if the    *)
(* run was completed when it was read.                                     *)
ReleaseWrite(e) ==
  LET r == exec[e].run IN
  /\ exec[e].pc \in {"unlock", "advance"}
  /\ \/ task' = IF task.active # r THEN task
                ELSE [active |-> None, head |-> IF At(e, "advance") THEN r ELSE task.head]
     \/ "db" \in Faults /\ UNCHANGED task
  /\ Goto(e, "destroy")
  /\ UNCHANGED <<run, events, heldVars, cancel>>

(* sandboxProvider.destroy, not awaited, its errors ignored. *)
DestroySandbox(e) ==
  /\ At(e, "destroy")
  /\ \/ sandbox' = [sandbox EXCEPT ![e] = IF @ = "live" THEN "destroyed" ELSE @]
     \/ "sandbox" \in Faults /\ UNCHANGED sandbox
  /\ Goto(e, "ended")
  /\ UNCHANGED <<rowVars, token, cancel>>

(* The control worker dies in the middle of an execution. *)
Crash(e) ==
  /\ "crash" \in Faults
  /\ exec[e].pc \notin {"idle", "ended", "crashed"}
  /\ Goto(e, "crashed")
  /\ UNCHANGED <<rowVars, heldVars, cancel>>

-----------------------------------------------------------------------------
(* The cancel request: RunService.cancelRun. *)

(* cancelRun's own findById and its status matrix. *)
CancelRead(c, r) ==
  LET verdict == CancelVerdict(run[r].status) IN
  /\ cancel[c].pc = "idle"
  /\ cancel' = [cancel EXCEPT ![c] =
       IF verdict = "proceed" THEN [run |-> r, pc |-> "check", reply |-> "none"]
                              ELSE [run |-> r, pc |-> "replied", reply |-> verdict]]
  /\ UNCHANGED <<rowVars, heldVars, exec>>

(* transition(runId, failed), first half: it reads the row again. *)
CancelCheck(c) ==
  /\ cancel[c].pc = "check"
  /\ cancel' = [cancel EXCEPT ![c] =
       IF CanTransition(run[cancel[c].run].status, "failed")
       THEN [@ EXCEPT !.pc = "write"]
       ELSE [@ EXCEPT !.pc = "replied", !.reply = "error"]]
  /\ UNCHANGED <<rowVars, heldVars, exec>>

(* transition(runId, failed), second half. *)
CancelWrite(c) ==
  /\ cancel[c].pc = "write"
  /\ \/ /\ run' = WithStatus(cancel[c].run, "failed", "cancelled")
        /\ cancel' = [cancel EXCEPT ![c].pc = "replied", ![c].reply = "cancelled"]
     \/ /\ "db" \in Faults
        /\ run' \in {run, WithStatus(cancel[c].run, "failed", "cancelled")}
        /\ cancel' = [cancel EXCEPT ![c].pc = "replied", ![c].reply = "error"]
  /\ UNCHANGED <<events, task, heldVars, exec>>

-----------------------------------------------------------------------------
(* The recovery sweep: recoverStuckRuns fails the stale runs that are in   *)
(* worker_unreachable, and looks at no other status.                       *)
RecoverStuckRuns ==
  /\ run' = [r \in Runs |-> IF run[r].status = "worker_unreachable"
                            THEN [run[r] EXCEPT !.status = "failed", !.msg = "unreachable"]
                            ELSE run[r]]
  /\ UNCHANGED <<events, task, heldVars, exec, cancel>>

-----------------------------------------------------------------------------

ExecStep(e) ==
  \/ TransitionCheck(e) \/ TransitionWrite(e)
  \/ IssueToken(e) \/ CreateSandbox(e) \/ ResolveEndpoint(e)
  \/ EmitStarted(e) \/ SendPrompt(e) \/ StoreChunk(e) \/ EndStream(e)
  \/ EmitUsage(e) \/ EmitDone(e) \/ CatchError(e)
  \/ RevokeTokens(e) \/ ReleaseRead(e) \/ ReleaseWrite(e) \/ DestroySandbox(e)

CancelStep(c) == CancelCheck(c) \/ CancelWrite(c)

Next ==
  \/ \E e \in Execs, r \in Runs : Deliver(e, r)
  \/ \E e \in Execs : ExecStep(e) \/ Crash(e)
  \/ \E c \in Cancels, r \in Runs : CancelRead(c, r)
  \/ \E c \in Cancels : CancelStep(c)
  \/ RecoverStuckRuns

Spec == Init /\ [][Next]_vars

(* A worker that does not crash goes on with every execution it started,   *)
(* a request that was accepted is answered, and the sweep is scheduled     *)
(* every two minutes.  Nothing obliges pg-boss to deliver again, nor a     *)
(* user to cancel.                                                         *)
Fairness ==
  /\ \A e \in Execs : WF_vars(ExecStep(e))
  /\ \A c \in Cancels : WF_vars(CancelStep(c))
  /\ WF_vars(RecoverStuckRuns)

FairSpec == Spec /\ Fairness

-----------------------------------------------------------------------------
(* Properties. *)

Written(r, i) == events[r][i]

(* A run-done marker of an execution is preceded, in the log of its run,   *)
(* by the run-started marker of the same execution: the client never sees  *)
(* an orphaned terminal marker, whichever path execute took (the guards on *)
(* runStartedEmitted, run-orchestrator.ts:203 and :217).                   *)
DoneAfterStarted ==
  \A r \in Runs : \A i \in DOMAIN events[r] :
    Written(r, i).type \in DoneTypes =>
      \E j \in 1 .. i - 1 : Written(r, j) = [type |-> "started", by |-> Written(r, i).by]

(* A run that is past its stream, in a finalizing status, finalized or     *)
(* completed, has a run-done(success) marker in its log, whatever other    *)
(* executions and cancel requests overwrote in between.                    *)
PastStream ==
  { "finalizing_prepare", "finalizing_uploading", "finalizing_verifying",
    "finalizing_metadata_commit", "finalized", "completed" }

SuccessMarked(r) ==
  \E i \in DOMAIN events[r] : Written(r, i).type = "done_success"

FinalizingImpliesSuccess ==
  \A r \in Runs :
    run[r].status \in PastStream /\ run[r].versioned => SuccessMarked(r)

(* No llm-router token outlives the execution that issued it, on the       *)
(* success path, on every error path, and when other executions of the     *)
(* same run come and go: the finally block revokes before it does anything *)
(* else that could fail (run-orchestrator.ts:233).                         *)
TokenEndsWithExecution ==
  \A e \in Execs :
    token[e] = "live" =>
      exec[e].pc \notin {"release", "unlock", "advance", "destroy", "ended"}

(* When an execution of a run has ended, the task does not show that run   *)
(* as its active one any more, however the run ended and whatever other    *)
(* executions of the run are doing.                                        *)
LockReleased ==
  \A e \in Execs : At(e, "ended") => task.active # exec[e].run

(* When every execution of a run is over the run is in a terminal status:  *)
(* no interleaving of checks and overwrites, by other executions or by     *)
(* cancel requests, leaves it in between.                                  *)
SettledWhenOver ==
  \A r \in Runs :
    /\ \A e \in Execs : exec[e].run = r => At(e, "ended")
    /\ \E e \in Execs : exec[e].run = r
    => IsTerminal(run[r].status)

(* Every run a job was delivered for eventually stays in a terminal        *)
(* status, with its task unlocked, unless a worker dies while it executes  *)
(* the run.                                                                *)
Delivered(r) == \E e \in Execs : exec[e].run = r

RunSettles ==
  \A r \in Runs :
    Delivered(r) ~> \/ [](IsTerminal(run[r].status) /\ task.active # r)
                    \/ \E e \in Execs : At(e, "crashed") /\ exec[e].run = r

(* A job that is delivered again after its worker died, with nothing else  *)
(* driving the run, brings the run to a terminal status: it executes the   *)
(* run if it was still queued and fails it otherwise.  The exception is a  *)
(* worker that died between finalized and completed: the table allows no   *)
(* move to failed from there, and the new execution ends with the run      *)
(* still finalized.                                                        *)
RedeliveryUnblocks ==
  \A e, f \in Execs, r \in Runs :
    (At(e, "crashed") /\ exec[e].run = r /\ At(f, "check") /\ exec[f].run = r)
      ~> (IsTerminal(run[r].status) \/ run[r].status = "finalized" \/ At(f, "crashed"))

(* The log of every run is what RunMarkers promises its readers, as long   *)
(* as an append that throws has not been committed all the same: each      *)
(* execution is a writer that opens, writes and closes its part of it.     *)
MarkerPhase ==
  [e \in Execs |-> IF exec[e].done THEN "closed"
                   ELSE IF exec[e].started THEN "open" ELSE "idle"]

Markers == INSTANCE RunMarkers WITH
             Writers <- Execs, log <- events, phase <- MarkerPhase,
             at <- [e \in Execs |-> exec[e].run]

ImplementsMarkers == Markers!Spec

-----------------------------------------------------------------------------
(* What the documents and comments say, and the code does not keep.        *)

(* specs/contracts.md: a status change that is not in the table is         *)
(* refused.  RunService.transition checks the table against a row another  *)
(* caller, a confirmed cancel request for one, may have changed by the     *)
(* time it writes.                                                         *)
OnlyTableTransitions ==
  [][\A r \in Runs :
       run'[r].status # run[r].status => CanTransition(run[r].status, run'[r].status)]_run

(* worker.ts: the recovery sweep takes care of stuck runs, so a run whose  *)
(* worker died does not stay unfinished.                                   *)
StuckRunsRecovered ==
  \A e \in Execs, r \in Runs :
    (At(e, "crashed") /\ exec[e].run = r) ~> IsTerminal(run[r].status)
=============================================================================
