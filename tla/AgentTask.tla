------------------------------ MODULE AgentTask ------------------------------
(***************************************************************************)
(* An agent of the API: a row of tasks with its runs, from POST            *)
(* /api/v1/agents to DELETE, with runs added by POST .../runs, cancelled   *)
(* by DELETE, and the worker that ends runs and releases the task.  The    *)
(* statuses of a run are those of RunLifecycle, its unfinished ones but    *)
(* "queued" taken as one, "active".  As there, a transition writes what    *)
(* was checked before, without a condition.  No code ever writes           *)
(* finalizing_retryable_failed, the status in which DELETE is refused.     *)
(***************************************************************************)
EXTENDS FiniteSets

CONSTANTS
  Posters,   \* calls of POST /api/v1/agents/:agentId/runs
  Deleters,  \* calls of DELETE /api/v1/agents/:id
  Versions,  \* versions of the definition
  First,     \* the run of POST /api/v1/agents with an initial input
  NoRun

\* The id of a run is its own.
ASSUME RunIdsAssumption == First \notin Posters \cup {NoRun}

VARIABLES
  task,    \* the row: status, active, head, version (of the definition)
  taskRun, \* the rows of runs: id -> status, version; move, the status a
           \* transition of the worker is about to write; ended, history
  caller,  \* caller[c]: its step, the row it loaded, its answer
  late     \* history: posts that arrived after a DELETE was answered

taskVars == <<task, taskRun, caller, late>>

Terminal == {"completed", "failed"}

Callers == Posters \cup Deleters

NewRun(v) == [status |-> "queued", version |-> v, move |-> "none", ended |-> FALSE]

WithRun(id, v) == [r \in DOMAIN taskRun \cup {id} |-> IF r = id THEN NewRun(v) ELSE taskRun[r]]

WithStatus(r, status) == [taskRun EXCEPT ![r].status = status, ![r].move = "none",
                                         ![r].ended = @ \/ status \in Terminal]

(* POST /api/v1/agents: the task bound to a version, and its first run if  *)
(* there is an input, in one transaction.                                  *)
TaskInit ==
  /\ \E v \in Versions, run \in {First, NoRun} :
       /\ task = [status |-> "active", active |-> run, head |-> run, version |-> v]
       /\ taskRun = [r \in {run} \ {NoRun} |-> NewRun(v)]
  /\ caller = [c \in Callers |-> [pc |-> "idle", row |-> task, answer |-> "none"]]
  /\ late = {}

Answer(c, answer) == caller' = [caller EXCEPT ![c].pc = "done", ![c].answer = answer]

Deleted == \E d \in Deleters : caller[d].answer = "deleted"

(* loadTaskById, and the guard of POST against terminal agents. *)
LoadForPost(p) ==
  /\ caller[p].pc = "idle"
  /\ IF task.status = "cancelled" THEN Answer(p, "refused")
       ELSE caller' = [caller EXCEPT ![p].pc = "loaded", ![p].row = task]
  /\ late' = IF Deleted THEN late \cup {p} ELSE late
  /\ UNCHANGED <<task, taskRun>>

(* The run is inserted with the version of the loaded row; the task is not *)
(* looked at again, nor told.                                              *)
PostRun(p) ==
  /\ caller[p].pc = "loaded" /\ Answer(p, "created")
  /\ taskRun' = WithRun(p, caller[p].row.version)
  /\ UNCHANGED <<task, late>>

(* A cancel does not touch a transition that is under way. *)
Cancelled(r) == [WithStatus(r, "failed") EXCEPT ![r].move = taskRun[r].move]

LoadForDelete(d) ==
  /\ caller[d].pc = "idle"
  /\ caller' = [caller EXCEPT ![d].pc = IF task.status = "cancelled" THEN "answer"
                                        ELSE IF task.active = NoRun THEN "mark" ELSE "cancel",
                              ![d].row = task]
  /\ UNCHANGED <<task, taskRun, late>>

(* Mutant: any error of cancelRun is taken for a run that has ended. *)
CancelActiveAnyway(d) ==
  LET r == caller[d].row.active IN
  /\ caller[d].pc = "cancel"
  /\ caller' = [caller EXCEPT ![d].pc = "mark"]
  /\ \/ taskRun' = IF taskRun[r].status \in Terminal THEN taskRun ELSE Cancelled(r)
     \/ taskRun' = taskRun
  /\ UNCHANGED <<task, late>>

(* cancelRun of the active run; that it has ended already is no obstacle,  *)
(* any other error is answered with 500, whatever was written.             *)
CancelActive(d) ==
  LET r == caller[d].row.active IN
  /\ caller[d].pc = "cancel"
  /\ \/ /\ taskRun' = IF taskRun[r].status \in Terminal THEN taskRun ELSE Cancelled(r)
        /\ caller' = [caller EXCEPT ![d].pc = "mark"]
     \/ /\ taskRun' \in {taskRun, Cancelled(r)}
        /\ taskRun[r].status \notin Terminal /\ Answer(d, "error")
  /\ UNCHANGED <<task, late>>

(* UPDATE tasks SET status = cancelled, active_run_id = NULL. *)
MarkCancelled(d) ==
  LET marked == [task EXCEPT !.status = "cancelled", !.active = NoRun] IN
  /\ caller[d].pc = "mark"
  /\ \/ task' = marked /\ caller' = [caller EXCEPT ![d].pc = "answer"]
     \/ task' \in {task, marked} /\ Answer(d, "error")
  /\ UNCHANGED <<taskRun, late>>

AnswerDelete(d) ==
  /\ caller[d].pc = "answer" /\ Answer(d, "deleted")
  /\ UNCHANGED <<task, taskRun, late>>

(* The worker checks a transition of a run, and writes it later. *)
RunChecked(r) ==
  /\ taskRun[r].status \notin Terminal /\ taskRun[r].move = "none"
  /\ \E status \in {"active", "failed"} \cup
        (IF taskRun[r].status = "active" THEN {"completed"} ELSE {}) :
       taskRun' = [taskRun EXCEPT ![r].move = status]
  /\ UNCHANGED <<task, caller, late>>

RunWritten(r) ==
  /\ taskRun[r].move # "none"
  /\ taskRun' = WithStatus(r, taskRun[r].move)
  /\ UNCHANGED <<task, caller, late>>

(* releaseTaskLock: UPDATE ... WHERE active_run_id = r. *)
ReleaseTask(r) ==
  /\ taskRun[r].status \in Terminal /\ task.active = r
  /\ task' = [task EXCEPT !.active = NoRun,
                          !.head = IF taskRun[r].status = "completed" THEN r ELSE @]
  /\ UNCHANGED <<taskRun, caller, late>>

TaskNext ==
  \/ \E p \in Posters : LoadForPost(p) \/ PostRun(p)
  \/ \E d \in Deleters : \/ LoadForDelete(d) \/ CancelActive(d)
                         \/ MarkCancelled(d) \/ AnswerDelete(d)
  \/ \E r \in DOMAIN taskRun : RunChecked(r) \/ RunWritten(r) \/ ReleaseTask(r)

TaskSpec == TaskInit /\ [][TaskNext]_taskVars

-----------------------------------------------------------------------------
(* An agent that is cancelled stays so and holds no run; its first run has *)
(* ended, whoever deletes it, whatever fails and whatever its worker does  *)
(* meanwhile (a transition the worker had checked may revive it: the run   *)
(* finding_table); no run is made by a call that came after the answer to  *)
(* a DELETE, though one that came before may still insert its run; and     *)
(* every run has the version the agent was bound to.                       *)
CancelledForGood ==
  /\ Deleted => task.status = "cancelled"
  /\ task.status = "cancelled" =>
       /\ task.active = NoRun
       /\ First \in DOMAIN taskRun => taskRun[First].ended
  /\ late \cap DOMAIN taskRun = {}
  /\ \A r \in DOMAIN taskRun : taskRun[r].version = task.version
=============================================================================
