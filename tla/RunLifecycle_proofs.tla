------------------------- MODULE RunLifecycle_proofs -------------------------
(***************************************************************************)
(* Proofs about RunLifecycle, for any number of runs, executions, cancel   *)
(* requests and chunks.                                                    *)
(***************************************************************************)
EXTENDS RunLifecycle, TLAPS

(* The constants of the state machine hold only statuses. *)
LEMMA TargetTypes ==
  /\ \A s \in Statuses : NextTarget(s) \in Statuses
  /\ \A s \in Statuses : AfterMove(s) \in {"issue", "endpoint", "open", "revoke", "check"}
  /\ \A e \in Execs : OnThrow(e) \in {"revoke", "catch"}
  BY DEF NextTarget, AfterMove, OnThrow, Statuses

LEMMA CancelVerdictType ==
  \A s \in Statuses : CancelVerdict(s) \in {"already", "conflict", "proceed"}
  BY DEF CancelVerdict

(* Appending an event keeps the logs typed. *)
LEMMA EmittedType ==
  ASSUME TypeOK, NEW e \in Execs, exec[e].run \in Runs, NEW type \in EventTypes
  PROVE  Emitted(e, type) \in [Runs -> Seq([type: EventTypes, by: Execs])]
<1>1. [type |-> type, by |-> e] \in [type: EventTypes, by: Execs]
  OBVIOUS
<1>0. events[exec[e].run] \in Seq([type: EventTypes, by: Execs])
  BY DEF TypeOK
<1>2. Append(events[exec[e].run], [type |-> type, by |-> e]) \in Seq([type: EventTypes, by: Execs])
  BY <1>0, <1>1
<1> QED
  BY <1>2 DEF Emitted, TypeOK

-----------------------------------------------------------------------------
(* Type correctness, with what makes it inductive: an execution that has   *)
(* left idle has a run, and so has a cancel request.                       *)
Assigned ==
  /\ \A e \in Execs : At(e, "idle") <=> exec[e].run \notin Runs
  /\ \A c \in Cancels : cancel[c].pc # "idle" => cancel[c].run \in Runs

TypeInv == TypeOK /\ Assigned

LEMMA TypeInit == Init => TypeInv
<1> SUFFICES ASSUME Init PROVE TypeInv
  OBVIOUS
<1> USE RunsAssumption, BoundAssumption
<1>1. run \in [Runs -> [status: Statuses, msg: Messages, versioned: BOOLEAN]]
  BY DEF Init, Statuses, Messages
<1>2. events \in [Runs -> Seq([type: EventTypes, by: Execs])]
  BY DEF Init
<1>3. exec \in [Execs -> ExecStates]
  BY DEF Init, ExecStates, ExecPcs, Statuses
<1>4. cancel \in [Cancels -> CancelStates]
  BY DEF Init, CancelStates
<1>5. Assigned
  BY DEF Init, Assigned, At
<1>6. task \in [active: Runs \cup {None}, head: Runs \cup {None}]
  BY DEF Init
<1> QED
  BY <1>1, <1>2, <1>3, <1>4, <1>5, <1>6 DEF Init, TypeOK, TypeInv

(* Every step of an execution e changes exec only at e, keeps its run and  *)
(* leaves a typed state.                                                   *)
ExecMoves(e) ==
  \E s \in ExecStates :
    /\ exec' = [exec EXCEPT ![e] = s]
    /\ s.run = exec[e].run
    /\ s.pc # "idle"

LEMMA GotoMoves ==
  ASSUME TypeOK, NEW e \in Execs, NEW pc \in ExecPcs \ {"idle"}, Goto(e, pc)
  PROVE  ExecMoves(e)
<1> DEFINE s == [exec[e] EXCEPT !.pc = pc]
<1>0. exec[e] \in ExecStates
  BY DEF TypeOK
<1>1. s \in ExecStates /\ s.run = exec[e].run /\ s.pc = pc
  BY <1>0 DEF ExecStates
<1>2. exec' = [exec EXCEPT ![e] = s]
  BY DEF Goto
<1> QED
  BY <1>1, <1>2 DEF ExecMoves

LEMMA GotoTransitionMoves ==
  ASSUME TypeOK, NEW e \in Execs, NEW to \in Statuses, GotoTransition(e, to)
  PROVE  ExecMoves(e)
<1> DEFINE s == [exec[e] EXCEPT !.pc = "check", !.to = to]
<1>1. s \in ExecStates /\ s.run = exec[e].run /\ s.pc = "check"
  BY DEF TypeOK, ExecStates, ExecPcs, InTry
<1>2. exec' = [exec EXCEPT ![e] = s]
  BY DEF GotoTransition
<1> QED
  BY <1>1, <1>2 DEF ExecMoves

LEMMA MovesKeepType ==
  ASSUME TypeInv, NEW e \in Execs, ~ At(e, "idle"), ExecMoves(e), UNCHANGED cancel
  PROVE  exec' \in [Execs -> ExecStates] /\ cancel' \in [Cancels -> CancelStates] /\ Assigned'
<1>1. PICK s \in ExecStates :
        exec' = [exec EXCEPT ![e] = s] /\ s.run = exec[e].run /\ s.pc # "idle"
  BY DEF ExecMoves
<1>2. exec \in [Execs -> ExecStates]
  BY DEF TypeInv, TypeOK
<1>3. exec' \in [Execs -> ExecStates]
  BY <1>1, <1>2
<1>4. \A f \in Execs : At(f, "idle")' <=> exec'[f].run \notin Runs
  BY <1>1, <1>2 DEF At, TypeInv, Assigned
<1> QED
  BY <1>3, <1>4 DEF Assigned, TypeInv, TypeOK

(* The types of the variables other than exec and cancel. *)
RunTyped == run \in [Runs -> [status: Statuses, msg: Messages, versioned: BOOLEAN]]
EventsTyped == events \in [Runs -> Seq([type: EventTypes, by: Execs])]
TokenTyped == token \in [Execs -> {"none", "live", "revoked"}]
SandboxTyped == sandbox \in [Execs -> {"none", "live", "orphan", "destroyed"}]
TaskTyped == task \in [active: Runs \cup {None}, head: Runs \cup {None}]

LEMMA TypeParts ==
  TypeOK <=> /\ RunTyped /\ EventsTyped /\ TokenTyped /\ SandboxTyped /\ TaskTyped
             /\ exec \in [Execs -> ExecStates] /\ cancel \in [Cancels -> CancelStates]
  BY DEF TypeOK, RunTyped, EventsTyped, TokenTyped, SandboxTyped, TaskTyped

(* Writing a status keeps the rows typed. *)
LEMMA WithStatusType ==
  ASSUME RunTyped, NEW r \in Runs, NEW s \in Statuses, NEW m \in Messages
  PROVE  WithStatus(r, s, m) \in [Runs -> [status: Statuses, msg: Messages, versioned: BOOLEAN]]
  BY DEF WithStatus, RunTyped

LEMMA ExecStepType ==
  ASSUME TypeInv, NEW e \in Execs, ExecStep(e) \/ Crash(e)
  PROVE  TypeInv' /\ ExecMoves(e)
<1> DEFINE Rest == /\ RunTyped' /\ EventsTyped' /\ TokenTyped' /\ SandboxTyped' /\ TaskTyped'
<1>0. /\ TypeOK /\ Assigned
      /\ RunTyped /\ EventsTyped /\ TokenTyped /\ SandboxTyped /\ TaskTyped
      /\ exec[e] \in ExecStates
  BY TypeParts DEF TypeInv, TypeOK
<1>1. ~ At(e, "idle")
  BY DEF ExecStep, At, TransitionCheck, TransitionWrite, IssueToken, CreateSandbox,
         ResolveEndpoint, EmitStarted, SendPrompt, StoreChunk, EndStream, EmitUsage, EmitDone,
         CatchError, RevokeTokens, ReleaseRead, ReleaseWrite, DestroySandbox, Crash
<1>2. exec[e].run \in Runs
  BY <1>0, <1>1 DEF Assigned
<1>3. \A type \in EventTypes : Emitted(e, type) \in [Runs -> Seq([type: EventTypes, by: Execs])]
  BY <1>0, <1>2, EmittedType
<1>4. ASSUME ExecMoves(e), UNCHANGED cancel, Rest PROVE TypeInv' /\ ExecMoves(e)
  BY <1>0, <1>1, <1>4, MovesKeepType DEF TypeInv, TypeOK, RunTyped, EventsTyped, TokenTyped, SandboxTyped, TaskTyped
<1> HIDE DEF Rest
<1>5. \A pc \in ExecPcs \ {"idle"} : Goto(e, pc) => ExecMoves(e)
  BY <1>0, GotoMoves
<1>6. \A to \in Statuses : GotoTransition(e, to) => ExecMoves(e)
  BY <1>0, GotoTransitionMoves
<1>7. OnThrow(e) \in ExecPcs \ {"idle"}
  BY TargetTypes DEF ExecPcs, InFinally
<1>8. UNCHANGED <<rowVars, heldVars>> => Rest
  BY <1>0 DEF Rest, rowVars, heldVars, RunTyped, EventsTyped, TokenTyped, SandboxTyped, TaskTyped
<1> USE DEF ExecPcs, InTry, InFinally
<1>10. CASE TransitionCheck(e)
  BY <1>10, <1>4, <1>5, <1>7, <1>8 DEF TransitionCheck
<1>11. CASE TransitionWrite(e)
  <2>1. Moved(e) \in [Runs -> [status: Statuses, msg: Messages, versioned: BOOLEAN]]
    <3>1. exec[e].to \in Statuses /\ run[exec[e].run].msg \in Messages
      BY <1>0, <1>2 DEF ExecStates, RunTyped
    <3>2. "error" \in Messages
      BY DEF Messages
    <3> QED
      BY <1>0, <1>2, <3>1, <3>2, WithStatusType DEF Moved
  <2>2. Rest
    BY <1>11, <1>0, <2>1 DEF TransitionWrite, Rest, heldVars, RunTyped, EventsTyped, TokenTyped, SandboxTyped, TaskTyped
  <2>3. ExecMoves(e)
    <3>1. CASE exec' = [exec EXCEPT ![e].pc = AfterMove(exec[e].to), ![e].to = NextTarget(exec[e].to)]
      <4> DEFINE s == [exec[e] EXCEPT !.pc = AfterMove(exec[e].to), !.to = NextTarget(exec[e].to)]
      <4>1. exec[e].to \in Statuses
        BY <1>0 DEF ExecStates
      <4>2. AfterMove(exec[e].to) \in ExecPcs \ {"idle"} /\ NextTarget(exec[e].to) \in Statuses
        BY <4>1, TargetTypes
      <4>3. s \in ExecStates /\ s.run = exec[e].run /\ s.pc # "idle"
        BY <1>0, <4>2 DEF ExecStates
      <4>4. exec' = [exec EXCEPT ![e] = s]
        BY <3>1
      <4> QED
        BY <4>3, <4>4 DEF ExecMoves
    <3> QED
      BY <3>1, <1>11, <1>5, <1>7 DEF TransitionWrite
  <2> QED
    BY <2>2, <2>3, <1>4, <1>11 DEF TransitionWrite
<1>12. CASE IssueToken(e)
  <2>1. Rest
    BY <1>12, <1>0 DEF IssueToken, Rest, rowVars, RunTyped, EventsTyped, TokenTyped, SandboxTyped, TaskTyped
  <2> QED
    BY <2>1, <1>12, <1>4, <1>5 DEF IssueToken
<1>13. CASE CreateSandbox(e)
  <2>1. Rest
    BY <1>13, <1>0 DEF CreateSandbox, Rest, rowVars, RunTyped, EventsTyped, TokenTyped, SandboxTyped, TaskTyped
  <2>2. "preparing" \in Statuses
    BY DEF Statuses
  <2> QED
    BY <2>1, <2>2, <1>13, <1>4, <1>5, <1>6 DEF CreateSandbox
<1>14. CASE ResolveEndpoint(e)
  <2>1. "running" \in Statuses
    BY DEF Statuses
  <2> QED
    BY <2>1, <1>14, <1>4, <1>5, <1>6, <1>8 DEF ResolveEndpoint
<1>15. ASSUME \/ events' = events
              \/ \E type \in EventTypes : events' = Emitted(e, type),
              UNCHANGED <<run, task, heldVars, cancel>>
       PROVE Rest
  BY <1>15, <1>0, <1>3 DEF Rest, heldVars, RunTyped, EventsTyped, TokenTyped, SandboxTyped, TaskTyped
<1>16. ASSUME NEW s \in ExecStates, exec' = [exec EXCEPT ![e] = s],
              s.run = exec[e].run, s.pc # "idle"
       PROVE  ExecMoves(e)
  BY <1>16 DEF ExecMoves
<1> USE DEF EventTypes, DoneTypes, MaybeEmitted
<1>18. CASE EmitStarted(e)
  <2>1. Rest
    BY <1>18, <1>15 DEF EmitStarted
  <2>2. ExecMoves(e)
    <3>1. CASE exec' = [exec EXCEPT ![e].pc = "prompt", ![e].started = TRUE]
      <4> DEFINE s == [exec[e] EXCEPT !.pc = "prompt", !.started = TRUE]
      <4>1. s \in ExecStates /\ s.run = exec[e].run /\ s.pc # "idle"
        BY <1>0 DEF ExecStates
      <4>2. exec' = [exec EXCEPT ![e] = s]
        BY <3>1
      <4> QED
        BY <4>1, <4>2, <1>16
    <3> QED
      BY <3>1, <1>18, <1>5 DEF EmitStarted
  <2> QED
    BY <2>1, <2>2, <1>4, <1>18 DEF EmitStarted
<1>19. CASE SendPrompt(e)
  BY <1>19, <1>4, <1>5, <1>8 DEF SendPrompt
<1>20. CASE StoreChunk(e)
  <2>1. Rest
    BY <1>20, <1>15 DEF StoreChunk
  <2>2. exec[e].chunks + 1 \in 0 .. MaxChunks
    BY <1>20, <1>0, BoundAssumption DEF StoreChunk, ExecStates
  <2>3. ExecMoves(e)
    <3> DEFINE s == [exec[e] EXCEPT !.chunks = @ + 1]
    <3>1. s \in ExecStates /\ s.run = exec[e].run /\ s.pc = "stream"
      BY <1>0, <1>20, <2>2 DEF ExecStates, StoreChunk, At
    <3>2. exec' = [exec EXCEPT ![e] = s]
      BY <1>20 DEF StoreChunk
    <3> QED
      BY <3>1, <3>2, <1>16
  <2> QED
    BY <2>1, <2>3, <1>4, <1>20 DEF StoreChunk
<1>21. CASE EndStream(e)
  BY <1>21, <1>4, <1>5, <1>8 DEF EndStream
<1>22. CASE EmitUsage(e)
  <2>1. Rest
    BY <1>22, <1>15 DEF EmitUsage
  <2> QED
    BY <2>1, <1>22, <1>4, <1>5 DEF EmitUsage
<1>23. CASE EmitDone(e)
  <2>1. Rest
    BY <1>23, <1>15 DEF EmitDone
  <2>2. "finalizing_prepare" \in Statuses
    BY DEF Statuses
  <2>3. ExecMoves(e)
    <3>1. CASE exec' = [exec EXCEPT ![e].pc = "check", ![e].to = "finalizing_prepare",
                                    ![e].done = TRUE]
      <4> DEFINE s == [exec[e] EXCEPT !.pc = "check", !.to = "finalizing_prepare", !.done = TRUE]
      <4>1. s \in ExecStates /\ s.run = exec[e].run /\ s.pc # "idle"
        BY <1>0, <2>2 DEF ExecStates
      <4>2. exec' = [exec EXCEPT ![e] = s]
        BY <3>1
      <4> QED
        BY <4>1, <4>2, <1>16
    <3> QED
      BY <3>1, <2>2, <1>23, <1>5, <1>6 DEF EmitDone
  <2> QED
    BY <2>1, <2>3, <1>4, <1>23 DEF EmitDone
<1>24. CASE CatchError(e)
  <2>1. Rest
    BY <1>24, <1>15 DEF CatchError
  <2>2. "failed" \in Statuses
    BY DEF Statuses
  <2>3. ExecMoves(e)
    <3>1. CASE exec' = [exec EXCEPT ![e].pc = "check", ![e].to = "failed", ![e].done = TRUE]
      <4> DEFINE s == [exec[e] EXCEPT !.pc = "check", !.to = "failed", !.done = TRUE]
      <4>1. s \in ExecStates /\ s.run = exec[e].run /\ s.pc # "idle"
        BY <1>0, <2>2 DEF ExecStates
      <4>2. exec' = [exec EXCEPT ![e] = s]
        BY <3>1
      <4> QED
        BY <4>1, <4>2, <1>16
    <3> QED
      BY <3>1, <2>2, <1>24, <1>6 DEF CatchError
  <2> QED
    BY <2>1, <2>3, <1>4, <1>24 DEF CatchError
<1>25. CASE RevokeTokens(e)
  <2>1. Rest
    BY <1>25, <1>0 DEF RevokeTokens, Rest, rowVars, RunTyped, EventsTyped, TokenTyped, SandboxTyped, TaskTyped
  <2> QED
    BY <2>1, <1>25, <1>4, <1>5 DEF RevokeTokens
<1>26. CASE ReleaseRead(e)
  BY <1>26, <1>4, <1>5, <1>8 DEF ReleaseRead
<1>27. CASE ReleaseWrite(e)
  <2>1. TaskTyped'
    BY <1>27, <1>0, <1>2 DEF ReleaseWrite, TaskTyped
  <2>2. RunTyped' /\ EventsTyped' /\ TokenTyped' /\ SandboxTyped'
    BY <1>27, <1>0 DEF ReleaseWrite, heldVars, RunTyped, EventsTyped, TokenTyped, SandboxTyped
  <2>3. Rest
    BY <2>1, <2>2 DEF Rest
  <2> QED
    BY <2>3, <1>27, <1>4, <1>5 DEF ReleaseWrite
<1>28. CASE DestroySandbox(e)
  <2>1. Rest
    BY <1>28, <1>0 DEF DestroySandbox, Rest, rowVars, RunTyped, EventsTyped, TokenTyped, SandboxTyped, TaskTyped
  <2> QED
    BY <2>1, <1>28, <1>4, <1>5 DEF DestroySandbox
<1>29. CASE Crash(e)
  BY <1>29, <1>4, <1>5, <1>8 DEF Crash
<1> QED
  BY <1>10, <1>11, <1>12, <1>13, <1>14, <1>18, <1>19, <1>20, <1>21, <1>22, <1>23, <1>24,
     <1>25, <1>26, <1>27, <1>28, <1>29 DEF ExecStep

LEMMA CancelStepType ==
  ASSUME TypeInv, NEW c \in Cancels,
         (\E r \in Runs : CancelRead(c, r)) \/ CancelStep(c)
  PROVE  TypeInv'
<1>0. TypeOK /\ Assigned /\ RunTyped /\ EventsTyped /\ TokenTyped /\ SandboxTyped /\ TaskTyped
      /\ cancel \in [Cancels -> CancelStates]
  BY TypeParts DEF TypeInv, TypeOK
<1>1. ASSUME NEW s \in CancelStates, cancel' = [cancel EXCEPT ![c] = s], s.run \in Runs,
             RunTyped', UNCHANGED <<events, token, sandbox, task, exec>>
      PROVE TypeInv'
  <2>1. cancel' \in [Cancels -> CancelStates]
    BY <1>0, <1>1
  <2>2. Assigned'
    BY <1>0, <1>1 DEF Assigned, At
  <2> QED
    BY <1>0, <1>1, <2>1, <2>2 DEF TypeInv, TypeOK, RunTyped
<1>2. ASSUME NEW r \in Runs, CancelRead(c, r) PROVE TypeInv'
  <2> DEFINE verdict == CancelVerdict(run[r].status)
  <2> DEFINE s == IF verdict = "proceed" THEN [run |-> r, pc |-> "check", reply |-> "none"]
                                         ELSE [run |-> r, pc |-> "replied", reply |-> verdict]
  <2>1. run[r].status \in Statuses
    BY <1>0 DEF RunTyped
  <2>2. verdict \in {"already", "conflict", "proceed"}
    BY <2>1, CancelVerdictType
  <2>3. cancel' = [cancel EXCEPT ![c] = s]
    BY <1>2 DEF CancelRead
  <2> HIDE DEF verdict
  <2>4. s \in CancelStates /\ s.run = r
    BY <2>2 DEF CancelStates
  <2> QED
    BY <1>0, <1>1, <1>2, <2>3, <2>4 DEF CancelRead, rowVars, heldVars, RunTyped
<1>3. CASE CancelCheck(c)
  <2>1. cancel[c] \in CancelStates /\ cancel[c].run \in Runs
    BY <1>0, <1>3 DEF CancelCheck, Assigned
  <2> DEFINE s == IF CanTransition(run[cancel[c].run].status, "failed")
                  THEN [cancel[c] EXCEPT !.pc = "write"]
                  ELSE [cancel[c] EXCEPT !.pc = "replied", !.reply = "error"]
  <2>2. s \in CancelStates /\ s.run = cancel[c].run
    BY <2>1 DEF CancelStates
  <2>3. cancel' = [cancel EXCEPT ![c] = s]
    BY <1>3 DEF CancelCheck
  <2> QED
    BY <1>0, <1>1, <1>3, <2>1, <2>2, <2>3 DEF CancelCheck, rowVars, heldVars, RunTyped
<1>4. CASE CancelWrite(c)
  <2>1. cancel[c] \in CancelStates /\ cancel[c].run \in Runs
    BY <1>0, <1>4 DEF CancelWrite, Assigned
  <2>2. "failed" \in Statuses /\ "cancelled" \in Messages
    BY DEF Statuses, Messages
  <2>3. RunTyped'
    <3>1. WithStatus(cancel[c].run, "failed", "cancelled")
            \in [Runs -> [status: Statuses, msg: Messages, versioned: BOOLEAN]]
      BY <1>0, <2>1, <2>2, WithStatusType
    <3> QED
      BY <3>1, <1>0, <1>4 DEF CancelWrite, RunTyped
  <2>4. PICK reply \in {"cancelled", "error"} :
          cancel' = [cancel EXCEPT ![c].pc = "replied", ![c].reply = reply]
    BY <1>4 DEF CancelWrite
  <2> DEFINE s == [cancel[c] EXCEPT !.pc = "replied", !.reply = reply]
  <2>5. s \in CancelStates /\ s.run = cancel[c].run
    BY <2>1 DEF CancelStates
  <2>6. cancel' = [cancel EXCEPT ![c] = s]
    BY <2>4
  <2> QED
    BY <1>1, <1>4, <2>1, <2>3, <2>5, <2>6 DEF CancelWrite, heldVars
<1> QED
  BY <1>2, <1>3, <1>4 DEF CancelStep

LEMMA DeliverType ==
  ASSUME TypeInv, NEW e \in Execs, NEW r \in Runs, Deliver(e, r)
  PROVE  TypeInv'
<1>1. exec[e] \in ExecStates
  BY DEF TypeInv, TypeOK
<1>2. PICK pc \in {"check", "ended"} : exec' = [exec EXCEPT ![e].run = r, ![e].pc = pc]
  BY DEF Deliver
<1> DEFINE s == [exec[e] EXCEPT !.run = r, !.pc = pc]
<1>3. s \in ExecStates /\ s.run = r /\ s.pc = pc
  BY <1>1 DEF ExecStates, ExecPcs, InTry
<1>4. exec' = [exec EXCEPT ![e] = s]
  BY <1>2
<1>5. exec' \in [Execs -> ExecStates]
  BY <1>3, <1>4 DEF TypeInv, TypeOK
<1>6. \A f \in Execs : exec'[f] = IF f = e THEN s ELSE exec[f]
  BY <1>4 DEF TypeInv, TypeOK
<1>7. Assigned'
  BY <1>3, <1>6 DEF Deliver, TypeInv, Assigned, At
<1> QED
  BY <1>5, <1>7 DEF Deliver, TypeInv, TypeOK, rowVars, heldVars

LEMMA RecoverType ==
  ASSUME TypeInv, RecoverStuckRuns
  PROVE  TypeInv'
<1>1. "failed" \in Statuses /\ "unreachable" \in Messages
  BY DEF Statuses, Messages
<1>2. RunTyped
  BY DEF TypeInv, TypeOK, RunTyped
<1>3. RunTyped'
  BY <1>1, <1>2 DEF RecoverStuckRuns, RunTyped
<1> QED
  BY <1>3 DEF RecoverStuckRuns, TypeInv, TypeOK, RunTyped, Assigned, At, heldVars

LEMMA TypeStep == TypeInv /\ [Next]_vars => TypeInv'
<1> SUFFICES ASSUME TypeInv, [Next]_vars PROVE TypeInv'
  OBVIOUS
<1>1. CASE UNCHANGED vars
  BY <1>1 DEF vars, rowVars, TypeInv, TypeOK, Assigned, At
<1>2. CASE Next
  BY <1>2, ExecStepType, CancelStepType, DeliverType, RecoverType DEF Next
<1> QED
  BY <1>1, <1>2

(* Every variable keeps its type, whatever the environment does.           *)
THEOREM TypeCorrect == Spec => []TypeOK
<1>1. TypeInv => TypeOK
  BY DEF TypeInv
<1> QED
  BY <1>1, TypeInit, TypeStep, PTL DEF Spec

-----------------------------------------------------------------------------
(* The frame of a step: whose local state it leaves alone.                 *)
LEMMA OthersStay ==
  ASSUME TypeInv, NEW e \in Execs, ExecStep(e) \/ Crash(e)
  PROVE  /\ exec[e].run \in Runs /\ exec'[e].run = exec[e].run
         /\ exec'[e].pc # "idle"
         /\ \A f \in Execs : f # e => exec'[f] = exec[f]
<1>1. PICK s \in ExecStates :
        exec' = [exec EXCEPT ![e] = s] /\ s.run = exec[e].run /\ s.pc # "idle"
  BY ExecStepType DEF ExecMoves
<1>2. exec \in [Execs -> ExecStates]
  BY DEF TypeInv, TypeOK
<1>3. exec'[e] = s /\ \A f \in Execs : f # e => exec'[f] = exec[f]
  BY <1>1, <1>2
<1>4. exec'[e].run \in Runs
  <2>1. TypeInv'
    BY ExecStepType
  <2> QED
    BY <1>1, <1>3, <2>1 DEF TypeInv, Assigned, At
<1> QED
  BY <1>1, <1>3, <1>4

(* The local state of an execution after each kind of update that execute  *)
(* makes to it.                                                            *)
Local(e, pc, to, started, done) ==
  /\ exec'[e].pc = pc /\ exec'[e].to = to
  /\ exec'[e].started = started /\ exec'[e].done = done

LEMMA LocalAfter ==
  ASSUME TypeOK, NEW e \in Execs
  PROVE  /\ \A pc : Goto(e, pc) => Local(e, pc, exec[e].to, exec[e].started, exec[e].done)
         /\ \A to : GotoTransition(e, to) => Local(e, "check", to, exec[e].started, exec[e].done)
         /\ \A pc, to : exec' = [exec EXCEPT ![e].pc = pc, ![e].to = to]
                       => Local(e, pc, to, exec[e].started, exec[e].done)
         /\ exec' = [exec EXCEPT ![e].pc = "prompt", ![e].started = TRUE]
              => Local(e, "prompt", exec[e].to, TRUE, exec[e].done)
         /\ exec' = [exec EXCEPT ![e].chunks = @ + 1]
              => Local(e, exec[e].pc, exec[e].to, exec[e].started, exec[e].done)
         /\ \A to : exec' = [exec EXCEPT ![e].pc = "check", ![e].to = to, ![e].done = TRUE]
                   => Local(e, "check", to, exec[e].started, TRUE)
<1>1. exec \in [Execs -> [run: Runs \cup {None}, pc: ExecPcs, to: Statuses,
                            started: BOOLEAN, done: BOOLEAN, chunks: 0 .. MaxChunks]]
  BY DEF TypeOK, ExecStates
<1>2. ASSUME NEW pc, Goto(e, pc)
      PROVE  Local(e, pc, exec[e].to, exec[e].started, exec[e].done)
  BY <1>1, <1>2 DEF Local, Goto
<1>3. ASSUME NEW pc, NEW to, exec' = [exec EXCEPT ![e].pc = pc, ![e].to = to]
      PROVE  Local(e, pc, to, exec[e].started, exec[e].done)
  BY <1>1, <1>3 DEF Local
<1>4. ASSUME NEW to, GotoTransition(e, to)
      PROVE  Local(e, "check", to, exec[e].started, exec[e].done)
  BY <1>3, <1>4 DEF GotoTransition
<1>5. ASSUME exec' = [exec EXCEPT ![e].pc = "prompt", ![e].started = TRUE]
      PROVE  Local(e, "prompt", exec[e].to, TRUE, exec[e].done)
  BY <1>1, <1>5 DEF Local
<1>6. ASSUME exec' = [exec EXCEPT ![e].chunks = @ + 1]
      PROVE  Local(e, exec[e].pc, exec[e].to, exec[e].started, exec[e].done)
  BY <1>1, <1>6 DEF Local
<1>7. ASSUME NEW to, exec' = [exec EXCEPT ![e].pc = "check", ![e].to = to, ![e].done = TRUE]
      PROVE  Local(e, "check", to, exec[e].started, TRUE)
  BY <1>1, <1>7 DEF Local
<1> QED
  BY <1>2, <1>3, <1>4, <1>5, <1>6, <1>7

(* Where each action takes the execution, and what it does to the two      *)
(* flags; the target of the next transition with it.                       *)
Keeps(e, pc) == Local(e, pc, exec[e].to, exec[e].started, exec[e].done)
Targets(e, to) == Local(e, "check", to, exec[e].started, exec[e].done)

LEMMA Flow ==
  ASSUME TypeInv, NEW e \in Execs
  PROVE
    /\ TransitionCheck(e) => Keeps(e, "write") \/ Keeps(e, OnThrow(e))
    /\ TransitionWrite(e) =>
         \/ Local(e, AfterMove(exec[e].to), NextTarget(exec[e].to), exec[e].started, exec[e].done)
         \/ "db" \in Faults /\ Keeps(e, OnThrow(e))
    /\ IssueToken(e) => Keeps(e, "create") \/ Keeps(e, "catch")
    /\ CreateSandbox(e) => Targets(e, "preparing") \/ Keeps(e, "catch")
    /\ ResolveEndpoint(e) => Targets(e, "running") \/ Keeps(e, "catch")
    /\ EmitStarted(e) =>
         \/ run[exec[e].run].versioned /\ Local(e, "prompt", exec[e].to, TRUE, exec[e].done)
         \/ "db" \in Faults /\ Keeps(e, "catch")
         \/ ~ run[exec[e].run].versioned /\ Keeps(e, "prompt")
    /\ SendPrompt(e) => Keeps(e, "stream") \/ Keeps(e, "catch")
    /\ StoreChunk(e) => Keeps(e, "stream")
    /\ EndStream(e) => Keeps(e, "usage") \/ Keeps(e, "catch")
    /\ EmitUsage(e) => Keeps(e, "done")
    /\ EmitDone(e) =>
         \/ exec[e].started /\ Local(e, "check", "finalizing_prepare", exec[e].started, TRUE)
         \/ "db" \in Faults /\ Keeps(e, "catch")
         \/ ~ exec[e].started /\ Targets(e, "finalizing_prepare")
    /\ CatchError(e) =>
         \/ exec[e].started /\ ~ exec[e].done /\ Local(e, "check", "failed", exec[e].started, TRUE)
         \/ Targets(e, "failed")
    /\ RevokeTokens(e) => Keeps(e, "release")
    /\ ReleaseRead(e) =>
         \/ run[exec[e].run].status = "completed" /\ Keeps(e, "advance")
         \/ Keeps(e, "unlock")
         \/ "db" \in Faults /\ Keeps(e, "destroy")
    /\ ReleaseWrite(e) => Keeps(e, "destroy")
    /\ DestroySandbox(e) => Keeps(e, "ended")
    /\ Crash(e) => Keeps(e, "crashed")
<1>1. TypeOK
  BY DEF TypeInv
<1> USE LocalAfter, <1>1 DEF Keeps, Targets
<1>2. /\ TransitionCheck(e) => Keeps(e, "write") \/ Keeps(e, OnThrow(e))
      /\ IssueToken(e) => Keeps(e, "create") \/ Keeps(e, "catch")
      /\ CreateSandbox(e) => Targets(e, "preparing") \/ Keeps(e, "catch")
      /\ ResolveEndpoint(e) => Targets(e, "running") \/ Keeps(e, "catch")
      /\ SendPrompt(e) => Keeps(e, "stream") \/ Keeps(e, "catch")
      /\ EndStream(e) => Keeps(e, "usage") \/ Keeps(e, "catch")
      /\ EmitUsage(e) => Keeps(e, "done")
  BY DEF TransitionCheck, IssueToken, CreateSandbox, ResolveEndpoint, SendPrompt, EndStream, EmitUsage
<1>3. /\ RevokeTokens(e) => Keeps(e, "release")
      /\ ReleaseRead(e) =>
         \/ run[exec[e].run].status = "completed" /\ Keeps(e, "advance")
         \/ Keeps(e, "unlock")
         \/ "db" \in Faults /\ Keeps(e, "destroy")
      /\ ReleaseWrite(e) => Keeps(e, "destroy")
      /\ DestroySandbox(e) => Keeps(e, "ended")
      /\ Crash(e) => Keeps(e, "crashed")
  BY DEF RevokeTokens, ReleaseRead, ReleaseWrite, DestroySandbox, Crash, Status
<1>4. TransitionWrite(e) =>
         \/ Local(e, AfterMove(exec[e].to), NextTarget(exec[e].to), exec[e].started, exec[e].done)
         \/ "db" \in Faults /\ Keeps(e, OnThrow(e))
  BY DEF TransitionWrite
<1>5. EmitStarted(e) =>
         \/ run[exec[e].run].versioned /\ Local(e, "prompt", exec[e].to, TRUE, exec[e].done)
         \/ "db" \in Faults /\ Keeps(e, "catch")
         \/ ~ run[exec[e].run].versioned /\ Keeps(e, "prompt")
  BY DEF EmitStarted
<1>6. StoreChunk(e) => Keeps(e, "stream")
  BY DEF StoreChunk, At
<1>7. EmitDone(e) =>
         \/ exec[e].started /\ Local(e, "check", "finalizing_prepare", exec[e].started, TRUE)
         \/ "db" \in Faults /\ Keeps(e, "catch")
         \/ ~ exec[e].started /\ Targets(e, "finalizing_prepare")
  BY DEF EmitDone
<1>8. CatchError(e) =>
         \/ exec[e].started /\ ~ exec[e].done /\ Local(e, "check", "failed", exec[e].started, TRUE)
         \/ Targets(e, "failed")
  BY DEF CatchError
<1> QED
  BY <1>2, <1>3, <1>4, <1>5, <1>6, <1>7, <1>8

LEMMA DeliverAfter ==
  ASSUME TypeInv, NEW e \in Execs, NEW r \in Runs, Deliver(e, r)
  PROVE  /\ exec'[e].run = r
         /\ \/ Local(e, "check", exec[e].to, exec[e].started, exec[e].done)
            \/ "db" \in Faults /\ Local(e, "ended", exec[e].to, exec[e].started, exec[e].done)
         /\ \A f \in Execs : f # e => exec'[f] = exec[f]
<1>1. exec \in [Execs -> ExecStates] /\ exec[e] \in ExecStates
  BY DEF TypeInv, TypeOK
<1> QED
  BY <1>1 DEF Deliver, Local, ExecStates

(* The three kinds of steps, as seen by an execution. *)
Quiet == UNCHANGED <<exec, token, task, events>>

LEMMA NextKinds ==
  ASSUME [Next]_vars
  PROVE  \/ \E e \in Execs : ExecStep(e) \/ Crash(e)
         \/ \E e \in Execs, r \in Runs : Deliver(e, r)
         \/ Quiet
<1>1. ASSUME NEW c \in Cancels, (\E r \in Runs : CancelRead(c, r)) \/ CancelStep(c) PROVE Quiet
  BY <1>1 DEF CancelStep, CancelRead, CancelCheck, CancelWrite, Quiet, rowVars, heldVars
<1>2. RecoverStuckRuns => Quiet
  BY DEF RecoverStuckRuns, Quiet, heldVars
<1>3. UNCHANGED vars => Quiet
  BY DEF vars, Quiet, rowVars, heldVars
<1> QED
  BY <1>1, <1>2, <1>3 DEF Next

-----------------------------------------------------------------------------
(* The finally block, when Postgres answers: the tokens of a run are       *)
(* revoked and its task is unlocked before the execution ends.             *)

TokenInv ==
  "db" \notin Faults =>
    \A e \in Execs :
      token[e] = "live" =>
        exec[e].pc \notin {"release", "unlock", "advance", "destroy", "ended"}

LockInv ==
  "db" \notin Faults =>
    \A e \in Execs : exec[e].pc \in {"destroy", "ended"} => task.active # exec[e].run

LEMMA FinallyInit == Init => TokenInv /\ LockInv
  BY DEF Init, TokenInv, LockInv

LEMMA TokenStep == TypeInv /\ TokenInv /\ [Next]_vars => TokenInv'
<1> SUFFICES ASSUME TypeInv, TokenInv, [Next]_vars, "db" \notin Faults,
                    NEW f \in Execs, token'[f] = "live"
             PROVE  exec'[f].pc \notin {"release", "unlock", "advance", "destroy", "ended"}
  BY DEF TokenInv
<1>0. token \in [Execs -> {"none", "live", "revoked"}] /\ exec \in [Execs -> ExecStates]
  BY DEF TypeInv, TypeOK
<1>1. ASSUME NEW e \in Execs, ExecStep(e) \/ Crash(e)
      PROVE  exec'[f].pc \notin {"release", "unlock", "advance", "destroy", "ended"}
  <2>1. token[f] = "live" \/ (f = e /\ At(e, "issue"))
    <3>1. CASE IssueToken(e)
      BY <3>1, <1>0 DEF IssueToken
    <3>2. CASE RevokeTokens(e)
      <4>1. \/ token' = [x \in Execs |-> IF exec[x].run = exec[e].run /\ token[x] = "live"
                                       THEN "revoked" ELSE token[x]]
            \/ token' = token
        BY <3>2 DEF RevokeTokens
      <4> QED
        BY <4>1
    <3>3. CASE ~ IssueToken(e) /\ ~ RevokeTokens(e)
      <4>1. token' = token
        BY <3>3, <1>1
           DEF ExecStep, heldVars, TransitionCheck, TransitionWrite, CreateSandbox,
               ResolveEndpoint, EmitStarted, SendPrompt, StoreChunk, EndStream, EmitUsage,
               EmitDone, CatchError, ReleaseRead, ReleaseWrite, DestroySandbox, Crash
      <4> QED
        BY <4>1
    <3> QED
      BY <3>1, <3>2, <3>3
  <2>2. ~ (f = e /\ RevokeTokens(e))
    BY <1>0 DEF RevokeTokens
  <2>3. CASE f # e
    BY <1>1, <2>1, <2>3, OthersStay DEF TokenInv
  <2>4. CASE f = e
    <3>1. exec[e].pc \notin {"release", "unlock", "advance", "destroy", "ended"}
      BY <2>1, <2>4 DEF TokenInv, At
    <3>2. exec[e].to \in Statuses
      BY <1>0 DEF ExecStates
    <3> QED
      BY <1>1, <2>2, <2>4, <3>1, <3>2, Flow, TargetTypes
         DEF ExecStep, Keeps, Targets, Local, At, ReleaseRead, ReleaseWrite, DestroySandbox
  <2> QED
    BY <2>3, <2>4
<1>2. ASSUME NEW e \in Execs, NEW r \in Runs, Deliver(e, r)
      PROVE  exec'[f].pc \notin {"release", "unlock", "advance", "destroy", "ended"}
  <2>1. token' = token
    BY <1>2 DEF Deliver, heldVars
  <2> QED
    BY <1>2, <2>1, DeliverAfter DEF TokenInv, Local
<1>3. CASE Quiet
  BY <1>3 DEF Quiet, TokenInv
<1> QED
  BY <1>1, <1>2, <1>3, NextKinds

LEMMA LockStep == TypeInv /\ LockInv /\ [Next]_vars => LockInv'
<1> SUFFICES ASSUME TypeInv, LockInv, [Next]_vars, "db" \notin Faults,
                    NEW f \in Execs, exec'[f].pc \in {"destroy", "ended"}
             PROVE  task'.active # exec'[f].run
  BY DEF LockInv
<1>0. exec \in [Execs -> ExecStates]
  BY DEF TypeInv, TypeOK
<1>1. ASSUME NEW e \in Execs, ExecStep(e) \/ Crash(e)
      PROVE  task'.active # exec'[f].run
  <2>0. exec'[f].run = exec[f].run /\ (f # e => exec'[f] = exec[f])
    BY <1>1, OthersStay
  <2>1. task' = task \/ (ReleaseWrite(e) /\ task' # task)
    BY <1>1
       DEF ExecStep, rowVars, TransitionCheck, TransitionWrite, IssueToken, CreateSandbox,
           ResolveEndpoint, EmitStarted, SendPrompt, StoreChunk, EndStream, EmitUsage,
           EmitDone, CatchError, RevokeTokens, ReleaseRead, ReleaseWrite, DestroySandbox, Crash
  <2>2. task'.active = task.active \/ task'.active = None
    BY <2>1 DEF ReleaseWrite
  <2>3. exec[f].run \in Runs
    <3>1. TypeInv'
      BY <1>1, ExecStepType
    <3> QED
      BY <3>1, <2>0 DEF TypeInv, Assigned, At
  <2>4. CASE exec[f].pc \in {"destroy", "ended"}
    BY <2>0, <2>2, <2>3, <2>4, RunsAssumption DEF LockInv
  <2>5. CASE exec[f].pc \notin {"destroy", "ended"}
    <3>1. f = e
      BY <2>0, <2>5
    <3>2. exec[e].to \in Statuses
      BY <1>0 DEF ExecStates
    <3>3. ReleaseWrite(e)
      <4> QED
        BY <1>1, <2>5, <3>1, <3>2, Flow, TargetTypes
           DEF ExecStep, Keeps, Targets, Local, At, DestroySandbox, StoreChunk
    <3>4. task' = IF task.active # exec[e].run THEN task
                  ELSE [active |-> None, head |-> IF At(e, "advance") THEN exec[e].run ELSE task.head]
      BY <3>3 DEF ReleaseWrite
    <3> QED
      BY <3>1, <3>4, <2>0, <2>3, RunsAssumption
  <2> QED
    BY <2>4, <2>5
<1>2. ASSUME NEW e \in Execs, NEW r \in Runs, Deliver(e, r)
      PROVE  task'.active # exec'[f].run
  <2>1. task' = task
    BY <1>2 DEF Deliver, rowVars
  <2> QED
    BY <1>2, <2>1, DeliverAfter DEF LockInv, Local
<1>3. CASE Quiet
  BY <1>3 DEF Quiet, LockInv
<1> QED
  BY <1>1, <1>2, <1>3, NextKinds

(* As long as Postgres answers, no llm-router token stays live beyond the  *)
(* start of the clean-up of the execution that issued it.                  *)
THEOREM TokensRevoked ==
  ASSUME "db" \notin Faults
  PROVE  Spec => []TokenEndsWithExecution
<1>1. TokenInv => TokenEndsWithExecution
  BY DEF TokenInv, TokenEndsWithExecution
<1>2. Init => TypeInv /\ TokenInv
  BY TypeInit, FinallyInit
<1> QED
  BY <1>1, <1>2, TypeStep, TokenStep, PTL DEF Spec

(* As long as Postgres answers, an execution that has ended has left the   *)
(* task unlocked.                                                          *)
THEOREM LockAlwaysReleased ==
  ASSUME "db" \notin Faults
  PROVE  Spec => []LockReleased
<1>1. LockInv => LockReleased
  BY DEF LockInv, LockReleased, At
<1>2. Init => TypeInv /\ LockInv
  BY TypeInit, FinallyInit
<1> QED
  BY <1>1, <1>2, TypeStep, LockStep, PTL DEF Spec

-----------------------------------------------------------------------------
(* The control of execute: before run-started, between it and run-done,    *)
(* and after; what the two flags say in each of the three.                 *)

Opening(e) ==
  \/ exec[e].pc \in {"idle", "issue", "create", "endpoint", "open"}
  \/ /\ exec[e].pc \in {"check", "write"}
     /\ exec[e].to \in {"provisioning", "preparing", "running"}

Streaming(e) == exec[e].pc \in {"prompt", "stream", "usage", "done"}

Control ==
  \A e \in Execs :
    /\ exec[e].pc = "idle" => exec[e].to = "provisioning"
    /\ Opening(e) => ~ exec[e].started
    /\ Streaming(e) => exec[e].started = run[exec[e].run].versioned
    /\ Opening(e) \/ Streaming(e) => ~ exec[e].done
    /\ exec[e].done => exec[e].started

LEMMA ControlInit == Init => Control
  BY DEF Init, Control, Opening, Streaming

(* A run keeps the definition version it was created with. *)
LEMMA VersionStays ==
  ASSUME TypeInv, [Next]_vars
  PROVE  \A r \in Runs : run'[r].versioned = run[r].versioned
<1>0. run \in [Runs -> [status: Statuses, msg: Messages, versioned: BOOLEAN]]
  BY DEF TypeInv, TypeOK
<1>1. \A r, q \in Runs : \A t, m : WithStatus(q, t, m)[r].versioned = run[r].versioned
  BY <1>0 DEF WithStatus
<1>2. ASSUME NEW e \in Execs, ExecStep(e) \/ Crash(e)
      PROVE  \A r \in Runs : run'[r].versioned = run[r].versioned
  <2>1. CASE TransitionWrite(e)
    <3>1. exec[e].run \in Runs
      BY <1>2, OthersStay
    <3>2. run' = run \/ run' = Moved(e)
      BY <2>1 DEF TransitionWrite
    <3> QED
      BY <3>1, <3>2, <1>1 DEF Moved
  <2>2. CASE ~ TransitionWrite(e)
    <3>1. run' = run
      BY <1>2, <2>2
         DEF ExecStep, rowVars, TransitionCheck, IssueToken, CreateSandbox, ResolveEndpoint,
             EmitStarted, SendPrompt, StoreChunk, EndStream, EmitUsage, EmitDone, CatchError,
             RevokeTokens, ReleaseRead, ReleaseWrite, DestroySandbox, Crash
    <3> QED
      BY <3>1
  <2> QED
    BY <2>1, <2>2
<1>3. ASSUME NEW c \in Cancels, (\E r \in Runs : CancelRead(c, r)) \/ CancelStep(c)
      PROVE  \A r \in Runs : run'[r].versioned = run[r].versioned
  <2>1. CASE CancelWrite(c)
    <3>1. cancel[c].run \in Runs
      BY <2>1 DEF CancelWrite, TypeInv, Assigned
    <3>2. run' = run \/ run' = WithStatus(cancel[c].run, "failed", "cancelled")
      BY <2>1 DEF CancelWrite
    <3> QED
      BY <3>1, <3>2, <1>1
  <2>2. CASE ~ CancelWrite(c)
    BY <1>3, <2>2 DEF CancelStep, CancelRead, CancelCheck, rowVars
  <2> QED
    BY <2>1, <2>2
<1>4. CASE RecoverStuckRuns
  BY <1>0, <1>4 DEF RecoverStuckRuns
<1>5. ASSUME NEW e \in Execs, NEW r \in Runs, Deliver(e, r) PROVE run' = run
  BY <1>5 DEF Deliver, rowVars
<1>6. UNCHANGED vars => run' = run
  BY DEF vars, rowVars
<1> QED
  BY <1>2, <1>3, <1>4, <1>5, <1>6 DEF Next

LEMMA ControlStep == TypeInv /\ Control /\ [Next]_vars => Control'
<1> SUFFICES ASSUME TypeInv, Control, [Next]_vars, NEW f \in Execs
             PROVE  /\ exec'[f].pc = "idle" => exec'[f].to = "provisioning"
                    /\ Opening(f)' => ~ exec'[f].started
                    /\ Streaming(f)' => exec'[f].started = run'[exec'[f].run].versioned
                    /\ Opening(f)' \/ Streaming(f)' => ~ exec'[f].done
                    /\ exec'[f].done => exec'[f].started
  BY DEF Control
<1>0. exec \in [Execs -> ExecStates] /\ exec[f] \in ExecStates
  BY DEF TypeInv, TypeOK
<1>1. ASSUME exec'[f] = exec[f]
      PROVE  /\ exec'[f].pc = "idle" => exec'[f].to = "provisioning"
             /\ Opening(f)' => ~ exec'[f].started
             /\ Streaming(f)' => exec'[f].started = run'[exec'[f].run].versioned
             /\ Opening(f)' \/ Streaming(f)' => ~ exec'[f].done
             /\ exec'[f].done => exec'[f].started
  <2>1. Opening(f)' = Opening(f) /\ Streaming(f)' = Streaming(f)
    BY <1>1 DEF Opening, Streaming
  <2>2. Streaming(f) => exec[f].run \in Runs
    BY DEF Streaming, TypeInv, Assigned, At
  <2> QED
    BY <1>1, <2>1, <2>2, VersionStays DEF Control
<1>2. ASSUME NEW e \in Execs, ExecStep(e) \/ Crash(e), e = f
      PROVE  /\ exec'[f].pc = "idle" => exec'[f].to = "provisioning"
             /\ Opening(f)' => ~ exec'[f].started
             /\ Streaming(f)' => exec'[f].started = run'[exec'[f].run].versioned
             /\ Opening(f)' \/ Streaming(f)' => ~ exec'[f].done
             /\ exec'[f].done => exec'[f].started
  <2>1. /\ exec'[e].pc # "idle" /\ exec'[e].run = exec[e].run
        /\ run'[exec'[e].run].versioned = run[exec[e].run].versioned
    BY <1>2, OthersStay, VersionStays
  <2>2. exec[e].to \in Statuses /\ exec[e].started \in BOOLEAN /\ exec[e].done \in BOOLEAN
    BY <1>0, <1>2 DEF ExecStates
  <2>3. /\ Opening(e) => ~ exec[e].started
        /\ Streaming(e) => exec[e].started = run[exec[e].run].versioned
        /\ Opening(e) \/ Streaming(e) => ~ exec[e].done
        /\ exec[e].done => exec[e].started
    BY DEF Control
  <2> USE DEF Opening, Streaming, Keeps, Targets, Local
  <2>4. CASE TransitionCheck(e)
    BY <2>1, <2>2, <2>3, <2>4, <1>2, Flow, TargetTypes DEF TransitionCheck, At
  <2>5. CASE TransitionWrite(e)
    <3>1. \/ Local(e, AfterMove(exec[e].to), NextTarget(exec[e].to), exec[e].started, exec[e].done)
          \/ Keeps(e, OnThrow(e))
      BY <2>5, Flow
    <3>2. AfterMove(exec[e].to) \in {"issue", "endpoint", "open"} =>
            exec[e].to \in {"provisioning", "preparing", "running"}
      BY <2>2 DEF AfterMove, Statuses
    <3>3. AfterMove(exec[e].to) = "check" =>
            NextTarget(exec[e].to) \notin {"provisioning", "preparing", "running"}
      BY <2>2 DEF AfterMove, NextTarget, Statuses
    <3>4. exec[e].pc = "write"
      BY <2>5 DEF TransitionWrite, At
    <3> QED
      BY <2>1, <2>2, <2>3, <3>1, <3>2, <3>3, <3>4, <1>2, TargetTypes
  <2>6. CASE IssueToken(e) \/ CreateSandbox(e) \/ ResolveEndpoint(e)
    BY <2>1, <2>2, <2>3, <2>6, <1>2, Flow DEF IssueToken, CreateSandbox, ResolveEndpoint, At
  <2>7. CASE EmitStarted(e)
    <3>1. run[exec[e].run].versioned \in BOOLEAN
      BY <1>2, OthersStay DEF TypeInv, TypeOK
    <3>2. exec[e].pc = "open"
      BY <2>7 DEF EmitStarted, At
    <3> QED
      BY <2>1, <2>2, <2>3, <2>7, <3>1, <3>2, <1>2, Flow
  <2>8. CASE SendPrompt(e) \/ StoreChunk(e) \/ EndStream(e) \/ EmitUsage(e)
    BY <2>1, <2>2, <2>3, <2>8, <1>2, Flow DEF SendPrompt, StoreChunk, EndStream, EmitUsage, At
  <2>9. CASE EmitDone(e) \/ CatchError(e)
    BY <2>1, <2>2, <2>3, <2>9, <1>2, Flow DEF EmitDone, CatchError, At
  <2>10. CASE RevokeTokens(e) \/ ReleaseRead(e) \/ ReleaseWrite(e) \/ DestroySandbox(e) \/ Crash(e)
    BY <2>1, <2>2, <2>3, <2>10, <1>2, Flow
  <2> QED
    BY <1>2, <2>4, <2>5, <2>6, <2>7, <2>8, <2>9, <2>10 DEF ExecStep
<1>3. ASSUME NEW e \in Execs, NEW r \in Runs, Deliver(e, r), e = f
      PROVE  /\ exec'[f].pc = "idle" => exec'[f].to = "provisioning"
             /\ Opening(f)' => ~ exec'[f].started
             /\ Streaming(f)' => exec'[f].started = run'[exec'[f].run].versioned
             /\ Opening(f)' \/ Streaming(f)' => ~ exec'[f].done
             /\ exec'[f].done => exec'[f].started
  <2>1. exec[e].pc = "idle"
    BY <1>3 DEF Deliver, At
  <2> QED
    BY <1>3, <2>1, DeliverAfter DEF Control, Opening, Streaming, Local
<1>4. Quiet => exec'[f] = exec[f]
  BY DEF Quiet
<1> QED
  BY <1>1, <1>2, <1>3, <1>4, NextKinds, OthersStay, DeliverAfter

-----------------------------------------------------------------------------
(* What one step of an execution may do to the event log and to the two    *)
(* flags: nothing, one event that the flags account for, or, when the      *)
(* database fails, one event they do not account for.                      *)

SameFlags(e) == exec'[e].started = exec[e].started /\ exec'[e].done = exec[e].done

NoEvent(e) == events' = events /\ SameFlags(e)

OpenEvent(e) ==
  /\ events' = Emitted(e, "started") /\ ~ exec[e].started /\ ~ exec[e].done
  /\ exec'[e].started /\ exec'[e].done = exec[e].done

PlainEvent(e, type) == events' = Emitted(e, type) /\ ~ exec[e].done /\ SameFlags(e)

DoneEvent(e, type) ==
  /\ events' = Emitted(e, type) /\ exec[e].started /\ ~ exec[e].done
  /\ exec'[e].started = exec[e].started /\ exec'[e].done

LostEvent(e, type) ==
  /\ "db" \in Faults
  /\ events' = Emitted(e, type) /\ SameFlags(e)
  /\ type \in DoneTypes => exec[e].started

EventSteps(e) ==
  \/ NoEvent(e)
  \/ OpenEvent(e)
  \/ \E type \in {"chunk", "usage"} : PlainEvent(e, type)
  \/ \E type \in DoneTypes : DoneEvent(e, type)
  \/ \E type \in EventTypes : LostEvent(e, type)

LEMMA EventsAfter ==
  ASSUME TypeInv, Control, NEW e \in Execs, ExecStep(e) \/ Crash(e)
  PROVE  EventSteps(e)
<1>0. exec[e].to \in Statuses /\ exec[e].started \in BOOLEAN /\ exec[e].done \in BOOLEAN
  BY DEF TypeInv, TypeOK, ExecStates
<1>1. /\ Opening(e) => ~ exec[e].started
      /\ Opening(e) \/ Streaming(e) => ~ exec[e].done
  BY DEF Control
<1> USE DEF Keeps, Targets, Local, SameFlags, EventSteps, DoneTypes, EventTypes
<1>2. ASSUME ExecStep(e) \/ Crash(e), ~ EmitStarted(e), ~ StoreChunk(e), ~ EmitUsage(e),
             ~ EmitDone(e), ~ CatchError(e)
      PROVE  NoEvent(e)
  <2>1. events' = events
    BY <1>2
       DEF ExecStep, rowVars, TransitionCheck, TransitionWrite, IssueToken, CreateSandbox,
           ResolveEndpoint, SendPrompt, EndStream, RevokeTokens, ReleaseRead, ReleaseWrite,
           DestroySandbox, Crash
  <2>2. SameFlags(e)
    BY <1>2, Flow DEF ExecStep
  <2> QED
    BY <2>1, <2>2 DEF NoEvent
<1>3. CASE EmitStarted(e)
  <2>1. Opening(e)
    BY <1>3 DEF EmitStarted, Opening, At
  <2>2. ~ exec[e].started /\ ~ exec[e].done
    BY <2>1, <1>1
  <2>3. CASE /\ events' = Emitted(e, "started")
             /\ exec' = [exec EXCEPT ![e].pc = "prompt", ![e].started = TRUE]
    <3>1. Local(e, "prompt", exec[e].to, TRUE, exec[e].done)
      BY <2>3, LocalAfter DEF TypeInv
    <3> QED
      BY <2>2, <2>3, <3>1 DEF OpenEvent
  <2>4. CASE "db" \in Faults /\ MaybeEmitted(e, "started") /\ Goto(e, "catch")
    <3>1. SameFlags(e)
      BY <2>4, LocalAfter DEF TypeInv
    <3> QED
      BY <2>4, <3>1 DEF MaybeEmitted, NoEvent, LostEvent
  <2>5. CASE Goto(e, "prompt") /\ events' = events
    <3>1. SameFlags(e)
      BY <2>5, LocalAfter DEF TypeInv
    <3> QED
      BY <2>5, <3>1 DEF NoEvent
  <2> QED
    BY <1>3, <2>3, <2>4, <2>5 DEF EmitStarted
<1>4. CASE StoreChunk(e) \/ EmitUsage(e)
  <2>1. SameFlags(e)
    BY <1>4, Flow
  <2>2. ~ exec[e].done
    BY <1>4, <1>1 DEF StoreChunk, EmitUsage, At, Streaming
  <2>3. events' = events \/ events' = Emitted(e, "chunk") \/ events' = Emitted(e, "usage")
    BY <1>4 DEF StoreChunk, EmitUsage, MaybeEmitted
  <2> QED
    BY <2>1, <2>2, <2>3 DEF NoEvent, PlainEvent
<1>5. CASE EmitDone(e)
  <2>1. ~ exec[e].done
    BY <1>5, <1>1 DEF EmitDone, At, Streaming
  <2>2. CASE /\ exec[e].started /\ events' = Emitted(e, "done_success")
             /\ exec' = [exec EXCEPT ![e].pc = "check", ![e].to = "finalizing_prepare", ![e].done = TRUE]
    <3>1. Local(e, "check", "finalizing_prepare", exec[e].started, TRUE)
      BY <2>2, LocalAfter DEF TypeInv
    <3> QED
      BY <2>1, <2>2, <3>1 DEF DoneEvent
  <2>3. CASE exec[e].started /\ "db" \in Faults /\ MaybeEmitted(e, "done_success") /\ Goto(e, "catch")
    <3>1. SameFlags(e)
      BY <2>3, LocalAfter DEF TypeInv
    <3> QED
      BY <2>3, <3>1 DEF MaybeEmitted, NoEvent, LostEvent
  <2>4. CASE GotoTransition(e, "finalizing_prepare") /\ events' = events
    <3>1. SameFlags(e)
      BY <2>4, LocalAfter DEF TypeInv
    <3> QED
      BY <2>4, <3>1 DEF NoEvent
  <2> QED
    BY <1>5, <2>2, <2>3, <2>4 DEF EmitDone
<1>6. CASE CatchError(e)
  <2>1. CASE /\ exec[e].started /\ ~ exec[e].done /\ events' = Emitted(e, "done_failed")
             /\ exec' = [exec EXCEPT ![e].pc = "check", ![e].to = "failed", ![e].done = TRUE]
    <3>1. Local(e, "check", "failed", exec[e].started, TRUE)
      BY <2>1, LocalAfter DEF TypeInv
    <3> QED
      BY <2>1, <3>1 DEF DoneEvent
  <2>2. CASE /\ exec[e].started /\ "db" \in Faults
             /\ MaybeEmitted(e, "done_failed") /\ GotoTransition(e, "failed")
    <3>1. SameFlags(e)
      BY <2>2, LocalAfter DEF TypeInv
    <3> QED
      BY <2>2, <3>1 DEF MaybeEmitted, NoEvent, LostEvent
  <2>3. CASE GotoTransition(e, "failed") /\ events' = events
    <3>1. SameFlags(e)
      BY <2>3, LocalAfter DEF TypeInv
    <3> QED
      BY <2>3, <3>1 DEF NoEvent
  <2> QED
    BY <1>6, <2>1, <2>2, <2>3 DEF CatchError
<1> QED
  BY <1>2, <1>3, <1>4, <1>5, <1>6 DEF ExecStep

(* The log after an append: the old entries in place and one more.         *)
LEMMA EmittedEntries ==
  ASSUME TypeInv, NEW e \in Execs, exec[e].run \in Runs, NEW type \in EventTypes,
         events' = Emitted(e, type)
  PROVE  /\ \A r \in Runs : r # exec[e].run => events'[r] = events[r]
         /\ DOMAIN events[exec[e].run] = 1 .. Len(events[exec[e].run])
         /\ DOMAIN events'[exec[e].run] = 1 .. Len(events[exec[e].run]) + 1
         /\ Len(events[exec[e].run]) \in Nat
         /\ events'[exec[e].run][Len(events[exec[e].run]) + 1] = [type |-> type, by |-> e]
         /\ \A i \in DOMAIN events[exec[e].run] : events'[exec[e].run][i] = events[exec[e].run][i]
<1> DEFINE entry == [type |-> type, by |-> e]
<1> DEFINE old == events[exec[e].run]
<1>1. old \in Seq([type: EventTypes, by: Execs]) /\ entry \in [type: EventTypes, by: Execs]
  BY DEF TypeInv, TypeOK
<1>2. events' = [events EXCEPT ![exec[e].run] = Append(old, entry)]
  BY DEF Emitted
<1>3. events'[exec[e].run] = Append(old, entry) /\ \A r \in Runs : r # exec[e].run => events'[r] = events[r]
  BY <1>2 DEF TypeInv, TypeOK
<1> HIDE DEF old, entry
<1>4. /\ DOMAIN old = 1 .. Len(old) /\ Len(old) \in Nat
      /\ DOMAIN Append(old, entry) = 1 .. Len(old) + 1
      /\ Append(old, entry)[Len(old) + 1] = entry
      /\ \A i \in DOMAIN old : Append(old, entry)[i] = old[i]
  BY <1>1
<1> QED
  BY <1>3, <1>4 DEF old, entry

(* So entries stay where they are, and what is new is at the end.          *)
LEMMA EntriesStay ==
  ASSUME TypeInv, NEW e \in Execs, exec[e].run \in Runs, NEW type \in EventTypes,
         events' = Emitted(e, type), NEW r \in Runs
  PROVE  /\ \A i \in DOMAIN events[r] :
              i \in DOMAIN events'[r] /\ events'[r][i] = events[r][i]
         /\ \A i \in DOMAIN events'[r] :
              \/ i \in DOMAIN events[r] /\ events'[r][i] = events[r][i]
              \/ /\ r = exec[e].run /\ i = Len(events[r]) + 1
                 /\ events'[r][i] = [type |-> type, by |-> e]
                 /\ \A j \in DOMAIN events[r] : j \in 1 .. i - 1
<1>1. CASE r # exec[e].run
  BY <1>1, EmittedEntries
<1>2. CASE r = exec[e].run
  <2> DEFINE n == Len(events[r])
  <2>1. /\ DOMAIN events[r] = 1 .. n /\ DOMAIN events'[r] = 1 .. n + 1 /\ n \in Nat
        /\ events'[r][n + 1] = [type |-> type, by |-> e]
        /\ \A i \in DOMAIN events[r] : events'[r][i] = events[r][i]
    BY <1>2, EmittedEntries
  <2> HIDE DEF n
  <2>2. \A i \in 1 .. n : i \in 1 .. n + 1
    BY <2>1
  <2>3. \A i \in 1 .. n + 1 : i \in 1 .. n \/ (i = n + 1 /\ \A j \in 1 .. n : j \in 1 .. i - 1)
    BY <2>1
  <2> QED
    BY <1>2, <2>1, <2>2, <2>3 DEF n
<1> QED
  BY <1>1, <1>2

-----------------------------------------------------------------------------
(* The markers, whatever fails: runStartedEmitted is set only once the     *)
(* event is in the log, so a run-done finds it there.                      *)

StartedInLog ==
  \A e \in Execs :
    exec[e].started =>
      /\ exec[e].run \in Runs
      /\ \E j \in DOMAIN events[exec[e].run] :
           events[exec[e].run][j] = [type |-> "started", by |-> e]

MarkerInv == TypeInv /\ Control /\ StartedInLog /\ DoneAfterStarted

LEMMA MarkerInit == Init => MarkerInv
<1>1. Init => StartedInLog /\ DoneAfterStarted
  BY DEF Init, StartedInLog, DoneAfterStarted, Written
<1> QED
  BY <1>1, TypeInit, ControlInit DEF MarkerInv

LEMMA StartedStep ==
  ASSUME MarkerInv, [Next]_vars
  PROVE  StartedInLog'
<1> SUFFICES ASSUME NEW f \in Execs, exec'[f].started
             PROVE  /\ exec'[f].run \in Runs
                    /\ \E j \in DOMAIN events'[exec'[f].run] :
                         events'[exec'[f].run][j] = [type |-> "started", by |-> f]
  BY DEF StartedInLog
<1> USE DEF MarkerInv
<1>1. ASSUME NEW e \in Execs, ExecStep(e) \/ Crash(e)
      PROVE  /\ exec'[f].run \in Runs
             /\ \E j \in DOMAIN events'[exec'[f].run] :
                  events'[exec'[f].run][j] = [type |-> "started", by |-> f]
  <2>0. exec[e].run \in Runs /\ exec'[f].run = exec[f].run /\ (f # e => exec'[f] = exec[f])
    BY <1>1, OthersStay
  <2>1. EventSteps(e)
    BY <1>1, EventsAfter
  <2>2. events' = events \/ \E type \in EventTypes : events' = Emitted(e, type)
    BY <2>1 DEF EventSteps, NoEvent, OpenEvent, PlainEvent, DoneEvent, LostEvent, EventTypes, DoneTypes
  <2>3. CASE exec[f].started
    <3>1. exec[f].run \in Runs
      BY <2>3 DEF StartedInLog
    <3>2. PICK j \in DOMAIN events[exec[f].run] : events[exec[f].run][j] = [type |-> "started", by |-> f]
      BY <2>3 DEF StartedInLog
    <3>3. j \in DOMAIN events'[exec[f].run] /\ events'[exec[f].run][j] = events[exec[f].run][j]
      <4>1. CASE events' = events
        BY <4>1
      <4>2. ASSUME NEW type \in EventTypes, events' = Emitted(e, type)
            PROVE  j \in DOMAIN events'[exec[f].run] /\ events'[exec[f].run][j] = events[exec[f].run][j]
        <5>1. \A i \in DOMAIN events[exec[f].run] :
                i \in DOMAIN events'[exec[f].run] /\ events'[exec[f].run][i] = events[exec[f].run][i]
          BY <2>0, <3>1, <4>2, EntriesStay
        <5> QED
          BY <3>2, <5>1
      <4> QED
        BY <2>2, <4>1, <4>2
    <3> QED
      BY <2>0, <3>1, <3>2, <3>3
  <2>4. CASE ~ exec[f].started
    <3>1. f = e
      BY <2>0, <2>4
    <3>2. OpenEvent(e)
      BY <2>1, <2>4, <3>1 DEF EventSteps, NoEvent, PlainEvent, DoneEvent, LostEvent, SameFlags
    <3>3. events' = Emitted(e, "started") /\ "started" \in EventTypes
      BY <3>2 DEF OpenEvent, EventTypes
    <3> DEFINE n == Len(events[exec[e].run]) + 1
    <3>4. n \in DOMAIN events'[exec[e].run] /\ events'[exec[e].run][n] = [type |-> "started", by |-> e]
      BY <2>0, <3>3, EmittedEntries
    <3> QED
      BY <2>0, <3>1, <3>4
  <2> QED
    BY <2>3, <2>4
<1>2. ASSUME NEW e \in Execs, NEW r \in Runs, Deliver(e, r)
      PROVE  /\ exec'[f].run \in Runs
             /\ \E j \in DOMAIN events'[exec'[f].run] :
                  events'[exec'[f].run][j] = [type |-> "started", by |-> f]
  <2>1. events' = events
    BY <1>2 DEF Deliver, rowVars
  <2>2. f # e
    <3>1. ~ exec[e].started
      BY <1>2 DEF Deliver, At, Control, Opening
    <3> QED
      BY <3>1, <1>2, DeliverAfter DEF Local
  <2> QED
    BY <1>2, <2>1, <2>2, DeliverAfter DEF StartedInLog
<1>3. CASE Quiet
  BY <1>3 DEF Quiet, StartedInLog
<1> QED
  BY <1>1, <1>2, <1>3, NextKinds

LEMMA DoneAfterStartedStep ==
  ASSUME MarkerInv, [Next]_vars
  PROVE  DoneAfterStarted'
<1> USE DEF MarkerInv
<1>1. ASSUME events' = events PROVE DoneAfterStarted'
  BY <1>1 DEF DoneAfterStarted, Written
<1>2. ASSUME NEW e \in Execs, exec[e].run \in Runs, NEW type \in EventTypes,
             events' = Emitted(e, type), type \in DoneTypes => exec[e].started
      PROVE  DoneAfterStarted'
  <2> SUFFICES ASSUME NEW r \in Runs, NEW i \in DOMAIN events'[r], events'[r][i].type \in DoneTypes
               PROVE  \E j \in 1 .. i - 1 : events'[r][j] = [type |-> "started", by |-> events'[r][i].by]
    BY DEF DoneAfterStarted, Written
  <2>1. \A j \in DOMAIN events[r] : j \in DOMAIN events'[r] /\ events'[r][j] = events[r][j]
    BY <1>2, EntriesStay
  <2>2. CASE i \in DOMAIN events[r] /\ events'[r][i] = events[r][i]
    <3>1. PICK j \in 1 .. i - 1 : events[r][j] = [type |-> "started", by |-> events[r][i].by]
      BY <2>2 DEF DoneAfterStarted, Written
    <3>2. events[r] \in Seq([type: EventTypes, by: Execs])
      BY DEF TypeInv, TypeOK
    <3>3. j \in DOMAIN events[r]
      BY <2>2, <3>2
    <3> QED
      BY <2>1, <2>2, <3>1, <3>3
  <2>3. CASE /\ r = exec[e].run /\ i = Len(events[r]) + 1
             /\ events'[r][i] = [type |-> type, by |-> e]
             /\ \A j \in DOMAIN events[r] : j \in 1 .. i - 1
    <3>1. exec[e].started
      BY <1>2, <2>3
    <3>2. PICK j \in DOMAIN events[r] : events[r][j] = [type |-> "started", by |-> e]
      BY <2>3, <3>1 DEF StartedInLog
    <3> QED
      BY <2>1, <2>3, <3>2
  <2> QED
    BY <1>2, <2>2, <2>3, EntriesStay
<1>3. ASSUME NEW e \in Execs, ExecStep(e) \/ Crash(e) PROVE DoneAfterStarted'
  <2>1. EventSteps(e) /\ exec[e].run \in Runs
    BY <1>3, EventsAfter, OthersStay
  <2> QED
    BY <2>1, <1>1, <1>2
       DEF EventSteps, NoEvent, OpenEvent, PlainEvent, DoneEvent, LostEvent, EventTypes, DoneTypes
<1>4. ASSUME NEW e \in Execs, NEW r \in Runs, Deliver(e, r) PROVE events' = events
  BY <1>4 DEF Deliver, rowVars
<1>5. Quiet => events' = events
  BY DEF Quiet
<1> QED
  BY <1>1, <1>3, <1>4, <1>5, NextKinds

LEMMA MarkerStep == MarkerInv /\ [Next]_vars => MarkerInv'
  BY TypeStep, ControlStep, StartedStep, DoneAfterStartedStep DEF MarkerInv

(* No reader ever sees a run-done without the run-started of the same      *)
(* execution before it, whatever fails and whoever interferes.             *)
THEOREM NoOrphanedDone == Spec => []DoneAfterStarted
<1>1. MarkerInv => DoneAfterStarted
  BY DEF MarkerInv
<1> QED
  BY <1>1, MarkerInit, MarkerStep, PTL DEF Spec

-----------------------------------------------------------------------------
(* RunLifecycle implements RunMarkers when a failing append has not been   *)
(* committed.                                                              *)

LEMMA PhaseAfter ==
  ASSUME TypeInv, NEW e \in Execs, exec'[e].started \in BOOLEAN, exec'[e].done \in BOOLEAN,
         \A f \in Execs : f # e => exec'[f] = exec[f]
  PROVE  /\ SameFlags(e) => MarkerPhase' = MarkerPhase
         /\ MarkerPhase' = [MarkerPhase EXCEPT ![e] =
              IF exec'[e].done THEN "closed" ELSE IF exec'[e].started THEN "open" ELSE "idle"]
  BY DEF SameFlags, MarkerPhase

LEMMA MarkersStepImplemented ==
  ASSUME "db" \notin Faults, MarkerInv, [Next]_vars
  PROVE  [Markers!MarkersNext]_(Markers!markerVars)
<1> DEFINE where == [e \in Execs |-> exec[e].run]
<1> USE DEF MarkerInv
<1>1. ASSUME NEW e \in Execs, ExecStep(e) \/ Crash(e)
      PROVE  Markers!MarkersNext \/ UNCHANGED <<events, MarkerPhase, where>>
  <2>0. /\ exec[e].run \in Runs /\ \A f \in Execs : f # e => exec'[f] = exec[f]
        /\ exec'[e].run = exec[e].run
    BY <1>1, OthersStay
  <2>1. EventSteps(e)
    BY <1>1, EventsAfter
  <2>2. exec'[e].started \in BOOLEAN /\ exec'[e].done \in BOOLEAN
    <3>1. TypeInv'
      BY <1>1, ExecStepType
    <3> QED
      BY <3>1 DEF TypeInv, TypeOK, ExecStates
  <2>3. where' = where
    BY <2>0
  <2>4. where[e] \in Runs /\ where[e] = exec[e].run
    BY <2>0
  <2>5. MarkerPhase[e] = IF exec[e].done THEN "closed" ELSE IF exec[e].started THEN "open" ELSE "idle"
    BY DEF MarkerPhase
  <2>6. \A type : events' = Emitted(e, type) =>
          events' = [events EXCEPT ![where[e]] = Append(events[where[e]], [type |-> type, by |-> e])]
    BY <2>4 DEF Emitted
  <2>7. CASE NoEvent(e)
    BY <2>0, <2>2, <2>3, <2>7, PhaseAfter DEF NoEvent
  <2>8. CASE OpenEvent(e)
    <3>1. Markers!Open(e)
      <4>1. MarkerPhase' = [MarkerPhase EXCEPT ![e] = "open"] /\ MarkerPhase[e] = "idle"
        BY <2>0, <2>2, <2>5, <2>8, PhaseAfter DEF OpenEvent
      <4>2. Markers!Logged(e, "started")
        BY <2>6, <2>8 DEF OpenEvent, Markers!Logged
      <4> QED
        BY <2>3, <2>4, <4>1, <4>2 DEF Markers!Open
    <3> QED
      BY <3>1 DEF Markers!MarkersNext
  <2>9. ASSUME NEW type \in {"chunk", "usage"}, PlainEvent(e, type)
        PROVE  Markers!MarkersNext
    <3>1. MarkerPhase' = MarkerPhase /\ MarkerPhase[e] # "closed"
      BY <2>0, <2>2, <2>5, <2>9, PhaseAfter DEF PlainEvent
    <3>2. Markers!Logged(e, type)
      BY <2>6, <2>9 DEF PlainEvent, Markers!Logged
    <3>3. Markers!Write(e, type)
      BY <2>3, <2>4, <3>1, <3>2 DEF Markers!Write
    <3> QED
      BY <3>3 DEF Markers!MarkersNext, Markers!PlainEvents
  <2>10. ASSUME NEW type \in DoneTypes, DoneEvent(e, type)
         PROVE  Markers!MarkersNext
    <3>1. MarkerPhase' = [MarkerPhase EXCEPT ![e] = "closed"] /\ MarkerPhase[e] = "open"
      BY <2>0, <2>2, <2>5, <2>10, PhaseAfter DEF DoneEvent
    <3>2. Markers!Logged(e, type)
      BY <2>6, <2>10 DEF DoneEvent, Markers!Logged
    <3>3. Markers!Close(e, type)
      BY <2>3, <2>4, <3>1, <3>2 DEF Markers!Close
    <3> QED
      BY <3>3 DEF Markers!MarkersNext, Markers!DoneEvents, DoneTypes
  <2> QED
    BY <2>1, <2>7, <2>8, <2>9, <2>10 DEF EventSteps, LostEvent
<1>2. ASSUME NEW e \in Execs, NEW r \in Runs, Deliver(e, r)
      PROVE  Markers!MarkersNext
  <2>1. exec[e].run \notin Runs /\ events' = events
    BY <1>2 DEF Deliver, TypeInv, Assigned, rowVars
  <2>2. /\ exec'[e].run = r /\ SameFlags(e)
        /\ \A f \in Execs : f # e => exec'[f] = exec[f]
    BY <1>2, DeliverAfter DEF Local, SameFlags
  <2>3. MarkerPhase' = MarkerPhase
    BY <2>2 DEF MarkerPhase, SameFlags
  <2>4. where' = [where EXCEPT ![e] = r] /\ where[e] \notin Runs
    BY <2>1, <2>2
  <2>5. Markers!Join(e, r)
    BY <2>1, <2>3, <2>4 DEF Markers!Join
  <2> QED
    BY <2>5 DEF Markers!MarkersNext
<1>3. CASE Quiet
  BY <1>3 DEF Quiet, Markers!markerVars, MarkerPhase
<1> QED
  BY <1>1, <1>2, <1>3, NextKinds DEF Markers!markerVars

(* What the readers of a run's events rely on, RunMarkers, is what the     *)
(* executions implement, however many of them interleave.                  *)
THEOREM MarkersImplemented ==
  ASSUME "db" \notin Faults
  PROVE  Spec => ImplementsMarkers
<1>1. Init => Markers!MarkersInit
  BY DEF Init, Markers!MarkersInit, MarkerPhase
<1>2. MarkerInv /\ [Next]_vars => [Markers!MarkersNext]_(Markers!markerVars)
  BY MarkersStepImplemented
<1> QED
  BY <1>1, <1>2, MarkerInit, MarkerStep, PTL DEF Spec, ImplementsMarkers, Markers!Spec

-----------------------------------------------------------------------------
(* A status behind the stream means a success marker: the execution that   *)
(* moves the row there has appended it before, and nothing removes it.     *)

Marked(r) == run[r].versioned => SuccessMarked(r)

SuccessInv ==
  /\ \A e \in Execs :
       exec[e].pc \in {"check", "write"} /\ exec[e].to \in PastStream => Marked(exec[e].run)
  /\ FinalizingImpliesSuccess

LEMMA SuccessInit == Init => SuccessInv
  BY DEF Init, SuccessInv, FinalizingImpliesSuccess, PastStream

(* Markers are not lost. *)
LEMMA MarkedStays ==
  ASSUME MarkerInv, [Next]_vars, NEW r \in Runs, Marked(r)
  PROVE  Marked(r)'
<1> USE DEF MarkerInv
<1>1. CASE ~ run[r].versioned
  BY <1>1, VersionStays DEF Marked
<1>2. CASE SuccessMarked(r)
  <2>1. PICK i \in DOMAIN events[r] : events[r][i].type = "done_success"
    BY <1>2 DEF SuccessMarked, Written
  <2>2. ASSUME NEW e \in Execs, ExecStep(e) \/ Crash(e)
        PROVE  i \in DOMAIN events'[r] /\ events'[r][i] = events[r][i]
    <3>1. EventSteps(e) /\ exec[e].run \in Runs
      BY <2>2, EventsAfter, OthersStay
    <3>2. events' = events \/ \E type \in EventTypes : events' = Emitted(e, type)
      BY <3>1 DEF EventSteps, NoEvent, OpenEvent, PlainEvent, DoneEvent, LostEvent, EventTypes, DoneTypes
    <3>3. CASE events' = events
      BY <3>3
    <3>4. ASSUME NEW type \in EventTypes, events' = Emitted(e, type)
          PROVE  i \in DOMAIN events'[r] /\ events'[r][i] = events[r][i]
      <4>1. TypeInv /\ exec[e].run \in Runs
        BY <3>1
      <4>2. \A k \in DOMAIN events[r] : k \in DOMAIN events'[r] /\ events'[r][k] = events[r][k]
        BY <3>4, <4>1, EntriesStay
      <4> QED
        BY <2>1, <4>2
    <3> QED
      BY <3>2, <3>3, <3>4
  <2>3. ASSUME NEW e \in Execs, NEW q \in Runs, Deliver(e, q) PROVE events' = events
    BY <2>3 DEF Deliver, rowVars
  <2>4. Quiet => events' = events
    BY DEF Quiet
  <2>5. i \in DOMAIN events'[r] /\ events'[r][i] = events[r][i]
    BY <2>2, <2>3, <2>4, NextKinds
  <2> QED
    BY <2>1, <2>5 DEF Marked, SuccessMarked, Written
<1> QED
  BY <1>1, <1>2 DEF Marked

(* Only the transition of an execution takes a row behind the stream.      *)
LEMMA PastStreamBy ==
  ASSUME TypeInv, [Next]_vars, NEW r \in Runs, run'[r].status \in PastStream
  PROVE  \/ run[r].status \in PastStream
         \/ \E e \in Execs : At(e, "write") /\ exec[e].run = r /\ exec[e].to \in PastStream
<1>0. run \in [Runs -> [status: Statuses, msg: Messages, versioned: BOOLEAN]]
  BY DEF TypeInv, TypeOK
<1>1. \A q \in Runs : \A t, m : WithStatus(q, t, m)[r].status = IF q = r THEN t ELSE run[r].status
  BY <1>0 DEF WithStatus
<1>2. ASSUME NEW e \in Execs, TransitionWrite(e)
      PROVE  run[r].status \in PastStream \/ (At(e, "write") /\ exec[e].run = r /\ exec[e].to \in PastStream)
  <2>1. exec[e].run \in Runs
    BY <1>2, OthersStay DEF ExecStep
  <2>2. run' = run \/ run' = Moved(e)
    BY <1>2 DEF TransitionWrite
  <2> QED
    BY <2>1, <2>2, <1>1, <1>2 DEF Moved, TransitionWrite
<1>3. ASSUME NEW e \in Execs, ExecStep(e) \/ Crash(e), ~ TransitionWrite(e)
      PROVE  run' = run
  BY <1>3
     DEF ExecStep, rowVars, TransitionCheck, IssueToken, CreateSandbox, ResolveEndpoint,
         EmitStarted, SendPrompt, StoreChunk, EndStream, EmitUsage, EmitDone, CatchError,
         RevokeTokens, ReleaseRead, ReleaseWrite, DestroySandbox, Crash
<1>4. ASSUME NEW c \in Cancels, (\E q \in Runs : CancelRead(c, q)) \/ CancelStep(c)
      PROVE  run[r].status \in PastStream
  <2>1. CASE CancelWrite(c)
    <3>1. cancel[c].run \in Runs
      BY <2>1 DEF CancelWrite, TypeInv, Assigned
    <3>2. run' = run \/ run' = WithStatus(cancel[c].run, "failed", "cancelled")
      BY <2>1 DEF CancelWrite
    <3> QED
      BY <3>1, <3>2, <1>1 DEF PastStream
  <2>2. CASE ~ CancelWrite(c)
    BY <1>4, <2>2 DEF CancelStep, CancelRead, CancelCheck, rowVars
  <2> QED
    BY <2>1, <2>2
<1>5. RecoverStuckRuns => run[r].status \in PastStream
  <2>1. ASSUME RecoverStuckRuns
        PROVE  run'[r].status = run[r].status \/ run'[r].status = "failed"
    <3>1. run[r] \in [status: Statuses, msg: Messages, versioned: BOOLEAN]
      BY <1>0
    <3>2. \/ run'[r] = run[r]
          \/ run'[r] = [run[r] EXCEPT !.status = "failed", !.msg = "unreachable"]
      BY <2>1 DEF RecoverStuckRuns
    <3> QED
      BY <3>1, <3>2
  <2>2. "failed" \notin PastStream
    BY DEF PastStream
  <2> QED
    BY <2>1, <2>2
<1>6. ASSUME NEW e \in Execs, NEW q \in Runs, Deliver(e, q) PROVE run' = run
  BY <1>6 DEF Deliver, rowVars
<1>7. UNCHANGED vars => run' = run
  BY DEF vars, rowVars
<1> QED
  BY <1>2, <1>3, <1>4, <1>5, <1>6, <1>7 DEF Next

LEMMA EmitDoneMarks ==
  ASSUME MarkerInv, [Next]_vars, NEW e \in Execs, EmitDone(e), exec'[e].pc = "check"
  PROVE  Marked(exec[e].run)'
<1> USE DEF MarkerInv
<1>1. exec[e].run \in Runs
  BY OthersStay DEF ExecStep
<1>2. CASE exec[e].started /\ events' = Emitted(e, "done_success")
  <2> DEFINE n == Len(events[exec[e].run]) + 1
  <2>1. n \in DOMAIN events'[exec[e].run] /\ events'[exec[e].run][n].type = "done_success"
    <3>1. "done_success" \in EventTypes
      BY DEF EventTypes, DoneTypes
    <3>2. /\ DOMAIN events'[exec[e].run] = 1 .. n /\ n \in Nat \ {0}
          /\ events'[exec[e].run][n] = [type |-> "done_success", by |-> e]
      <4>1. TypeInv /\ events' = Emitted(e, "done_success")
        BY <1>2
      <4>2. /\ DOMAIN events'[exec[e].run] = 1 .. Len(events[exec[e].run]) + 1
            /\ Len(events[exec[e].run]) \in Nat
            /\ events'[exec[e].run][Len(events[exec[e].run]) + 1] = [type |-> "done_success", by |-> e]
        BY <1>1, <3>1, <4>1, EmittedEntries
      <4> QED
        BY <4>2
    <3> HIDE DEF n
    <3>3. n \in 1 .. n
      BY <3>2
    <3> QED
      BY <3>2, <3>3
  <2>2. exec'[e].run = exec[e].run
    BY OthersStay DEF ExecStep
  <2> QED
    BY <2>1, <2>2 DEF Marked, SuccessMarked, Written
<1>3. CASE ~ exec[e].started
  <2>1. Streaming(e)
    BY DEF EmitDone, At, Streaming
  <2>2. ~ run[exec[e].run].versioned
    BY <2>1, <1>3 DEF Control
  <2> QED
    <3>1. Marked(exec[e].run)
      BY <2>2 DEF Marked
    <3>2. exec'[e].run = exec[e].run
      BY OthersStay DEF ExecStep
    <3> QED
      BY <1>1, <3>1, <3>2, MarkedStays
<1>4. ASSUME Goto(e, "catch") PROVE FALSE
  <2>1. Local(e, "catch", exec[e].to, exec[e].started, exec[e].done)
    BY <1>4, LocalAfter DEF TypeInv
  <2> QED
    BY <2>1 DEF Local
<1> QED
  BY <1>2, <1>3, <1>4 DEF EmitDone

LEMMA SuccessStep == MarkerInv /\ SuccessInv /\ [Next]_vars => SuccessInv'
<1> SUFFICES ASSUME MarkerInv, SuccessInv, [Next]_vars PROVE SuccessInv'
  OBVIOUS
<1> USE DEF MarkerInv
<1>1. FinalizingImpliesSuccess'
  <2> SUFFICES ASSUME NEW r \in Runs, run'[r].status \in PastStream PROVE Marked(r)'
    BY DEF FinalizingImpliesSuccess, Marked
  <2>1. Marked(r)
    BY PastStreamBy DEF SuccessInv, FinalizingImpliesSuccess, Marked, At
  <2> QED
    BY <2>1, MarkedStays
<1>2. ASSUME NEW f \in Execs,
             exec'[f].pc \in {"check", "write"}, exec'[f].to \in PastStream
      PROVE  Marked(exec[f].run)' /\ exec'[f].run = exec[f].run
  <2>1. ASSUME exec'[f] = exec[f]
        PROVE  Marked(exec[f].run)' /\ exec'[f].run = exec[f].run
    <3>1. exec[f].run \in Runs
      BY <1>2, <2>1 DEF TypeInv, Assigned, At
    <3>2. Marked(exec[f].run)
      BY <1>2, <2>1 DEF SuccessInv
    <3> QED
      BY <2>1, <3>1, <3>2, MarkedStays
  <2>2. ASSUME ExecStep(f) \/ Crash(f)
        PROVE  Marked(exec[f].run)' /\ exec'[f].run = exec[f].run
    <3>0. exec[f].run \in Runs /\ exec'[f].run = exec[f].run
      BY <2>2, OthersStay
    <3>1. exec[f].to \in Statuses
      BY DEF TypeInv, TypeOK, ExecStates
    <3>2. Marked(exec[f].run) => Marked(exec[f].run)'
      BY <3>0, MarkedStays
    <3>3. CASE TransitionCheck(f)
      <4>1. exec[f].pc = "check" /\ exec'[f].to = exec[f].to
        BY <3>3, Flow, TargetTypes DEF TransitionCheck, At, Keeps, Local
      <4>2. Marked(exec[f].run)
        BY <4>1, <1>2 DEF SuccessInv
      <4> QED
        BY <3>0, <3>2, <4>2
    <3>4. CASE TransitionWrite(f)
      <4>1. /\ exec[f].pc = "write" /\ exec'[f].to = NextTarget(exec[f].to)
        BY <1>2, <3>1, <3>4, Flow, TargetTypes DEF TransitionWrite, At, Keeps, Local
      <4>2. NextTarget(exec[f].to) \in PastStream => exec[f].to \in PastStream
        BY <3>1 DEF NextTarget, PastStream, Statuses
      <4>3. Marked(exec[f].run)
        BY <4>1, <4>2, <1>2 DEF SuccessInv
      <4> QED
        BY <3>0, <3>2, <4>3
    <3>5. CASE EmitDone(f)
      <4>1. exec'[f].pc = "check"
        BY <1>2, <3>5, Flow DEF Keeps, Targets, Local
      <4> QED
        BY <3>0, <3>5, <4>1, EmitDoneMarks
    <3>7. CASE \/ IssueToken(f) \/ CreateSandbox(f) \/ ResolveEndpoint(f) \/ EmitStarted(f)
               \/ SendPrompt(f) \/ StoreChunk(f) \/ EndStream(f) \/ EmitUsage(f)
      BY <1>2, <3>7, Flow DEF Keeps, Targets, Local, PastStream
    <3>8. CASE \/ CatchError(f) \/ RevokeTokens(f) \/ ReleaseRead(f) \/ ReleaseWrite(f)
               \/ DestroySandbox(f) \/ Crash(f)
      BY <1>2, <3>8, Flow DEF Keeps, Targets, Local, PastStream
    <3> QED
      BY <2>2, <3>3, <3>4, <3>5, <3>7, <3>8 DEF ExecStep
  <2>3. ASSUME NEW r \in Runs, Deliver(f, r)
        PROVE  FALSE
    <3>1. exec[f].to = "provisioning"
      BY <2>3 DEF Deliver, At, Control
    <3> QED
      BY <1>2, <2>3, <3>1, DeliverAfter DEF Local, PastStream
  <2>4. Quiet => exec'[f] = exec[f]
    BY DEF Quiet
  <2> QED
    BY <2>1, <2>2, <2>3, <2>4, NextKinds, OthersStay, DeliverAfter
<1> QED
  BY <1>1, <1>2 DEF SuccessInv, Marked, SuccessMarked, Written

LEMMA SuccessAlways == Spec => [](MarkerInv /\ SuccessInv)
<1>1. Init => MarkerInv /\ SuccessInv
  BY MarkerInit, SuccessInit
<1>2. MarkerInv /\ SuccessInv /\ [Next]_vars => (MarkerInv /\ SuccessInv)'
  BY MarkerStep, SuccessStep
<1> QED
  BY <1>1, <1>2, PTL DEF Spec

(* A run never shows a finalizing or completed status that its event log   *)
(* does not bear out, under every fault.                                   *)
THEOREM FinalizingIsSuccess == Spec => []FinalizingImpliesSuccess
<1>1. SuccessInv => FinalizingImpliesSuccess
  BY DEF SuccessInv
<1> QED
  BY <1>1, SuccessAlways, PTL

-----------------------------------------------------------------------------
(* A run that is not over has an execution that still drives it (or died   *)
(* doing so), and a finalized run one that is about to complete it, which  *)
(* matters because the table lets nobody fail a finalized run.             *)

Reached ==
  PastStream \cup {"provisioning", "preparing", "running", "failed"}

Driving(e) == exec[e].pc \in InTry \cup {"catch", "crashed"}

Completing(e) ==
  \/ At(e, "crashed")
  \/ exec[e].pc \in {"check", "write"} /\ exec[e].to = "completed"

OnlyReached ==
  /\ \A e \in Execs : exec[e].to \in Reached
  /\ \A r \in Runs : run[r].status \in Reached \cup {"queued"}

SettleInv ==
  /\ OnlyReached
  /\ \A r \in Runs :
       Delivered(r) /\ ~ IsTerminal(run[r].status) =>
         \E e \in Execs : exec[e].run = r /\ Driving(e)
  /\ \A r \in Runs :
       run[r].status = "finalized" => \E e \in Execs : exec[e].run = r /\ Completing(e)

LEMMA SettleInit == Init => SettleInv
<1> SUFFICES ASSUME Init PROVE SettleInv
  OBVIOUS
<1>1. /\ \A e \in Execs : exec[e].to = "provisioning" /\ exec[e].run = None
      /\ \A r \in Runs : run[r].status = "queued"
  BY DEF Init
<1>2. \A r \in Runs : ~ Delivered(r)
  BY <1>1, RunsAssumption DEF Delivered
<1> QED
  BY <1>1, <1>2 DEF SettleInv, OnlyReached, Reached, PastStream

(* Who changes the status of a row: an execution writes its target, a      *)
(* cancel request and the sweep write failed.                              *)
LEMMA StatusAfter ==
  ASSUME TypeInv, [Next]_vars, NEW r \in Runs
  PROVE  \/ run'[r].status = run[r].status
         \/ run'[r].status = "failed"
         \/ \E e \in Execs : /\ At(e, "write") /\ TransitionWrite(e) /\ exec[e].run = r
                             /\ run'[r].status = exec[e].to
<1>0. run \in [Runs -> [status: Statuses, msg: Messages, versioned: BOOLEAN]]
  BY DEF TypeInv, TypeOK
<1>1. \A q \in Runs : \A t, m : WithStatus(q, t, m)[r].status = IF q = r THEN t ELSE run[r].status
  BY <1>0 DEF WithStatus
<1>2. ASSUME NEW e \in Execs, TransitionWrite(e)
      PROVE  run'[r].status = run[r].status \/ (exec[e].run = r /\ run'[r].status = exec[e].to)
  <2>1. exec[e].run \in Runs
    BY <1>2, OthersStay DEF ExecStep
  <2>2. run' = run \/ run' = Moved(e)
    BY <1>2 DEF TransitionWrite
  <2> QED
    BY <2>1, <2>2, <1>1 DEF Moved
<1>3. ASSUME NEW e \in Execs, ExecStep(e) \/ Crash(e), ~ TransitionWrite(e)
      PROVE  run' = run
  BY <1>3
     DEF ExecStep, rowVars, TransitionCheck, IssueToken, CreateSandbox, ResolveEndpoint,
         EmitStarted, SendPrompt, StoreChunk, EndStream, EmitUsage, EmitDone, CatchError,
         RevokeTokens, ReleaseRead, ReleaseWrite, DestroySandbox, Crash
<1>4. ASSUME NEW c \in Cancels, (\E q \in Runs : CancelRead(c, q)) \/ CancelStep(c)
      PROVE  run'[r].status \in {run[r].status, "failed"}
  <2>1. CASE CancelWrite(c)
    <3>1. cancel[c].run \in Runs
      BY <2>1 DEF CancelWrite, TypeInv, Assigned
    <3>2. run' = run \/ run' = WithStatus(cancel[c].run, "failed", "cancelled")
      BY <2>1 DEF CancelWrite
    <3> QED
      BY <3>1, <3>2, <1>1
  <2>2. CASE ~ CancelWrite(c)
    BY <1>4, <2>2 DEF CancelStep, CancelRead, CancelCheck, rowVars
  <2> QED
    BY <2>1, <2>2
<1>5. RecoverStuckRuns => run'[r].status \in {run[r].status, "failed"}
  BY <1>0 DEF RecoverStuckRuns
<1>6. (\E e \in Execs, q \in Runs : Deliver(e, q)) => run' = run
  BY DEF Deliver, rowVars
<1>7. UNCHANGED vars => run' = run
  BY DEF vars, rowVars
<1>8. ASSUME NEW e \in Execs, ExecStep(e) \/ Crash(e)
      PROVE  \/ run'[r].status = run[r].status
             \/ /\ At(e, "write") /\ TransitionWrite(e) /\ exec[e].run = r
                /\ run'[r].status = exec[e].to
  BY <1>2, <1>3, <1>8 DEF TransitionWrite
<1>9. (\E e \in Execs : ExecStep(e) \/ Crash(e)) \/ ~ (\E e \in Execs : ExecStep(e) \/ Crash(e))
  OBVIOUS
<1> QED
  BY <1>4, <1>5, <1>6, <1>7, <1>8, <1>9 DEF Next

(* As long as Postgres answers, an execution stops driving its run only    *)
(* when it has written a terminal status, or found that the table does not *)
(* let it fail the run.                                                    *)
LEMMA StopsDriving ==
  ASSUME TypeInv, OnlyReached, "db" \notin Faults, NEW e \in Execs, ExecStep(e) \/ Crash(e),
         Driving(e), ~ Driving(e)'
  PROVE  \/ exec[e].to = "failed" /\ At(e, "check")
            /\ run[exec[e].run].status \in {"finalized", "completed", "failed"}
            /\ UNCHANGED run
         \/ run'[exec[e].run].status \in Terminal
<1> USE DEF Driving, InTry
<1>0. exec[e].to \in Reached /\ exec[e].run \in Runs
  BY OthersStay DEF OnlyReached
<1>1. CASE TransitionCheck(e)
  <2>1. OnThrow(e) = "revoke"
    BY <1>1, Flow, TargetTypes DEF Keeps, Local
  <2>2. exec[e].to = "failed"
    BY <2>1 DEF OnThrow
  <2>3. Keeps(e, "write") => FALSE
    BY DEF Keeps, Local
  <2>4. ~ CanTransition(run[exec[e].run].status, "failed")
    <3>1. Goto(e, "write") => Keeps(e, "write")
      BY LocalAfter DEF TypeInv, Keeps
    <3> QED
      BY <1>1, <2>2, <2>3, <3>1 DEF TransitionCheck, Status
  <2>5. run[exec[e].run].status \in Reached \cup {"queued"}
    BY <1>0 DEF OnlyReached
  <2>6. run[exec[e].run].status \in {"finalized", "completed", "failed"}
    BY <2>4, <2>5 DEF CanTransition, Transitions, Reached, PastStream
  <2> QED
    BY <1>1, <2>2, <2>6 DEF TransitionCheck, rowVars
<1>2. CASE TransitionWrite(e)
  <2>1. Local(e, AfterMove(exec[e].to), NextTarget(exec[e].to), exec[e].started, exec[e].done)
    BY <1>2, Flow
  <2>2. AfterMove(exec[e].to) \notin InTry
    BY <2>1 DEF Local
  <2>3. exec[e].to \in {"completed", "failed"}
    BY <1>0, <2>2 DEF AfterMove, Reached, PastStream
  <2>4. run' = Moved(e)
    BY <1>2 DEF TransitionWrite
  <2>5. run'[exec[e].run].status = exec[e].to
    BY <1>0, <2>4 DEF Moved, WithStatus, TypeInv, TypeOK
  <2> QED
    BY <2>3, <2>5 DEF Terminal
<1>3. CASE \/ IssueToken(e) \/ CreateSandbox(e) \/ ResolveEndpoint(e) \/ EmitStarted(e)
           \/ SendPrompt(e) \/ StoreChunk(e) \/ EndStream(e) \/ EmitUsage(e) \/ EmitDone(e)
           \/ CatchError(e) \/ Crash(e)
  BY <1>3, Flow DEF Keeps, Targets, Local
<1>4. CASE \/ RevokeTokens(e) \/ ReleaseRead(e) \/ ReleaseWrite(e) \/ DestroySandbox(e)
  BY <1>4 DEF RevokeTokens, ReleaseRead, ReleaseWrite, DestroySandbox, At
<1> QED
  BY <1>1, <1>2, <1>3, <1>4 DEF ExecStep

(* The targets of the executions and the statuses of the rows.             *)
LEMMA ReachedStep == TypeInv /\ Control /\ OnlyReached /\ [Next]_vars => OnlyReached'
<1> SUFFICES ASSUME TypeInv, Control, OnlyReached, [Next]_vars PROVE OnlyReached'
  OBVIOUS
<1>1. \A r \in Runs : run'[r].status \in Reached \cup {"queued"}
  BY StatusAfter DEF OnlyReached, Reached
<1>2. ASSUME NEW e \in Execs PROVE exec'[e].to \in Reached
  <2>1. CASE exec'[e] = exec[e]
    BY <2>1 DEF OnlyReached
  <2>2. CASE TransitionWrite(e)
    <3>1. exec[e].to \in Reached => NextTarget(exec[e].to) \in Reached
      BY DEF NextTarget, Reached, PastStream
    <3> QED
      BY <2>2, <3>1, Flow DEF OnlyReached, Local, Keeps
  <2>3. CASE (ExecStep(e) \/ Crash(e)) /\ ~ TransitionWrite(e)
    BY <2>3, Flow DEF ExecStep, OnlyReached, Keeps, Targets, Local, Reached, PastStream
  <2>4. CASE \E r \in Runs : Deliver(e, r)
    BY <2>4, DeliverAfter DEF OnlyReached, Local
  <2>5. Quiet => exec'[e] = exec[e]
    BY DEF Quiet
  <2> QED
    BY <2>1, <2>2, <2>3, <2>4, <2>5, NextKinds, OthersStay, DeliverAfter
<1> QED
  BY <1>1, <1>2 DEF OnlyReached

(* The execution that is about to complete a finalized run is not diverted *)
(* from it while the run is finalized.                                     *)
LEMMA FinalizedStep ==
  ASSUME TypeInv, SettleInv, "db" \notin Faults, [Next]_vars,
         NEW r \in Runs, run'[r].status = "finalized"
  PROVE  \E e \in Execs : exec'[e].run = r /\ Completing(e)'
<1>1. CASE run[r].status = "finalized"
  <2>1. PICK e \in Execs : exec[e].run = r /\ Completing(e)
    BY <1>1 DEF SettleInv
  <2>2. ASSUME ExecStep(e) \/ Crash(e) PROVE exec'[e].run = r /\ Completing(e)'
    <3>0. exec'[e].run = r
      BY <2>1, <2>2, OthersStay
    <3>1. CASE TransitionCheck(e)
      <4>1. exec[e].to = "completed"
        BY <2>1, <3>1 DEF Completing, TransitionCheck, At
      <4>2. CanTransition(Status(e), exec[e].to)
        BY <1>1, <2>1, <4>1 DEF CanTransition, Transitions, Status
      <4>3. Goto(e, "write")
        BY <3>1, <4>2 DEF TransitionCheck
      <4>4. Keeps(e, "write")
        BY <4>3, LocalAfter DEF TypeInv, Keeps
      <4> QED
        BY <3>0, <4>1, <4>4 DEF Keeps, Local, Completing
    <3>2. CASE TransitionWrite(e)
      <4>1. exec[e].to = "completed"
        BY <2>1, <3>2 DEF Completing, TransitionWrite, At
      <4>2. run' = Moved(e)
        BY <3>2 DEF TransitionWrite
      <4>3. run'[r].status = "completed"
        BY <2>1, <4>1, <4>2 DEF Moved, WithStatus, TypeInv, TypeOK
      <4> QED
        BY <4>3
    <3>3. CASE Crash(e)
      BY <3>0, <3>3, Flow DEF Keeps, Local, Completing, At
    <3>4. CASE ExecStep(e) /\ ~ TransitionCheck(e) /\ ~ TransitionWrite(e)
      BY <2>1, <3>4
         DEF ExecStep, Completing, At, IssueToken, CreateSandbox, ResolveEndpoint, EmitStarted,
             SendPrompt, StoreChunk, EndStream, EmitUsage, EmitDone, CatchError, RevokeTokens,
             ReleaseRead, ReleaseWrite, DestroySandbox
    <3> QED
      BY <2>2, <3>1, <3>2, <3>3, <3>4
  <2>3. ~ \E q \in Runs : Deliver(e, q)
    BY <2>1 DEF Deliver, Completing, At
  <2>4. (exec'[e] = exec[e]) => exec'[e].run = r /\ Completing(e)'
    BY <2>1 DEF Completing, At
  <2>5. Quiet => exec'[e] = exec[e]
    BY DEF Quiet
  <2> QED
    BY <2>2, <2>3, <2>4, <2>5, NextKinds, OthersStay, DeliverAfter
<1>2. CASE run[r].status # "finalized"
  <2>1. PICK e \in Execs : TransitionWrite(e) /\ exec[e].run = r /\ exec[e].to = "finalized"
    BY <1>2, StatusAfter
  <2>2. Local(e, "check", "completed", exec[e].started, exec[e].done)
    BY <2>1, Flow DEF AfterMove, NextTarget
  <2>3. exec'[e].run = r
    BY <2>1, OthersStay DEF ExecStep
  <2> QED
    BY <2>2, <2>3 DEF Local, Completing
<1> QED
  BY <1>1, <1>2

LEMMA DrivenStep ==
  ASSUME TypeInv, SettleInv, "db" \notin Faults, [Next]_vars,
         NEW r \in Runs, Delivered(r)', ~ IsTerminal(run'[r].status)
  PROVE  \E e \in Execs : exec'[e].run = r /\ Driving(e)'
<1>1. CASE \E e \in Execs : Deliver(e, r)
  BY <1>1, DeliverAfter DEF Local, Driving, InTry
<1>2. CASE \E e \in Execs : TransitionWrite(e) /\ exec[e].run = r
  <2>1. PICK e \in Execs : TransitionWrite(e) /\ exec[e].run = r
    BY <1>2
  <2>2. exec'[e].run = r /\ Driving(e)
    BY <2>1, OthersStay DEF ExecStep, TransitionWrite, At, Driving, InTry
  <2>3. Driving(e)'
    BY <2>1, <2>2, StopsDriving DEF ExecStep, SettleInv, IsTerminal, TransitionWrite, At
  <2> QED
    BY <2>2, <2>3
<1>3. CASE ~ (\E e \in Execs : Deliver(e, r)) /\ ~ \E e \in Execs : TransitionWrite(e) /\ exec[e].run = r
  <2>1. run'[r].status = run[r].status
    BY <1>3, StatusAfter DEF IsTerminal, Terminal
  <2>2. Delivered(r)
    <3>1. PICK f \in Execs : exec'[f].run = r
      BY DEF Delivered
    <3>2. exec[f].run = r
      BY <1>3, <3>1, NextKinds, OthersStay, DeliverAfter DEF Quiet
    <3> QED
      BY <3>2 DEF Delivered
  <2>3. PICK e \in Execs : exec[e].run = r /\ Driving(e)
    BY <2>1, <2>2 DEF SettleInv
  <2>4. ASSUME ExecStep(e) \/ Crash(e), ~ Driving(e)'
        PROVE  \E g \in Execs : exec'[g].run = r /\ Driving(g)'
    <3>1. /\ exec[e].to = "failed" /\ At(e, "check") /\ run[r].status = "finalized"
      BY <2>1, <2>3, <2>4, StopsDriving DEF SettleInv, IsTerminal, Terminal
    <3>2. PICK g \in Execs : exec[g].run = r /\ Completing(g)
      BY <3>1 DEF SettleInv
    <3>3. g # e
      BY <3>1, <3>2 DEF Completing, At
    <3>4. exec'[g] = exec[g]
      BY <2>4, <3>3, OthersStay
    <3> QED
      BY <3>2, <3>4 DEF Completing, Driving, InTry, At
  <2>5. ASSUME ExecStep(e) \/ Crash(e) PROVE exec'[e].run = r
    BY <2>3, <2>5, OthersStay
  <2>6. (exec'[e] = exec[e]) => exec'[e].run = r /\ Driving(e)'
    BY <2>3 DEF Driving
  <2>7. ~ \E q \in Runs : Deliver(e, q)
    BY <2>3 DEF Deliver, Driving, InTry, At
  <2>8. Quiet => exec'[e] = exec[e]
    BY DEF Quiet
  <2>9. (ExecStep(e) \/ Crash(e)) \/ exec'[e] = exec[e]
    BY <2>7, <2>8, NextKinds, OthersStay, DeliverAfter
  <2> QED
    BY <2>4, <2>5, <2>6, <2>9
<1> QED
  BY <1>1, <1>2, <1>3

(* As long as Postgres answers, a run whose executions have all ended is   *)
(* in a terminal status: whatever the executions, the cancel requests and  *)
(* the sweep overwrote, the last of them to end left it settled.           *)
THEOREM SettledAlways ==
  ASSUME "db" \notin Faults
  PROVE  Spec => []SettledWhenOver
<1>1. Init => TypeInv /\ Control /\ SettleInv
  BY TypeInit, ControlInit, SettleInit
<1>2. TypeInv /\ Control /\ SettleInv /\ [Next]_vars => (TypeInv /\ Control /\ SettleInv)'
  <2> SUFFICES ASSUME TypeInv, Control, SettleInv, [Next]_vars PROVE SettleInv'
    BY TypeStep, ControlStep
  <2>1. OnlyReached'
    BY ReachedStep DEF SettleInv
  <2>2. \A r \in Runs : Delivered(r)' /\ ~ IsTerminal(run'[r].status) =>
          \E e \in Execs : exec'[e].run = r /\ Driving(e)'
    BY DrivenStep
  <2>3. \A r \in Runs : run'[r].status = "finalized" =>
          \E e \in Execs : exec'[e].run = r /\ Completing(e)'
    BY FinalizedStep
  <2> QED
    BY <2>1, <2>2, <2>3 DEF SettleInv, IsTerminal
<1>3. SettleInv => SettledWhenOver
  BY DEF SettleInv, SettledWhenOver, Delivered, Driving, InTry, At
<1> QED
  BY <1>1, <1>2, <1>3, PTL DEF Spec

=============================================================================
