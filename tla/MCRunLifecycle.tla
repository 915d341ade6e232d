--------------------------- MODULE MCRunLifecycle ---------------------------
(* RunLifecycle with small constants for TLC. *)
EXTENDS RunLifecycle, TLC

CONSTANTS r1, r2, e1, e2, c1

OneRun == {r1}
TwoRuns == {r1, r2}
OneExec == {e1}
TwoExecs == {e1, e2}
OneCancel == {c1}
NoCancel == {}

AgentFault == {"agent"}
CrashFault == {"crash"}
AgentAndCrash == {"agent", "crash"}
Environment == {"sandbox", "agent"}
AllFaults == FaultKinds

(* The executions are interchangeable; not used with liveness. *)
ExecSymmetry == Permutations(TwoExecs)
=============================================================================
