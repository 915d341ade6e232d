----------------------------- MODULE AgentWorker -----------------------------
(***************************************************************************)
(* The agent worker (apps/agent-worker/src/server.ts): /prompt remembers   *)
(* the AbortController of its stream under a session, /abort looks it up.  *)
(* The orchestrator passes the id of the run as the session                *)
(* (run-orchestrator.ts:157), so a job delivered twice prompts twice in    *)
(* one session.                                                            *)
(***************************************************************************)
CONSTANTS
  Prompts,   \* requests to /prompt under way
  Sessions,
  NoPrompt

ASSUME NoPromptAssumption == NoPrompt \notin Prompts

VARIABLES
  activeSessions,  \* the controller a session is remembered with, by its prompt
  prompt           \* prompt[p]: its stream, its session, and (history) whether
                   \* its session was shared while it streamed

workerVars == <<activeSessions, prompt>>

WorkerInit ==
  /\ activeSessions = [s \in Sessions |-> NoPrompt]
  /\ prompt = [p \in Prompts |->
                 [pc |-> "idle", session |-> CHOOSE s \in Sessions : TRUE, shared |-> FALSE]]

\* Streams of a session whose cleanup has not run.
Unsettled(s) == {p \in Prompts : prompt[p].session = s /\ prompt[p].pc \in {"streaming", "aborted"}}

(* The prompts after one more has come to session s. *)
Joined(s) == [p \in Prompts |-> [prompt[p] EXCEPT !.shared = @ \/ p \in Unsettled(s)]]

(* POST /prompt: the session is taken over whoever had it. *)
StartPrompt(p, s) ==
  /\ prompt[p].pc = "idle"
  /\ activeSessions' = [activeSessions EXCEPT ![s] = p]
  /\ prompt' = [Joined(s) EXCEPT ![p] = [pc |-> "streaming", session |-> s, shared |-> Unsettled(s) # {}]]

(* Mutant: the session is remembered though the prompt was refused. *)
RefusePromptRemembered(p, s) ==
  /\ prompt[p].pc = "idle"
  /\ activeSessions' = [activeSessions EXCEPT ![s] = p]
  /\ prompt' = Joined(s)

(* The project is invalid, or the stream cannot be begun: the session is   *)
(* forgotten, whoever had it.                                              *)
RefusePrompt(p, s) ==
  /\ prompt[p].pc = "idle"
  /\ activeSessions' = [activeSessions EXCEPT ![s] = NoPrompt]
  /\ prompt' = Joined(s)

(* result.response is fulfilled or rejected, which need never happen. *)
Settle(p) ==
  /\ prompt[p].pc \in {"streaming", "aborted"}
  /\ activeSessions' = [activeSessions EXCEPT ![prompt[p].session] = NoPrompt]
  /\ prompt' = [prompt EXCEPT ![p].pc = "idle", ![p].shared = FALSE]

(* POST /abort; a session that is not there is answered with 404. *)
AbortSession(s) ==
  /\ activeSessions[s] # NoPrompt
  /\ prompt' = [prompt EXCEPT ![activeSessions[s]].pc = "aborted"]
  /\ activeSessions' = [activeSessions EXCEPT ![s] = NoPrompt]

WorkerNext ==
  \/ \E p \in Prompts : Settle(p) \/ \E s \in Sessions : StartPrompt(p, s) \/ RefusePrompt(p, s)
  \/ \E s \in Sessions : AbortSession(s)

WorkerSpec == WorkerInit /\ [][WorkerNext]_workerVars

(* What /health counts and /abort finds is a stream of that very session,  *)
(* not aborted yet; and a stream can be aborted as long as no other prompt *)
(* has come to its session before the cleanup of this one, or this one     *)
(* before the cleanup of another.                                          *)
SessionsSound ==
  /\ \A s \in Sessions : activeSessions[s] # NoPrompt =>
       LET p == activeSessions[s] IN prompt[p].pc = "streaming" /\ prompt[p].session = s
  /\ \A p \in Prompts : prompt[p].pc = "streaming" /\ ~prompt[p].shared =>
       activeSessions[prompt[p].session] = p
=============================================================================
