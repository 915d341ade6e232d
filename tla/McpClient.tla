------------------------------ MODULE McpClient ------------------------------
(***************************************************************************)
(* One stdio MCP server as createMcpRuntime uses it (packages/mcp,         *)
(* adapter.ts and client.ts): loadTools spawns it, says hello, lists its   *)
(* tools, whose calls go to it afterwards, and dispose disconnects, at any *)
(* time and more than once.  Servers with names of their own share nothing. *)
(*                                                                         *)
(* The client matches replies to requests by a number; replies come in any *)
(* order, late, or never, and the server may die between any two steps,    *)
(* before and after Node tells the client.  A step between two callbacks   *)
(* is an action, though Node would run some of them without a pause.  A    *)
(* write to a dead server, and a spawn that fails, emit an error nobody    *)
(* listens to, which ends the host unless it catches what nobody caught.   *)
(***************************************************************************)
EXTENDS Naturals, FiniteSets

CONSTANTS ToolCalls  \* calls of tools; strings other than the two below

McpCalls == {"initialize", "list"} \cup ToolCalls

VARIABLES
  loading,   \* loadTools of this server
  child,     \* the process of the server
  process,   \* this.process is not null
  nextId, pending,   \* of the client; pending[id]: the call
  requests,  \* what the server has been written and has not answered
  replies,   \* lines of its stdout that are not handled yet
  reply,     \* reply[c]: how call c stands, and whose answer it was given
  active,    \* activeClients has the client
  disposed,  \* history: dispose was called after loadTools
  host       \* the process of the client

mcpVars == <<loading, child, process, nextId, pending, requests, replies,
             reply, active, disposed, host>>

Untold == [state |-> "idle", of |-> "nobody"]

McpInit ==
  /\ loading = "idle" /\ child = "none" /\ process = FALSE
  /\ nextId = 1 /\ pending = <<>> /\ requests = {} /\ replies = {}
  /\ reply = [c \in McpCalls |-> Untold]
  /\ active = FALSE /\ disposed = FALSE /\ host = "up"

Unanswered(c) == reply[c].state = "waiting"

(* A write to stdin once the process is gone, unless the client knows. *)
WriteStdin == IF process /\ child \in {"exited", "lost"} THEN host' \in {"up", "down"} ELSE UNCHANGED host

(* Mutant: the numbers of requests that are over are used again. *)
SendRequestReused(c) ==
  LET id == Cardinality(DOMAIN pending) + 1 IN
  /\ nextId' = nextId + 1
  /\ pending' = [i \in DOMAIN pending \cup {id} |-> IF i = id THEN c ELSE pending[i]]
  /\ reply' = [reply EXCEPT ![c].state = "waiting"]
  /\ requests' = IF process /\ child = "running" THEN requests \cup {[id |-> id, call |-> c]} ELSE requests
  /\ WriteStdin

(* sendRequest: the number, the timer, and the line, if there is a process. *)
SendRequest(c) ==
  LET id == nextId IN
  /\ nextId' = nextId + 1
  /\ pending' = [i \in DOMAIN pending \cup {id} |-> IF i = id THEN c ELSE pending[i]]
  /\ reply' = [reply EXCEPT ![c].state = "waiting"]
  /\ requests' = IF process /\ child = "running" THEN requests \cup {[id |-> id, call |-> c]} ELSE requests
  /\ WriteStdin

(* All pending requests are rejected and their timers cleared. *)
RejectAll ==
  /\ pending' = <<>>
  /\ reply' = [c \in McpCalls |-> IF Unanswered(c) THEN [reply[c] EXCEPT !.state = "failed"] ELSE reply[c]]

(* disconnect(); kill() sends SIGTERM. *)
DisconnectClient ==
  /\ RejectAll
  /\ process' = FALSE
  /\ child' = IF process /\ child = "running" THEN "killed" ELSE child
  /\ UNCHANGED <<nextId, requests, replies, host>>

-----------------------------------------------------------------------------
(* loadTools. *)

(* connect(): spawn and initialize. *)
Spawn ==
  /\ host = "up" /\ loading = "idle"
  /\ loading' = "connecting" /\ process' = TRUE
  /\ \/ child' = "running" /\ requests' = {[id |-> nextId, call |-> "initialize"]} /\ UNCHANGED host
     \/ child' = "lost" /\ host' \in {"up", "down"} /\ UNCHANGED requests
  /\ nextId' = nextId + 1
  /\ pending' = [i \in {nextId} |-> "initialize"]
  /\ reply' = [reply EXCEPT !["initialize"].state = "waiting"]
  /\ UNCHANGED <<replies, active, disposed>>

(* initialize was answered: the notification, activeClients, tools/list. *)
Initialized ==
  /\ host = "up" /\ loading = "connecting" /\ reply["initialize"].state = "ok"
  /\ loading' = "listing" /\ active' = TRUE
  /\ SendRequest("list")
  /\ UNCHANGED <<child, process, replies, disposed>>

Listed ==
  /\ host = "up" /\ loading = "listing" /\ reply["list"].state = "ok"
  /\ loading' = "loaded"
  /\ UNCHANGED <<child, process, nextId, pending, requests, replies, reply, active, disposed, host>>

Broken == \/ loading = "connecting" /\ reply["initialize"].state = "failed"
          \/ loading = "listing" /\ reply["list"].state = "failed"

(* Mutant: the server whose tools cannot be listed is left alone. *)
LoadFailsQuietly ==
  /\ host = "up" /\ Broken
  /\ loading' = "failed"
  /\ UNCHANGED <<child, process, nextId, pending, requests, replies, reply, active, disposed, host>>

(* The catch block of loadTools. *)
LoadFails ==
  /\ host = "up" /\ Broken
  /\ loading' = "failed" /\ DisconnectClient
  /\ UNCHANGED <<active, disposed>>

Dispose ==
  /\ host = "up" /\ loading # "idle"
  /\ IF active THEN DisconnectClient
     ELSE UNCHANGED <<child, process, nextId, pending, requests, replies, reply, host>>
  /\ active' = FALSE
  /\ disposed' = (disposed \/ loading \in {"loaded", "failed"})
  /\ UNCHANGED loading

(* execute() of a tool that was loaded, before dispose or after it. *)
CallTool(c) ==
  /\ host = "up" /\ loading = "loaded" /\ reply[c] = Untold
  /\ SendRequest(c)
  /\ UNCHANGED <<loading, child, process, replies, active, disposed>>

-----------------------------------------------------------------------------
(* The server, and what Node tells the client. *)

Serve ==
  /\ child \in {"running", "killed"}
  /\ \E r \in requests : requests' = requests \ {r} /\ replies' = replies \cup {r}
  /\ UNCHANGED <<loading, child, process, nextId, pending, reply, active, disposed, host>>

(* handleResponse: a result or an error for the request of that number. *)
HandleResponse ==
  /\ host = "up"
  /\ \E r \in replies :
       /\ replies' = replies \ {r}
       /\ IF r.id \in DOMAIN pending
          THEN /\ pending' = [i \in DOMAIN pending \ {r.id} |-> pending[i]]
               /\ \E state \in {"ok", "failed"} :
                    reply' = [reply EXCEPT ![pending[r.id]] = [state |-> state, of |-> r.call]]
          ELSE UNCHANGED <<pending, reply>>
  /\ UNCHANGED <<loading, child, process, nextId, requests, active, disposed, host>>

RequestTimesOut(c) ==
  /\ host = "up"
  /\ \E id \in DOMAIN pending :
       /\ pending[id] = c
       /\ pending' = [i \in DOMAIN pending \ {id} |-> pending[i]]
  /\ reply' = [reply EXCEPT ![c].state = "failed"]
  /\ UNCHANGED <<loading, child, process, nextId, requests, replies, active, disposed, host>>

ServerExits ==
  /\ child \in {"running", "killed"}
  /\ child' = "exited" /\ requests' = {}
  /\ UNCHANGED <<loading, process, nextId, pending, replies, reply, active, disposed, host>>

(* Mutant: the requests are forgotten, with their timers. *)
HandleExitForgets ==
  /\ host = "up" /\ child = "exited"
  /\ child' = "reaped" /\ process' = FALSE /\ pending' = <<>>
  /\ UNCHANGED <<loading, nextId, requests, replies, reply, active, disposed, host>>

HandleExit ==
  /\ host = "up" /\ child = "exited"
  /\ child' = "reaped" /\ process' = FALSE /\ RejectAll
  /\ UNCHANGED <<loading, nextId, requests, replies, active, disposed, host>>

-----------------------------------------------------------------------------

LoadStep == Initialized \/ Listed \/ LoadFails

McpNext ==
  \/ Spawn \/ LoadStep \/ Dispose \/ \E c \in ToolCalls : CallTool(c)
  \/ Serve \/ HandleResponse \/ ServerExits \/ HandleExit
  \/ \E c \in McpCalls : RequestTimesOut(c)

(* Timers fire, and what was answered goes on; nothing is asked of the     *)
(* server, which may neither answer nor exit.                              *)
McpFairness ==
  /\ WF_mcpVars(LoadStep)
  /\ \A c \in McpCalls : WF_mcpVars(RequestTimesOut(c))

McpSpec == McpInit /\ [][McpNext]_mcpVars /\ McpFairness

(* A call gets the answer to its own request, or an error, in whatever     *)
(* order answers, timeouts and the end of the server come.                 *)
OwnAnswer == \A c \in McpCalls : reply[c].of \in {"nobody", c}

(* A server whose tools were loaded, or could not be, is stopped by the    *)
(* dispose that comes after that, or at once.  (A dispose while connect()  *)
(* is under way misses it: activeClients does not have it yet.)            *)
StoppedAfterUse == disposed \/ loading = "failed" => child # "running"

(* Every call, those of loadTools included, is answered or fails, whatever *)
(* the server does, while the host lives: one that is sent after the       *)
(* server died or was stopped waits for its timeout.  There are finitely   *)
(* many, each made once, so they are waited for together.                  *)
ToolCallsEnd == []<>(host = "down" \/ \A c \in McpCalls : ~ Unanswered(c))
=============================================================================
