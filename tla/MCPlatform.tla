----------------------------- MODULE MCPlatform -----------------------------
(***************************************************************************)
(* The parts of the platform that share no state, in one model: part says  *)
(* which of them moves, so that their states add up instead of             *)
(* multiplying.  The others stay where they begin, which is one state      *)
(* each, and in which fairness asks for nothing.                           *)
(***************************************************************************)
EXTENDS RunCreation, TokenCache, TranslateStream, TranslateRequest, RateLimit, UsageMeter,
        BudgetWindows, AgentDefinition, ProjectAgents, Listing, Credentials, AgentTask,
        Members, Stars, AgentWorker, SandboxPool, SkillInstall, Dream, McpClient, TLC

CONSTANTS q1, t1, b1, c1, c2, n1, v1, g1, g2, g3

VARIABLE part

mcVars == <<vars, tokenVars, translateVars, rateVars, meterStreamVars, definitionVars,
            projectVars, listingVars, credentialVars, taskVars, memberVars, starVars,
            workerVars, poolVars, installVars, dreamVars, mcpVars, requestVars,
            budgetVars, part>>

\* Two tokens with different limits; the usage objects of one answer.
MCRpm == [c \in Clients |-> IF c = c1 THEN 1 ELSE 2]

MCUsages == [first |-> [prompt |-> 3, cached |-> 1, completion |-> 0],
             final |-> [prompt |-> 3, cached |-> 1, completion |-> 2],
             delta |-> [prompt |-> 0, cached |-> 0, completion |-> 3]]

MCPrice == [input |-> 10, cacheRead |-> 1, output |-> 100]

\* Two calls of a project and one of none; what is enforced is full after one call.
MCScopesOf == [c \in Billed |-> IF c = g3 THEN <<"global">> ELSE <<"project", "global">>]

Budget(of, window, limit, enforce) ==
  [scope |-> of, window |-> window, limit |-> limit, enforce |-> enforce]

MCBudgetTables ==
  { { Budget("global", "day", 1, TRUE), Budget("global", "total", 1, FALSE) },
    { Budget("project", "day", 2, FALSE), Budget("project", "total", 1, TRUE),
      Budget("global", "month", 1, TRUE) } }

\* g1 and g2 are interchangeable; one call may get past its budget unseen.
BudgetCalls ==
  /\ bill[g2].pc # "idle" => bill[g1].pc # "idle"
  /\ bill[g1].pc # "blind" /\ bill[g2].pc # "blind"

\* Tasks and bodies are interchangeable, so q1 may be taken to ask for these.
FirstAsks == {NoAsk} \cup { ask \in Asks : ask.task = t1 /\ ask.body = b1 }

MCInit ==
  /\ part \in {"creation", "token", "translate", "rate", "usage", "definition",
               "project", "listing", "service", "vault", "task",
               "members", "stars", "worker", "pool", "install", "dream", "mcp",
               "request", "budget"}
  /\ Init /\ TokenInit /\ TranslateInit /\ RateInit /\ UsageInit
  /\ DefinitionInit /\ ProjectInit
  /\ ListingInit /\ (part # "listing" => table = {})
  /\ CredentialInit
  /\ part # "vault" => scope = "project" /\ \A s \in Storers : storer[s].name = n1
  /\ TaskInit /\ (part # "task" => task.active # NoRun /\ task.version = v1)
  /\ part # "usage" => protocol = "openai"
  /\ MembersInit /\ (part # "members" => owned)
  /\ StarsInit /\ (part # "stars" => registry = "mcp")
  /\ WorkerInit /\ PoolInit /\ InstallInit /\ DreamInit /\ McpInit /\ RequestInit
  /\ BudgetInit /\ (part # "budget" => \A b \in budgets : b.scope = "global")

MCNext ==
  /\ UNCHANGED part
  /\ IF part = "creation" THEN Next /\ req'[q1].ask \in FirstAsks ELSE UNCHANGED vars
  /\ IF part = "token" THEN TokenNext ELSE UNCHANGED tokenVars
  /\ IF part = "translate" THEN TranslateNext ELSE UNCHANGED translateVars
  /\ IF part = "rate" THEN RateNext ELSE UNCHANGED rateVars
  /\ IF part = "usage" THEN UsageNext ELSE UNCHANGED meterStreamVars
  /\ IF part = "definition" THEN DefinitionNext ELSE UNCHANGED definitionVars
  /\ IF part = "project" THEN ProjectNext ELSE UNCHANGED projectVars
  /\ IF part = "listing" THEN ListingNext ELSE UNCHANGED listingVars
  /\ IF part = "service" THEN ServiceTokenNext
     ELSE IF part = "vault" THEN VaultNext ELSE UNCHANGED credentialVars
  /\ IF part = "task" THEN TaskNext ELSE UNCHANGED taskVars
  /\ IF part = "members" THEN MembersNext ELSE UNCHANGED memberVars
  /\ IF part = "stars" THEN StarsNext ELSE UNCHANGED starVars
  /\ IF part = "worker" THEN WorkerNext ELSE UNCHANGED workerVars
  /\ IF part = "pool" THEN PoolNext ELSE UNCHANGED poolVars
  /\ IF part = "install" THEN InstallNext ELSE UNCHANGED installVars
  /\ IF part = "dream" THEN DreamNext ELSE UNCHANGED dreamVars
  /\ IF part = "mcp" THEN McpNext ELSE UNCHANGED mcpVars
  /\ IF part = "request" THEN RequestNext ELSE UNCHANGED requestVars
  /\ IF part = "budget" THEN BudgetNext /\ BudgetCalls' ELSE UNCHANGED budgetVars

MCSpec == MCInit /\ [][MCNext]_mcVars /\ Fairness /\ McpFairness

(* The type invariants of the parts that have one. *)
TypesOK == TypeOK /\ TokenTypeOK /\ RateTypeOK

(* Both halves of the translation between two protocols: the request, and  *)
(* the stream of the answer.                                               *)
TranslationSound == RequestSound /\ StreamSound

(* Who is let in: within the rate of its token, and within the budget it   *)
(* is held to.                                                             *)
AdmissionHolds == WindowHolds /\ BudgetHolds

(* What a project and the registries keep of their rows: its current       *)
(* agent, an owner, and the counts of stars.                               *)
ProjectSound == CurrentIsLastSet /\ KeepsAnOwner /\ StarsCounted

(* What the packages around a run keep in memory and on disk: the sessions *)
(* of the agent worker, the pool of sandboxes, installed skills, memories  *)
(* after a dream, and the calls and the process of a tool server.          *)
PackagesSound ==
  /\ SessionsSound /\ PoolSound /\ InstalledIsWhole /\ FactsKept
  /\ OwnAnswer /\ StoppedAfterUse

(* Whoever waits is answered: a request that creates a run, however the    *)
(* others end that it waits for, and a call of a tool server.              *)
CallsEnd == RequestsAnswered /\ ToolCallsEnd
=============================================================================
