# TLA+ models of open-rush

open-rush runs coding agents in sandboxes. The web application stores *agents*
(rows of `tasks`) and their *runs* in Postgres; a control worker takes
`run/execute` jobs from pg-boss and drives each run through a sandbox; the
events of a run go to `run_events`, from where clients follow them over SSE; an
LLM router gives the sandboxes access to models, by tokens that live as long as
the run. This directory holds TLA+ models of the coordination in that code, the
TLC runs that check them and proofs that TLAPS checks.

Paths below are relative to the repository (`src/` in `PROJECT.json`).

## 1. Inventory

| component | state | operations | hard behaviour | what makes it correct |
|---|---|---|---|---|
| Run state machine `packages/control-plane/src/run/run-state-machine.ts` | none | `canTransition`, `isTerminal` | none | the tables |
| Run service `run/run-service.ts`, `drizzle-run-db.ts`, `idempotency.ts` | `runs` | create, create with key, `transition`, `cancelRun`, `retry`, `setActiveStreamId`, `recoverStuckRuns` | check and UPDATE are not one statement; cancel against execution; two requests with one key; answers lost after the commit | one run per key and window; a run ends terminal |
| Run orchestrator `run/run-orchestrator.ts`, `apps/control-worker/src/worker.ts` | locals of `execute`; `runs`, `run_events`, `tasks`, router tokens, sandboxes | `execute`, `finalize`, `consumeStream`, `releaseTaskLock` | jobs delivered twice, worker crashes, any call failing at any point | markers bracket the log; tokens revoked; task unlocked |
| Event store `drizzle-event-store.ts` | `run_events` | `append`, `appendAssignSeq`, `getEvents` | concurrent writers, rollbacks, two numbering schemes behind one flag | the log grows at its end and keeps its rows |
| SSE route `apps/web/app/api/v1/agents/[agentId]/runs/[runId]/events/route.ts` | cursor and poll timer of a connection | replay, tick, close | the run ends while it polls; the client goes away; a query fails | nothing lost or sent twice |
| SDK stream `packages/sdk/src/sse.ts` | last id, attempts | `streamEvents` | lost connections, silent truncation, giving up | same, over reconnections; it ends |
| Agents API `apps/web/app/api/v1/agents/**` | `tasks` | create with first run, add run, DELETE | check and insert apart; DELETE of a snapshot, against the worker's release | a cancelled agent stays cancelled and holds no run |
| Agent definitions `agent-definition-service.ts`, `version/` | definitions and versions | create, patch (If-Match), archive, list | concurrent patches; legacy edits that make no version | no lost patch; versions are dense and final |
| LLM router: catalogue (`packages/llm-router/src/catalog`, `apps/web/app/api/v1/llm`) | tables, version; snapshot of a replica | write, bump, notify; refresh, poll, stop | coalesced refreshes that fail, lost notifications, tables read one by one | consistent snapshots, never older ones, no bumped write missed |
| LLM router: tokens (`auth`) and `llm-access-service.ts` | `llm_router_tokens`, in-process cache | authenticate, issue, revoke, expire | a lookup under way across a revocation | how long a dead token is let in |
| LLM router: budget, rate limit (`guard`) | cached sums, a sorted set in Redis | check, load; acquire | concurrent loads, stale sums, clocks of several replicas | a soft limit with a bound |
| LLM router: metering, inference route (`metering`, `proxy`, `server.ts`) | queue of records, `llm_calls`, `llm_budget_usage` | enqueue, flush, drain; forward, tee | bounded queue, COMMITs without answer, shutdown under load | every record accounted for, charged once |
| LLM router: adapters and usage | one stream | translate, read lines, parse usage, price | bytes cut anywhere, upstream that sends anything in any order, streams that break | a well-formed message, nothing lost, each token paid once |
| Vault, service tokens | entries, tokens | create under a cap, store, revoke, remove, list | count and insert (with an advisory lock for tokens, without for the vault) | the cap; one entry of a name |
| Lists with cursors | a cursor | next page | rows come and go between pages; times cut to milliseconds | each row once |
| Sandbox provider and pool `packages/sandbox/src` | remote sandboxes, pool | create, health, endpoint, destroy; warm up, acquire, release, recycle | create fails half-way; an index kept across an await | no sandbox is lost or handed out twice |
| Agent worker `apps/agent-worker/src/server.ts` | sessions | prompt, abort, cleanup | prompts that share a session | an abort hits the prompt it means |
| Projects `project/`, `agent/project-agent-service.ts` | members, current agent | setCurrentAgent; add, change, remove a member | two at once | one current agent; an owner stays |
| Skill and MCP registries | entries, stars, `star_count` | publish, remove, star, unstar | two statements without a transaction | the count is that of the stars |
| MCP runtime `packages/mcp/src` | a child process, pending calls | connect, list, call, disconnect | replies late, lost, out of order; death of the server; dispose at any time | a call gets its own answer, and an end; no process is left |
| Skills on disk `packages/skills/src` | directories | install | crash or failure between unpacking and rename; two installs | what counts as installed is whole |
| Memory `packages/memory/src` | memories | dream: parse, delete, merge, rewrite | a proposal that contradicts itself | no fact is lost |
| Chat page `apps/web/app/(app)/chat/[id]/page.tsx`, `use-chat-auto-save.ts`, `api/chat/[conversationId]/messages` | messages, status, the stream it reads; rows of `messages` | load, send, stop, read, save | the load, sends, stops, streams and late answers cross | says who said what, in order; becomes idle |
| Templates, prompts, contracts, UI, observability, scripts | rows, text | CRUD | none of their own | not modelled |

How they interact: the web application inserts runs and marks them failed on a
cancel request, with no message to the worker; the worker learns of it only
when its next `transition` reads the row. Job delivery is pg-boss's: at least
once, and a job may be delivered again while its first delivery still runs.
Worker, route and SDK meet only in `run_events` and `runs.status`. The worker
and the router meet in `llm_router_tokens`; console and router meet in the tables
of the catalogue and its version, with notifications only as a hint. Replicas of
the router share Postgres and Redis and keep caches of their own.

`PROJECT.json` lists every component with its status, and under `hazards` the
places of the code that are hard to test, with the properties that watch them.

## 2. Modules

| module | models | instantiated / used by |
|---|---|---|
| `RunStateMachine` | statuses, transition table, cancel matrix | `RunLifecycle` |
| `RunMarkers` | abstract: what the log of a run promises about `run-started` / `run-done` | implemented by `RunLifecycle` |
| `RunLifecycle`, `MCRunLifecycle` | orchestrator executions, cancel requests, the recovery sweep, on run rows, logs, tokens, sandboxes and the task row | - |
| `AppendOnlyLog` | abstract: a log that grows at its end, in each writer's order | implemented by `EventLog` |
| `EventLog` | the two appends of the event store as transactions | `MCRouter` |
| `EventStream` | execution as a writer, SSE route, SDK iterator, the network | `MCReaders`, and directly |
| `ChatPage` | the page of one conversation and the auto-save of it | `MCReaders`, and directly |
| `CreateOnce` | abstract: a request for a run is handled in one instant | implemented by `RunCreation` |
| `RunCreation` | `createRunWithIdempotency` and its transaction | `MCPlatform` |
| `LlmRouter` | one replica: calls, budget cache, records, shutdown | `MCRouter` |
| `CatalogCache` | writes of the console, and the snapshot of one replica | `MCRouter` |
| `TokenCache`, `RateLimit`, `BudgetWindows` | how the router knows a caller, how often and up to which cost it lets him in | `MCPlatform` |
| `UsageMeter`, `TranslateStream`, `TranslateRequest` | what a stream is charged, what the client reads of it, and what it may ask | `MCPlatform` |
| `AgentTask` | an agent of the API with its runs, against DELETE and the worker | `MCPlatform` |
| `AgentDefinition` | a definition and its versions | `MCPlatform` |
| `ProjectAgents`, `Members` | the current agent and the members of a project | `MCPlatform` |
| `Listing` | a client that walks a list | `MCPlatform`, and directly |
| `Credentials` | service tokens and vault entries under a cap | `MCPlatform` |
| `Stars` | stars of an entry of a registry and their count | `MCPlatform` |
| `AgentWorker`, `SandboxPool` | the sessions of the worker; the pool of sandboxes | `MCPlatform` |
| `SkillInstall`, `Dream`, `McpClient` | a skill on disk; a dream; a tool server and its client | `MCPlatform` |
| `MCRouter`, `MCPlatform`, `MCReaders` | the parts above, side by side | - |
| `RunLifecycle_proofs`, `RunMarkers_proofs`, `EventLog_proofs`, `RunCreation_proofs` | theorems about the module of that name | - |
| `EventStream_proofs` | theorems about `EventStream`, `ChatPage`, `MCReaders` | - |
| `MCRouter_proofs` | theorems about `LlmRouter`, `CatalogCache`, `MCRouter` | - |
| `Services_proofs` | theorems about the caches, limits and services in `MCPlatform` | `MCPlatform_proofs` |
| `MCPlatform_proofs` | theorems about the packages around a run, and about `MCPlatform` | - |

The layers of a run fit together through two abstractions. `RunLifecycle` and
`EventStream` take the log of a run to be a sequence; `EventLog` shows that the
table is one while all writers run with the v1 flag (`ImplementsLog`), and that
it is not otherwise (the end of section 3). `EventStream` keeps of the
orchestrator only what a reader can tell: the order of `run-done` and the
terminal status, and that every transition is a check followed later by an
unconditional write. `AgentTask` keeps of a run, in the same way, whether it is
queued, under way or over.

`MCRouter`, `MCPlatform` and `MCReaders` hold parts that share no state. Their variable `part`
chooses in the initial state which of them moves; the others rest in a state in
which fairness asks for nothing. So the states of the parts add up, every
part is explored as if it were alone, and a property of one part is not
disturbed by another.

### RunLifecycle

State: `run[r]` is the row (status, error message, whether a definition version
is bound), `events[r]` its log, `task` the columns `active_run_id` and
`head_run_id`, `token[e]` and `sandbox[e]` what execution `e` holds, `exec[e]`
its local state (`pc` is the call it makes next, `to` the transition it asks
for, `started` and `done` the flags `runStartedEmitted` and `runDoneEmitted`),
`cancel[c]` a cancel request. An *execution* is one delivery of a `run/execute`
job; deliveries of one run may overlap.

Every `await` of `execute` is an action, in the order of the code: check and
write of each `transition`, token, sandbox, endpoint, `run-started`, prompt,
chunks, usage, `run-done(success)`, the five transitions of `finalize`; the
catch block (`run-done(failed)`, then the transition to `failed`, whose error is
swallowed); the finally block (revoke, release the task with its read and its
conditional UPDATE, destroy). `Faults` selects what may fail: `db` (a statement
throws, committed or not), `sandbox`, `agent`, `crash`. The model has the v1
events flag on and LLM access wired, as `worker.ts` can be configured; without
the flag there are no markers. Rows start as the API inserts them: queued, and
the task points at its first run or at none.

### EventLog

`rows[seq]` are committed rows; `lock` is the advisory lock of the run; `tx[w]`,
`seq[w]`, `sent[w]` say where the transaction of writer `w` stands, which number
it computed and how many appends it made. `appendAssignSeq` is five actions
(begin, lock, number, insert into the unique index, commit) or a rollback
anywhere; the INSERT is split so that the snapshot its `MAX(seq)` is taken from
can be older than the index it goes into. `append` is one statement. Which
writers are legacy is a constant: the flag is read by each process, so after a
redelivery both kinds can write one log.

### EventStream

The writer follows the orchestrator; `server` is the connection that the route
serves, `wire` the frames under way and how the body ends, `client` the locals of
`streamEvents`, `got` what the caller has been given. The route reads the
status first and then replays; each tick drains, reads the status and, when it
is terminal, drains again and closes. Faults: `agent`, `cancel`, `reset` (the
connection breaks with an error), `proxy` (it ends as if complete), `db` (a
query of the route fails).

### ChatPage

A send is a number, which also names its run. `turn[p]` says where send `p` is:
its POST under way (`posting`), its stream read (`reading`; `failed` after an error
event), `aborted` with the exception still to come, `over`, `refused`, or `left` with
an earlier opening of the page. `messages` is the state of that name, `current` and
`controller` are `currentRunIdRef` and `streamAbortRef`, `stopping` the calls of
`stopRun` whose cancel request is unanswered, `saving` the body of the save under
way, `saved` the rows. A message of a POST under way is `Pending`, as all of them
share the id `pending-asst`. `setStatus('ready')` and the effect of
`useChatAutoSave` are one step. Opening the page again, from the home page with a
prompt or without, or by a reload, starts with what has been saved. Two
branches are left out, as nothing leads to them: a chat begins with a task that has
no active run, so that the page never attaches to one, and nothing sets
`isDisconnect`, so that the heartbeat never resumes. The log is taken to grow as
it is read; what the route does with it is `EventStream`.

### RunCreation

`req[r]` follows one request through the service and its transaction: the time
the window is counted from (`now`), the time the row will carry (`created`, the
transaction's `now()`), the lock, the lookup, and then replay, conflict or
insert. `Lossy` lets connections be lost before the commit or after it (the
answer of the COMMIT never arrives). Requests of several agents share client
keys. Application and database are assumed to have one clock; with a skew the
window is off by that skew.

### LlmRouter

`call[c]` is a call from its checks through the budget gate to the end of its
response, in whatever way it ends; `cached` the entry of the budget cache;
`queue`, `due` and `batch` the records waiting, the `flushOnce` calls in the chain
and the transaction under way; `calls` and `usage` the two tables it writes, whose
COMMIT may succeed unseen; `phase`, `ahead` and `early` the shutdown. A call that
is served costs 1. Which check refuses a call is nondeterministic, and so is
whether a budget can be loaded: the gate lets such a call in (`blind`).

### CatalogCache

Writers change a table, bump the version and notify; a notification may be lost
or arrive late. The replica boots, polls, and refreshes: version, then the
tables one after the other, any of which may fail. `pending` is the flag that
coalesces notifications, `owed` a history of what the replica was told and does
not have.

### TokenCache, RateLimit, BudgetWindows, UsageMeter, TranslateStream, TranslateRequest

`TokenCache` follows lookups of one token in two steps, statement and
continuation, with clocks for what is left of the token and of the cache entry.
`RateLimit` is the Lua script on its sorted set; replicas read clocks that differ
by up to `Skew`, before a way of up to `Delay`. `BudgetWindows` has the budgets themselves,
where `LlmRouter` has one sum: scopes of which the nearest binds, days and months
that turn while a load or a call is under way, sums charged in batches to the
windows a call began in. `UsageMeter` feeds a text in chunks
through the line buffer and the parser of either protocol and compares the price
with that of the text as a whole. `TranslateStream` is the state machine of
`openai-to-anthropic.ts` with the pipe around it: upstream sends reasoning, text,
fragments of tool calls, finish reasons, in any order, or breaks off. What it
writes is compared with `Completion`, the translation of an answer in one piece.
`TranslateRequest` is the other direction: a client of the Anthropic API builds
a conversation block by block (texts, images, thinking, tool calls, and the results
of these in the message right behind), and every conversation it might send is
translated to the messages of an OpenAI upstream.

### AgentTask, AgentDefinition, ProjectAgents, Members, Credentials, Stars

Rows of Postgres under concurrent requests. An action is a statement or, where
the code opens a transaction and locks what it changes, the part of it that
ends with the commit; what a request has read is kept in its record and may be
stale when it writes. `ProjectAgents` models READ COMMITTED in detail: the
snapshot of an UPDATE, the rows that wait for another transaction, the partial
unique index. `AgentDefinition` locks the row as `FOR UPDATE` does. `Credentials`
has the advisory lock of service tokens, and the vault's three statements
without one. `Members` and `Stars` have the two statements of the code without a
transaction between them, and flags (`raced`, `miscounted`) that say when a check
was overtaken.

### Listing

A walk by a cursor over rows with a time in microseconds (`Micros`, `PerMilli` of
them to the millisecond), while rows appear and go. `exact` tells the two
comparisons in the code apart.

### AgentWorker, SandboxPool, SkillInstall, Dream, McpClient

State in memory, on disk, or in a child process. `AgentWorker` is the map of
sessions, which a later prompt takes over. `SandboxPool` is an array whose `warmup`
and `recycleIdle` go on, after an await, from an index they had. `SkillInstall` is
two directories named alike by every install of that name, with tar, the rename,
failures and deaths between. `Dream` takes any list of items a language model
may propose for a few memories, each with a fact of its own. `McpClient` is one
stdio server from spawn to kill: requests and replies under way, timers, death
of the server before and after the client is told, dispose at any time.

## 3. Runs

Passing:

| run | instance | question |
|---|---|---|
| `lifecycle_race` | 2 runs of a task, 2 executions on the same or one each, sandbox and agent faults | do overlapping executions keep tokens, the task lock, the terminal end and the markers (`ImplementsMarkers`) |
| `lifecycle_faults` | 1 execution, 1 cancel, 1 chunk, all faults | markers with lost and half-done statements, against a cancel request at every point |
| `lifecycle_live` | 2 deliveries of a run, agent faults and crashes, fairness | a delivered run settles, and a redelivery unblocks what a crash left |
| `stream` | `MCReaders`. SDK: both numberings, all faults, 5 reconnections, fairness. Chat page: 2 sends, 2 pieces, 2 openings | SDK: gapless, complete when the iterator returns (but for `db` and `proxy` faults), and the iterator ends. Page: one stream at a time, and who said what, in order (`ReadersSound` has the second of the SDK and those of the page) |
| `router` | `MCRouter`: 3 executions that append with or without the flag; 3 calls through gate, queue and shutdown; 2 writes of a catalogue; fairness | `ImplementsLog`, `RowsStay`, `NeverCollides`, `AppendsEnd`; `GateCloses`, `RecordsSound`, `RecordsSettle`, `ShutdownEnds`; `SnapshotSound`, `NeverBack`, `BumpedIsSeen` |
| `platform` | `MCPlatform`: 20 parts, fairness for the two that wait for others | below |

What `platform` asks of each part:

| part | property | what it says |
|---|---|---|
| `RunCreation` | `OneRunPerWindow`, `RepliesMatch`, `ImplementsOnce`, `RequestsAnswered` | one run per key and window, right answers, each request atomic, all answered |
| `TokenCache` | `RevocationBites` | a dead token lets nobody in after `TTL` and the travel of an answer |
| `BudgetWindows` | `BudgetHolds` (in `AdmissionHolds`) | nobody is refused for what was spent in another window or scope; a full budget is seen after `CacheFor` and `Way`, across the turn of a window too |
| `RateLimit` | `WindowHolds` (in `AdmissionHolds`) | in a window, less skew and delay, a token is admitted in no more milliseconds than its limit |
| `TranslateStream` | `StreamSound` (in `TranslationSound`) | blocks open and close in order; the client reads what it would have read without streaming |
| `TranslateRequest` | `RequestSound` (in `TranslationSound`) | results stand right behind the message that calls for them; nothing said or called is lost or moved |
| `UsageMeter` | `ChargedAsSent` | each token paid once in either protocol, however the stream is cut or repeats itself |
| `AgentDefinition` | `HistorySound` | no patch overwrites what its author had not read; the history has no gaps and ends with the archive |
| `ProjectAgents`, `Members`, `Stars` | `ProjectSound` | the current agent is that of the last call that succeeded; a project that has an owner keeps one, unless two requests overlap; the count is that of the stars |
| `Listing` | `EachRowOnce` | a walk gives each row that stays once, and none twice |
| `Credentials` (its two halves apart) | `CredentialsSound` | the cap of service tokens; one entry of a name in a project |
| `AgentTask` | `CancelledForGood` | a deleted agent stays so, holds no run, and gets none from a later post |
| `AgentWorker`, `SandboxPool`, `SkillInstall`, `Dream`, `McpClient` | `PackagesSound` | sessions name their stream; a sandbox has one holder and none is forgotten; installed skills are whole; facts survive a dream; a call gets its own answer and no process outlives its use |
| `McpClient` | `ToolCallsEnd` (in `CallsEnd`) | a call of a tool ends |

Failing on purpose, each showing where the code does not do what a document or
comment says (`findings` in `PROJECT.json` quotes them):

| run | property | what happens |
|---|---|---|
| `finding_table` | `OnlyTableTransitions` | a transition that was already checked overwrites a confirmed cancellation: `failed` becomes `provisioning`, with the message of the cancellation kept |
| `finding_crash` | `StuckRunsRecovered` | the sweep only looks at a status nobody writes |
| `finding_tail` | `TailDelivered` | after a cancel the stream closes before the execution's last events |
| `finding_rerun` | `NotifiedIsSeen` | a refresh that finds the version unchanged returns before the rerun, so a notification that came meanwhile waits for the next poll |
| `finding_tokens` | `EachRowOnce` | the list of service tokens compares a cursor in milliseconds with a column in microseconds and skips rows |
| `finding_chat` | `PageSettles` | the route closes a stream without the `[DONE]` the page waits for: after a run it stays "streaming", takes no further message and saves nothing |

Some properties stop where the code stops keeping them, and the models show it
when the restriction is lifted:

- Two executions of one run each append a `run-done`, because `runDoneEmitted` is
  a local of `execute` ("at-most-once terminal marker per run",
  `run-orchestrator.ts:78`). `RunMarkers` therefore promises one per writer.
- `run-done(success)` is appended before `finalize`; a cancel request in between
  leaves it on a failed run. `FinalizingImpliesSuccess` is the direction that holds.
- With legacy writers a row may appear behind a reader's cursor (each execution
  numbers from 0), so `ImplementsLog` is for v1 writers.
- A query that fails, or a proxy that truncates, before a connection has sent
  anything ends the SDK's iteration with the run still going on (`sse.ts:315`), so
  `ReturnedIsComplete` is checked without the `db` and `proxy` faults.
- `releaseTaskLock` moves `head_run_id` to the completed run, but the API sets
  `active_run_id` and `head_run_id` together and the release applies only to the
  active run, so the head never changes there; nothing is claimed about it.
- Without the v1 flag seq 0 is never delivered (`events/route.ts:103`):
  `GaplessDelivery` speaks of what is behind cursor 0.
- A post that read the agent before its DELETE may insert its run afterwards
  (`late` in `AgentTask`), and runs of POST `.../runs` are never the active one,
  which is all that DELETE cancels.
- The gate and the window of the router are soft: calls let in together may
  all pass a budget that has room for one, a call whose budget cannot be loaded is let
  in, and calls of one millisecond may be one member of the sorted set.
- The cap on vault entries is not claimed: counts taken at once all pass. In the
  platform scope `project_id` is NULL, NULLs never conflict, and a call that
  stores a name again leaves two rows, though the route says "upsert by name":
  `OneEntryPerName` is for projects.
- `ChatSound` ends with `calm`: the page becomes ready while a send is out, or takes
  another while a POST is. A stop before the POST is answered does that (the message
  `pending-asst` of the next send is then renamed with the first, and the cancel goes
  to the run before); so do the late answer to an earlier cancel and an older
  stream that breaks. What was sent before the load is shown is wiped by it
  (`wiped`), which for the prompt of the home page is always so; a reload sends the
  prompt in the URL again; a page whose load failed saves over the rows it
  did not show; a save is skipped while another is under way. `isStreamError` looks for
  `error`, the SDK's chunks carry `errorText`, so a failed run may just end.
- Two requests that overlap can remove both owners of a project
  (`project-member-service.ts` counts in a statement of its own), so `KeepsAnOwner`
  ends with `raced`. A project counts its creator as owner, row or not.
- `StarsCounted` ends with `miscounted`: two removals of one star, a removal that
  overtakes the count of its star, one statement of the two failing, or an
  entry published again under a name with stars.
- A second prompt of a session hides the first from `/abort`, so `SessionsSound`
  speaks of streams that never shared theirs.
- Two overlapping calls of `recycleIdle` may drop an entry neither destroyed
  (`crossed`). `expired` ignores `inUse`: an agent may hold a sandbox that is destroyed.
- Installs of one directory name that overlap (`@a/x` and `@b/x`, or two processes)
  may move half-unpacked files into place, in spite of the comment on
  concurrent safety; `InstalledIsWhole` ends with `overlapped`.
- A merge's `keepId` is not checked against `usedIds`, so a memory an earlier
  action deleted or rewrote may be kept again; `FactsKept` ends with `rekept`, and
  speaks of dreams that finish: a failure between deletes and rewrites loses facts too.
- A dispose during `loadTools` misses the server that is connecting; a call made
  after a dispose waits for its timeout; a write to a server that died emits an
  error nobody listens to, which may end the host.

### Bounds, and why they are enough

- Two runs share one task; a third only repeats them. Two executions: every race here is between the check of one and a write of
  another; a third execution adds no new pair. Three writers in `EventLog` let
  one wait while two others hand the lock on; so do two requests with the
  rows and clocks of `RunCreation`, of which one may find the row of the other in,
  at the edge of or out of the window.
- `MaxChunks` 0 or 1: chunks are alike; what matters is that there may be none,
  and an append between any two steps. `MaxEvents` 3 gives logs of up to five
  events, so that a connection can be lost before, between and after frames.
- `MaxReconnects` 5 is the length of `DEFAULT_RECONNECT_DELAYS_MS`, the real value.
- `Window` 1 with a clock to 3 has runs in, at the edge of, and out of the
  window.
- Router: 3 calls against `BatchSize` 2 and `MaxQueue` 2 fill the queue, leave a
  batch that is not full, and overflow; `Limit` 1 is reached and passed; one
  credential suffices, as a hole is a reference without its row.
- `TTL` 2, `Travel` 1 and `Life` 3 let an answer outlive the revocation, fill the cache
  and expire; `Horizon` 5 is longer than `RateWindow` 3 and its skew, and the two
  clients have the limits 1 and 2.
- Three calls under budgets: one of a project spends, the next fills the cache, the third
  asks after the day turned (`DayLength` 3 of 4 ticks); the month does not turn there, as a
  window is like another.
- `MaxText` 6 is two lines of usage, of three usage objects: one with the prompt, one with
  all, one with the output only. `MaxChunks` 3 opens, interleaves and
  closes two tool calls around a text. `MaxBlocks` 6 has two tool calls, their
  results, and words before and among them.
- Three patchers and an old client: one patch succeeds, one finds a new version,
  one an edit without a version. Three setters: one waits, one commits, one
  finds a row its snapshot did not have. `Cap` 2 with three creators; two storers of one name.
- `Listing`: three rows, pages of one, two microseconds to the millisecond: rows
  of one millisecond before, on and after a page's end.
- Two users and two changes are both owners at once; two toggles of two users
  reach a count of 2, and `MaxCount` 3 is above it. Three prompts in two sessions:
  a session is taken over twice, the other is not. A pool of two with three
  sandboxes in all has one replaced. Three memories and three items reach every
  pair of a delete, a merge and a rewrite. Two tool calls cross.
- Chat page: two sends, two pieces, one waiting stop and two openings cross in every
  order; three sends in one opening were checked alone (9 million states). The
  text of an answer is its pieces, so that two tell order, gap and repetition.
- `CHECK_DEADLOCK FALSE` throughout: all these systems may stop, when every
  execution, request or client is done.
- Symmetry is used for executions, writers, requests, agents and bodies, in runs
  without liveness properties only.

### Fairness

`RunLifecycle`: each execution and accepted cancel request goes on (Node runs
the continuation of an await when it resolves) and the sweep is scheduled every
two minutes. Deliveries and crashes are not fair: nothing obliges pg-boss to
deliver again. `EventLog` and `RunCreation`: Postgres executes what was sent
(weak) and, its lock queue being first come first served, grants an advisory
lock that becomes free again and again (strong). `EventStream`: the execution
ends (chunks are not fair), the poll timer fires, the client reads on.
`LlmRouter`: the steps of a call that has been sent, the flush timer, the flushes
and the exit go on (weak); whether calls arrive is not fair. `CatalogCache`: the
poll timer fires and boot is retried (weak); the steps of a refresh are strong,
as any of them may fail and a later refresh comes to it again. `McpClient`: the
steps of `loadTools` and the timer of each call (weak); nothing is asked of the server.
`ChatPage`, for `finding_chat` only: requests are answered, streams end or break, and
an abort is seen; the user is free.

## 4. Proofs

All theorems hold for any number of runs, executions, requests, calls, users and
so on. Every safety property a passing run checks is a theorem; what is left to TLC is liveness
(the end of this section).

The run of an agent:

- `RunLifecycle_proofs`. `TypeInv` (types, and that whoever has left idle has a
  run) gives `TypeCorrect`. `MarkerInv` adds `Control`, which ties the flags
  `started` and `done` to the point the execution has reached, and `StartedInLog`;
  it gives `NoOrphanedDone` with all faults and, when the database does not fail,
  `MarkersImplemented`. `SuccessInv` says that an execution asks for a
  finalizing status only after its `run-done(success)` is in the log, so that the
  status, whoever overwrote it last, implies the marker (`FinalizingIsSuccess`).
  `SettleInv` gives `SettledAlways`: a run that is not in a terminal status is
  still driven by one of its executions, one that is `finalized` by an execution that is about to
  complete it (the table lets nobody fail a `finalized` run), and nobody writes a
  status outside of those the code reaches.
  `TokensRevoked`, `LockAlwaysReleased` and `SettledAlways` assume that the
  database does not fail, as a failing revocation, release or last write is not
  retried by the code.
- `RunMarkers_proofs`: `MarkersBracketed`, from the inductive `MarkersInv`. With
  the refinement this holds of the logs of `RunLifecycle`.
- `EventLog_proofs`: `RowsNeverChange` for writers of both kinds, from the
  uniqueness of what is in the index. For v1 writers `V1Inv` says that the seqs
  are dense, that only the holder of the lock has numbered or inserted, and that
  its number is the next one; it gives `SeqsNeverCollide` and `LogImplemented`.
  `LogInv` has the types, for `RouterTypesCorrect`.
- `EventStream_proofs`, about `EventStream`, `ChatPage` and `MCReaders`.
  `DeliveryGapless`: the inductive invariant aligns four
  counters, for both numberings: what was delivered is 1 .. `last`, the frames under way continue it,
  and the route's cursor is behind the last frame. `StreamInv` adds what is
  known at each point of the loop of the route: when it stands before its last drain, the run
  is over and the log does not grow any more; a body that ends as complete was
  sent to its end. This is the order of reads and writes that `ReturnedAlwaysComplete`
  rests on. `ReadersTogether` carries these over to the
  composition the run explores.
  `PageInv`: a send that is read owns the controller, hence
  `PageReadsOneStream`. `ChatInv`, for `PageAlwaysSound`, adds what a page that stayed calm
  shows (`Shown`): no message twice, the loaded rows first, each prompt that was not refused, its answer
  right behind it, with the pieces read for its send; and that what is saved or loaded
  belongs to sends nothing is read for any more (`RowsSettled`). The page filters its
  messages; that a filter keeps their order is shown by the ranks of the kept positions
  (`RankOrder`, `RankOnto`) instead of an induction. With it and
  `ReturnedAlwaysComplete`, `ReadersAlwaysSound` is all of `ReadersSound`.
- `RunCreation_proofs`: `AtMostOneRun`, `AnswersMatch` and `OnceImplemented`. The
  invariant needs that the lock of a key has one holder (`LockInv`), that a
  request about to insert has an empty window (`FreeInv`), and that `created` is
  not before `now` (`TimeInv`); then a new row is more than a window younger than
  every other row of its key, those that commit while it waits included.

The router, in `MCRouter_proofs` (`LlmRouter`, `CatalogCache` and their composition) and
`Services_proofs` (`TokenCache`, `RateLimit`, `BudgetWindows`):

- `RecordsAlwaysSound` from `RecordsInv`, where a record is in exactly one place: queue and batch
  hold no call twice and none of each other's, and `usage` is the cost of the
  table; and `DrainInv`, which knows that after the last loop of `drain` the
  early records can only be in a batch whose flush is still waited for.
- `GateAlwaysCloses` from `GateInv`: an answer under way below the limit is as old
  as the overrun at least, and the entry it filled ends a TTL later.
  `RevocationsBite` goes the same way for tokens (`Vouched`).
- `SnapshotsSound` and `VersionNeverBack` from `CatalogInv`: all reads of one load see one moment,
  one refresh runs at a time, and between its comparison and its publication no version
  passes by.
- `WindowAlwaysHolds` from `Counted`: a call admitted in the window, less the
  skew of the clocks and the way of a script, is still in the sorted set.
- `BudgetAlwaysHolds`: every load and every cell of the cache is a `Snapshot` of
  the books of a moment at most `Way` before it was filled, of the window of that
  moment; `BooksMatch` ties the sums of the code to the charges they stand for.
- `RouterTypesCorrect`, `RouterPartsHold` and `LogInRouterHolds` are about the composition
  the run explores. There a part may be at rest while another moves, so its
  invariant is carried over its own steps and over those that leave it
  unchanged (`RouterPartsStep`).

The API and the packages, in `Services_proofs` (`AgentTask`, `AgentDefinition`,
`ProjectAgents`, `Members`, `Credentials`, `Stars`, `Listing`) and
`MCPlatform_proofs` (`AgentWorker`, `SkillInstall`, `McpClient`, `SandboxPool`,
`Dream`, and of the router `UsageMeter`, `TranslateRequest` and `TranslateStream`):

- `CredentialsAlwaysSound`: only the holder of the lock has counted, and its
  count is an upper bound until it inserts (revocations only lower it).
- `HistoryAlwaysSound`: the holder of the row's lock has read the row as it is,
  and a field that differs from the last version was changed by the older API.
- `AgentsCancelledForGood`: what each caller knows of the agent's status at each point
  (`CallerKnows`) and that the runs agree with the row (`RowsAgree`).
- `CurrentAlwaysLastSet`, `AlwaysAnOwner`, `StarsAlwaysCounted`: at most one
  transaction has written a current row; what a change of members has counted is still true
  when it writes unless the model marks it stale; the count of an entry differs
  from its rows by the toggles between their two statements.
- `RowsAlwaysOnce`: what was given is not behind the cursor, and what was there all
  the time is, or was given (`ListingInv`). That a page is the next rows in their order, each
  once, is shown by numbering them by rank. It assumes
  that no list is walked by exact times (`TRUE \notin Exactness`); the
  run `finding_tokens` shows that `EachRowOnce` fails without it.
- `SessionsAlwaysSound`, `InstalledAlwaysWhole`, `ToolServerSound`,
  `PoolAlwaysSound`, `FactsAlwaysKept`. Of the pool: an id is given once and has one
  holder, and a recycling's index still points at what it destroys unless calls
  have crossed (`IndexHolds`). Of a dream: a fact is in a memory and stays
  there, or an action still to come will write it (`Survives`); the filters of the parser keep the
  actions from touching each other's memories (`Apart`).
- `AlwaysChargedAsSent`: the buffer is the last, incomplete line of what was sent, and the
  counts are the largest of its complete lines, wherever the chunks were cut. The
  loop of `push` ends and leaves that, by induction over the lines of
  a chunk. That the counts of a stream grow together (`Cumulative`) is what
  the price needs, and for the protocol of OpenAI only.
- `RequestAlwaysSound`, for conversations of any length. The invariant `Ordered` says of a
  conversation that each message fits behind those before it, that all but the
  last are settled, and that the open calls are those of the last. A request is a
  map over the messages (`FlatMap...`), pieces an upstream takes may
  stand behind each other (`ConcatTakes`), and an assistant message together with
  the results behind it is such a piece (`AnsweredTakes`).
- `StreamAlwaysSound`, for streams of any length, whatever upstream sends. `View` is what a
  reader has made of the events so far: they are grammatical, so many blocks have begun, one
  of this kind is open, this was said in each kind, these blocks call tools. The invariant
  `AnswerInv` says that until the end the client has the view of the translator's own
  `nextIndex` and `open`, with all that was sent of reasoning and text, and that the fragments
  are gathered under the keys they were sent with. There is a lemma for each thing the translator
  writes (`StartBehind`, `CloseBehind`, `DeltaBehind`, `ViewTool`, `EndBehind`) that says how it changes a view;
  a step writes some of them behind each other, and a heartbeat changes no view. At the
  end the tool calls stand in the order of their keys, which exists (`OrderingExists`).
- `TranslationAlwaysSound` is both directions, in the specification the run explores.
- These need induction over sequences, and the induction theorems of the library take an
  operator. It is done by hand: what fails for some sequence fails for one of
  least length (`LeastExists`), and that one has a shorter front.
- `PartsBehave`: a behaviour of `MCPlatform` is one of each of its parts. With it, `AdmissionAlwaysHolds`,
  `ProjectsAlwaysSound`, `PackagesAlwaysSound` and `PlatformTypesCorrect` are about the specification the run explores.

The assumptions are those named in the modules: bounds are naturals, the sets of
users, calls and rows are finite, `None` is not a run, a limit is a number, and
the like. Where an invariant was more than the property it serves (`SettleInv`, `ChatInv`,
`Ordered`), TLC has checked it on a small instance before it was proved. Two proofs did not go through at first for a good reason:
in `AgentTask` and in `ProjectAgents` a `CASE` had two arms that
could both hold, which TLA+ leaves open and TLC decides for the first; both
are chains of `IF` now, in the order of the code.

Only model-checked is liveness (`RunSettles`, `RedeliveryUnblocks`, `AppendsEnd`, `IterationEnds`,
`CallsEnd`, `ShutdownEnds`, `RecordsSettle`, `BumpedIsSeen`), which is out of this prover's reach.

## 5. Not modelled, and the plan

Nothing of what the runs check and the prover can reach is left to prove. What the model could
be extended by next is the list below; a new safety property gets its theorem with its run.

Not modelled, for a reason:

- The user interface, the schemas of tables and contracts, console tables,
  presets, observability, command lines and scripts, which make up most of the lines of the
  repository: they render, validate, format or do I/O and keep no state whose
  order matters. This is why the map covers a small share of all lines and a large
  one of the control plane, the router and the worker.
- Functions of `RunService` nobody calls (`retry`, `setActiveStreamId`), and what the
  sweep does after one of its runs throws.
- `head_run_id`, which the API sets with `active_run_id` to the first run and
  which then never changes; `revokeForRun`, which ends the tokens of a
  concurrent execution of the run too; a run of an agent bound to a version
  without a row, as the older API makes them.
- Sealed credentials; `Retry-After`.
- Of conversations: creating, listing and naming them and the default project that a
  first chat makes, single statements after a read; two pages that save one
  conversation, of which the last replaces the other's rows.
- The gate and the lock of a dream, which have interfaces but no implementation;
  extraction, embedding and search.
- The HTTP client of MCP, one fetch per call; MCP servers of one name, of which the map of
  clients keeps the last; the stream registry, a wrapper of a library.
- Of the request to an upstream, the system prompt, the tools and the sampling
  parameters, copied field by field.
- The providers' HTTP calls to sandboxes, the SDK's request wrappers.
- Within what is modelled: timestamps that nothing compares,
  authentication and validation of requests, delays and
  abort signals of the SDK, the checkpoint service (the worker does not wire one).
