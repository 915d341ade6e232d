----------------------------- MODULE EventStream -----------------------------
(***************************************************************************)
(* One client that follows the events of one run: the execution that       *)
(* writes them (what RunLifecycle shows of it), the connections that       *)
(* GET .../runs/:runId/events serves one after the other by polling        *)
(* run_events (the web application's route), and the reconnecting iterator *)
(* of the SDK (packages/sdk/src/sse.ts, streamEvents).                     *)
(*                                                                         *)
(* The log only grows at its end (AppendOnlyLog); entry i has the seq      *)
(* i - 1 + firstSeq, where firstSeq is 1 with OPENRUSH_V1_EVENTS_ENABLED   *)
(* and 0 without, when there are no run-started and run-done events.       *)
(* Back-off delays and the abort signal of the caller are left out.        *)
(***************************************************************************)
EXTENDS Integers, Sequences

CONSTANTS
  MaxEvents,      \* bound: no chunk is logged behind this many events
  MaxReconnects,  \* length of DEFAULT_RECONNECT_DELAYS_MS
  Faults          \* a subset of FaultKinds

(* "agent": the agent fails; "cancel": a cancel request; "reset": the      *)
(* connection breaks with an error; "proxy": it is closed as if complete;  *)
(* "db": a query of the route fails.                                       *)
FaultKinds == {"agent", "cancel", "reset", "proxy", "db"}

ASSUME BoundsAssumption == MaxEvents \in Nat /\ MaxReconnects \in Nat
ASSUME FaultsAssumption == Faults \subseteq FaultKinds

VARIABLES
  firstSeq, \* 1 with the v1 events flag, 0 without
  seen,     \* history: the faults that spoil a complete answer, as they came
  log,      \* run_events of the run, in seq order
  ended,    \* isTerminal(runs.status)
  writer,   \* the execution: what it does next, and the transition it makes
  server,   \* the route's side of the connection
  wire,     \* the frames under way to the client, and how the body ends
  client,   \* the state of streamEvents
  got       \* the ids handed to the caller of streamEvents

runVars == <<firstSeq, log, ended, writer>>
vars == <<firstSeq, seen, log, ended, writer, server, wire, client, got>>

Types == {"started", "chunk", "done"}

Ids == 0 .. MaxEvents + 2

TypeOK ==
  /\ firstSeq \in {0, 1}
  /\ seen \subseteq {"cancel", "proxy", "db"}
  /\ log \in Seq(Types)
  /\ ended \in BOOLEAN
  /\ writer \in [ pc: {"check", "write", "open", "stream", "over"},
                  to: {"running", "finalizing", "completed", "failed"} ]
  /\ server \in [ pc: {"closed", "replay", "tick", "status", "last"},
                  cur: Ids, terminal: BOOLEAN ]
  /\ wire \in [frames: Seq(Ids), end: {"none", "eof", "error"}]
  /\ client \in [ pc: {"connect", "read", "returned", "threw"}, last: Ids, from: Ids,
                  yielded: Nat, sawRunDone: BOOLEAN, attempt: 0 .. MaxReconnects + 1 ]
  /\ got \in Seq(Ids)

Init ==
  /\ firstSeq \in {0, 1}
  /\ seen = {}
  /\ log = <<>>
  /\ ended = FALSE
  /\ writer = [pc |-> "check", to |-> "running"]
  /\ server = [pc |-> "closed", cur |-> 0, terminal |-> FALSE]
  /\ wire = [frames |-> <<>>, end |-> "none"]
  /\ client = [pc |-> "connect", last |-> 0, from |-> 0,
               yielded |-> 0, sawRunDone |-> FALSE, attempt |-> 0]
  /\ got = <<>>

(* appendAssignSeq or append, and nothing for a marker without the flag. *)
Logs(type) == log' = IF type # "chunk" /\ firstSeq = 0 THEN log ELSE Append(log, type)

-----------------------------------------------------------------------------
(* The execution.  Its transitions are a check and a write, as in          *)
(* RunLifecycle; the statuses in between are told apart only by whether    *)
(* they are terminal.  From a terminal status the table allows nothing it  *)
(* asks for, so a failing check is the end of it.                          *)

WriterCheck ==
  /\ writer.pc = "check"
  /\ writer' = [writer EXCEPT !.pc = IF ended THEN "over" ELSE "write"]
  /\ UNCHANGED <<firstSeq, seen, log, ended, server, wire, client, got>>

(* The UPDATE is unconditional: it may take back a cancel request. *)
WriterWrite ==
  /\ writer.pc = "write"
  /\ ended' = (writer.to \in {"completed", "failed"})
  /\ writer' = CASE writer.to = "running" -> [writer EXCEPT !.pc = "open"]
                 [] writer.to = "finalizing" -> [pc |-> "check", to |-> "completed"]
                 [] OTHER -> [writer EXCEPT !.pc = "over"]
  /\ UNCHANGED <<firstSeq, seen, log, server, wire, client, got>>

(* emitRunStarted. *)
WriterOpens ==
  /\ writer.pc = "open"
  /\ Logs("started")
  /\ writer' = [writer EXCEPT !.pc = "stream"]
  /\ UNCHANGED <<firstSeq, seen, ended, server, wire, client, got>>

WriterChunk ==
  /\ writer.pc = "stream"
  /\ Len(log) < MaxEvents
  /\ Logs("chunk")
  /\ UNCHANGED <<firstSeq, seen, ended, writer, server, wire, client, got>>

(* Mutant: run-done is logged after the terminal status. *)
WriterDoneLate ==
  \/ /\ writer.pc = "stream"
     /\ writer' = [pc |-> "check", to |-> "finalizing"]
     /\ UNCHANGED <<firstSeq, seen, log, ended, server, wire, client, got>>
  \/ /\ writer.pc = "over" /\ log # <<>> /\ log[Len(log)] # "done"
     /\ Logs("done")
     /\ UNCHANGED <<firstSeq, seen, ended, writer, server, wire, client, got>>

(* run-done comes before the transitions that end the run: with success    *)
(* before finalize, with failed before the catch block's transition.       *)
WriterDone ==
  /\ writer.pc = "stream"
  /\ Logs("done")
  /\ \/ writer' = [pc |-> "check", to |-> "finalizing"]
     \/ "agent" \in Faults /\ writer' = [pc |-> "check", to |-> "failed"]
  /\ UNCHANGED <<firstSeq, seen, ended, server, wire, client, got>>

(* The sandbox or the agent fails before the stream: no marker is logged. *)
WriterFailsEarly ==
  /\ writer.pc = "open" /\ "agent" \in Faults
  /\ writer' = [pc |-> "check", to |-> "failed"]
  /\ UNCHANGED <<firstSeq, seen, log, ended, server, wire, client, got>>

(* A cancel request marks the run failed while the execution goes on. *)
Cancel ==
  /\ "cancel" \in Faults /\ ~ ended
  /\ ended' = TRUE
  /\ seen' = seen \cup {"cancel"}
  /\ UNCHANGED <<firstSeq, log, writer, server, wire, client, got>>

-----------------------------------------------------------------------------
(* The route. *)

(* The client's request: the route reads the status of the run before it   *)
(* looks at any event.  Last-Event-ID is the id the client saw last; the   *)
(* request without one (last = 0) starts after seq 0.                      *)
Connect ==
  /\ client.pc = "connect"
  /\ server' = [pc |-> "replay", cur |-> client.last, terminal |-> ended]
  /\ wire' = [frames |-> <<>>, end |-> "none"]
  /\ client' = [client EXCEPT !.pc = "read", !.from = client.last,
                              !.yielded = 0, !.sawRunDone = FALSE]
  /\ UNCHANGED <<runVars, seen, got>>

(* The number of events at or below the route's cursor, and the frames of  *)
(* the others, as getEvents(runId, currentSeq) finds them.                 *)
Passed == server.cur + 1 - firstSeq

UnsentFrames == [k \in 1 .. Len(log) - Passed |-> server.cur + k]

(* drain: every unsent event goes out and the cursor moves to the last. *)
Drained(next) ==
  /\ wire' = [wire EXCEPT !.frames = @ \o UnsentFrames,
                          !.end = IF next = "closed" THEN "eof" ELSE @]
  /\ server' = [server EXCEPT !.pc = next,
                              !.cur = @ + Len(UnsentFrames)]
  /\ UNCHANGED <<runVars, seen, client, got>>

(* cleanup() in the middle: the body ends with what was sent. *)
Closed ==
  /\ wire' = [wire EXCEPT !.end = "eof"]
  /\ server' = [server EXCEPT !.pc = "closed"]
  /\ UNCHANGED <<runVars, client, got>>

(* The initial replay; a run that was already over is then complete. *)
Replay ==
  /\ server.pc = "replay"
  /\ Drained(IF server.terminal THEN "closed" ELSE "tick")

(* A tick of the poll timer: drain, read the status, and drain once more   *)
(* if the run is over.                                                     *)
Tick == server.pc = "tick" /\ Drained("status")

ReadStatus ==
  /\ server.pc = "status"
  /\ server' = [server EXCEPT !.pc = IF ended THEN "last" ELSE "tick"]
  /\ UNCHANGED <<runVars, seen, wire, client, got>>

LastDrain == server.pc = "last" /\ Drained("closed")

(* A query of the route throws: the body ends without an error. *)
QueryFails ==
  "db" \in Faults /\ server.pc # "closed" /\ Closed /\ seen' = seen \cup {"db"}

(* The connection is lost with any part of what is under way on it, and    *)
(* the client sees an error or a complete body.                            *)
Disconnect ==
  /\ client.pc = "read" /\ wire.end # "error"
  /\ \E k \in 0 .. Len(wire.frames), end \in {"error", "eof"} :
       /\ (IF end = "error" THEN "reset" ELSE "proxy") \in Faults
       /\ wire' = [frames |-> SubSeq(wire.frames, 1, k), end |-> end]
       /\ seen' = IF end = "eof" THEN seen \cup {"proxy"} ELSE seen
  /\ server' = [server EXCEPT !.pc = "closed"]
  /\ UNCHANGED <<runVars, client, got>>

-----------------------------------------------------------------------------
(* The client. *)

(* The type of the event with a seq. *)
TypeAt(id) == log[id + 1 - firstSeq]

(* Mutant: the iterator forgets to remember the id. *)
ReceiveForgets ==
  LET id == Head(wire.frames) IN
  /\ client.pc = "read" /\ wire.frames # <<>>
  /\ wire' = [wire EXCEPT !.frames = Tail(@)]
  /\ IF id > client.from
     THEN /\ got' = Append(got, id)
          /\ client' = [client EXCEPT !.yielded = @ + 1,
                                      !.sawRunDone = @ \/ TypeAt(id) = "done"]
     ELSE UNCHANGED <<client, got>>
  /\ UNCHANGED <<runVars, seen, server>>

(* A frame: ids at or below the cursor of this connection are skipped. *)
Receive ==
  LET id == Head(wire.frames) IN
  /\ client.pc = "read" /\ wire.frames # <<>>
  /\ wire' = [wire EXCEPT !.frames = Tail(@)]
  /\ IF id > client.from
     THEN /\ got' = Append(got, id)
          /\ client' = [client EXCEPT !.last = id, !.yielded = @ + 1,
                                      !.sawRunDone = @ \/ TypeAt(id) = "done"]
     ELSE UNCHANGED <<client, got>>
  /\ UNCHANGED <<runVars, seen, server>>

(* Mutants: one reconnection too many; a reconnection that is not counted. *)
ReconnectOnceMore(giveUp) ==
  client' = [client EXCEPT !.attempt = @ + 1,
                           !.pc = IF client.attempt <= MaxReconnects
                                  THEN "connect" ELSE giveUp]

ReconnectUncounted(giveUp) == client' = [client EXCEPT !.pc = "connect"]

(* onReconnect with its default: the attempts are counted over the whole   *)
(* iteration, and giving up returns after an EOF and throws after an error. *)
Reconnect(giveUp) ==
  client' = [client EXCEPT !.attempt = @ + 1,
                           !.pc = IF client.attempt < MaxReconnects
                                  THEN "connect" ELSE giveUp]

(* The body is complete: after run-done, or if this connection brought     *)
(* nothing, the iteration ends.                                            *)
BodyEnds ==
  /\ client.pc = "read" /\ wire.frames = <<>> /\ wire.end = "eof"
  /\ IF client.sawRunDone \/ client.yielded = 0
     THEN client' = [client EXCEPT !.pc = "returned"]
     ELSE Reconnect("returned")
  /\ UNCHANGED <<runVars, seen, server, wire, got>>

BodyBreaks ==
  /\ client.pc = "read" /\ wire.frames = <<>> /\ wire.end = "error"
  /\ Reconnect("threw")
  /\ UNCHANGED <<runVars, seen, server, wire, got>>

(* The request itself fails: no connection, or the route answers with an   *)
(* error because a query failed.                                           *)
ConnectFails ==
  /\ client.pc = "connect" /\ {"reset", "db"} \cap Faults # {}
  /\ Reconnect("threw")
  /\ UNCHANGED <<runVars, seen, server, wire, got>>

-----------------------------------------------------------------------------

WriterStep == WriterCheck \/ WriterWrite \/ WriterOpens \/ WriterChunk \/ WriterDone \/ WriterFailsEarly

ServerStep == Replay \/ Tick \/ ReadStatus \/ LastDrain

ClientStep == Connect \/ Receive \/ BodyEnds \/ BodyBreaks

Next ==
  \/ WriterStep \/ ServerStep \/ ClientStep
  \/ Cancel \/ QueryFails \/ Disconnect \/ ConnectFails

Spec == Init /\ [][Next]_vars

(* The execution ends (WF on the steps that lead there), the poll timer    *)
(* fires, and the client goes on reading what it asked for.                *)
Fairness ==
  /\ WF_vars(WriterCheck \/ WriterWrite \/ WriterOpens \/ WriterDone \/ WriterFailsEarly)
  /\ WF_vars(ServerStep) /\ WF_vars(ClientStep)

FairSpec == Spec /\ Fairness

-----------------------------------------------------------------------------
(* Properties. *)

(* The caller gets the events behind its first cursor once and in order,   *)
(* over any number of reconnections and whatever frames a lost connection  *)
(* swallowed (Last-Event-ID on one side, seq > currentSeq on the other).   *)
(* The first cursor is 0: without the flag, event 0 is never delivered.    *)
GaplessDelivery == \A i \in DOMAIN got : got[i] = i

(* An iteration that returns has seen the whole run: the run is over and   *)
(* all its events were delivered.  It holds with the v1 flag, as long as   *)
(* nobody cancels the run and a lost connection or a failed query of the   *)
(* route shows as an error; the order of the route's reads                 *)
(* (status, events, and events again after a terminal status) and of the   *)
(* execution's writes (run-done, then the status) are both needed.         *)
ReturnedIsComplete ==
  client.pc = "returned" /\ firstSeq = 1 /\ seen = {} => ended /\ Len(got) = Len(log)

(* Every iteration comes to an end, however the connections fail: an       *)
(* attempt that failed counts for good.                                    *)
IterationEnds == <>(client.pc \in {"returned", "threw"})

-----------------------------------------------------------------------------
(* What the documents and comments say, and the code does not keep.        *)

(* specs/managed-agents-api.md: when the run is terminal, the remaining    *)
(* events are replayed before the connection is closed.  Read when the     *)
(* execution has ended as well.                                            *)
TailDelivered ==
  client.pc = "returned" /\ writer.pc = "over" => Len(got) = Len(log)
=============================================================================
