-------------------------- MODULE EventStream_proofs --------------------------
(***************************************************************************)
(* Whatever happens to its connections, a client receives the events of a  *)
(* run in order, each once and without gaps, and an iteration that returns *)
(* has seen them all.  The last parts are about the other reader of a run, *)
(* the page of a chat, which shows who said what, in order, and about the  *)
(* two of them in MCReaders.                                               *)
(***************************************************************************)
EXTENDS MCReaders, SequenceTheorems, FiniteSetTheorems, TLAPS

(* The parts of the state that delivery depends on. *)
Shape ==
  /\ log \in Seq(Types)
  /\ server \in [pc: {"closed", "replay", "tick", "status", "last"}, cur: Nat, terminal: BOOLEAN]
  /\ wire \in [frames: Seq(Nat), end: {"none", "eof", "error"}]
  /\ client \in [pc: {"connect", "read", "returned", "threw"}, last: Nat, from: Nat,
                 yielded: Nat, sawRunDone: BOOLEAN, attempt: Nat]
  /\ got \in Seq(Nat)
  /\ ended \in BOOLEAN
  /\ firstSeq \in {0, 1}

(* What was delivered is 1, 2, ..., client.last; the frames under way      *)
(* continue it without a hole; and the cursor of a route that is still     *)
(* serving is behind the last of them.                                     *)
Aligned ==
  /\ Len(got) = client.last
  /\ \A i \in 1 .. client.last : got[i] = i
  /\ \A k \in 1 .. Len(wire.frames) : wire.frames[k] = client.last + k
  /\ server.pc # "closed" => server.cur = client.last + Len(wire.frames)
  /\ client.from <= client.last

DeliveryInv == Shape /\ Aligned

LEMMA DeliveryInit == Init => DeliveryInv
<1> SUFFICES ASSUME Init PROVE DeliveryInv
  OBVIOUS
<1>1. Shape
  <2>1. <<>> \in Seq(Nat) /\ <<>> \in Seq(Types)
    OBVIOUS
  <2> QED
    BY <2>1 DEF Init, Shape
<1>2. Aligned
  BY DEF Init, Aligned
<1> QED
  BY <1>1, <1>2 DEF DeliveryInv

(* The frames of a drain are numbered from the cursor on. *)
LEMMA Unsent ==
  ASSUME Shape
  PROVE  /\ UnsentFrames \in Seq(Nat)
         /\ \A k \in 1 .. Len(UnsentFrames) : UnsentFrames[k] = server.cur + k
<1> DEFINE n == Len(log) - Passed
<1>1. n \in Int /\ server.cur \in Nat
  BY DEF Shape, Passed
<1> HIDE DEF n
<1>2. UnsentFrames = [k \in 1 .. n |-> server.cur + k]
  BY DEF UnsentFrames, n
<1>3. CASE n \in Nat
  <2>1. UnsentFrames \in [1 .. n -> Nat]
    BY <1>1, <1>2
  <2>2. UnsentFrames \in Seq(Nat) /\ Len(UnsentFrames) = n
    BY <1>3, <2>1
  <2> QED
    BY <1>2, <2>2
<1>4. CASE n \notin Nat
  <2>1. 1 .. n = 1 .. 0
    BY <1>1, <1>4
  <2>2. UnsentFrames \in [1 .. 0 -> Nat]
    BY <1>2, <2>1
  <2>3. UnsentFrames \in Seq(Nat) /\ Len(UnsentFrames) = 0
    BY <2>2
  <2> QED
    BY <2>3
<1> QED
  BY <1>3, <1>4

LEMMA DrainStep ==
  ASSUME DeliveryInv, server.pc # "closed",
         NEW next \in {"closed", "tick", "status"}, Drained(next)
  PROVE  DeliveryInv'
<1> DEFINE new == UnsentFrames
<1> DEFINE old == wire.frames
<1>1. /\ new \in Seq(Nat) /\ \A k \in 1 .. Len(new) : new[k] = server.cur + k
  BY Unsent DEF DeliveryInv
<1>2. old \in Seq(Nat) /\ server.cur \in Nat /\ client.last \in Nat
  BY DEF DeliveryInv, Shape
<1>3. wire'.frames = old \o new /\ wire'.end \in {"none", "eof", "error"}
  BY DEF Drained, DeliveryInv, Shape
<1>4. server' \in [pc: {"closed", "tick", "status"}, cur: {server.cur + Len(new)}, terminal: BOOLEAN]
  BY DEF Drained, DeliveryInv, Shape
<1>5. UNCHANGED <<firstSeq, log, ended, client, got>>
  BY DEF Drained, runVars
<1>6. wire' = [frames |-> old \o new, end |-> wire'.end]
  BY DEF Drained, DeliveryInv, Shape
<1>7. server.cur = client.last + Len(old) /\ \A k \in 1 .. Len(old) : old[k] = client.last + k
  BY DEF DeliveryInv, Aligned
<1> HIDE DEF new, old
<1>8. /\ old \o new \in Seq(Nat) /\ Len(old \o new) = Len(old) + Len(new)
      /\ \A k \in 1 .. Len(old) + Len(new) :
           (old \o new)[k] = IF k <= Len(old) THEN old[k] ELSE new[k - Len(old)]
      /\ Len(old) \in Nat /\ Len(new) \in Nat
  BY <1>1, <1>2, ConcatProperties, LenProperties
<1>9. \A k \in 1 .. Len(old) + Len(new) : (old \o new)[k] = client.last + k
  <2> SUFFICES ASSUME NEW k \in 1 .. Len(old) + Len(new) PROVE (old \o new)[k] = client.last + k
    OBVIOUS
  <2>1. CASE k <= Len(old)
    BY <1>7, <1>8, <2>1
  <2>2. CASE ~ k <= Len(old)
    <3>1. k - Len(old) \in 1 .. Len(new)
      BY <1>8, <2>2
    <3>2. (old \o new)[k] = server.cur + (k - Len(old))
      BY <1>1, <1>8, <2>2, <3>1
    <3> QED
      BY <1>2, <1>7, <1>8, <3>2
  <2> QED
    BY <2>1, <2>2
<1>10. Shape'
  <2>1. server'.cur \in Nat
    BY <1>2, <1>4, <1>8
  <2> QED
    BY <1>3, <1>4, <1>5, <1>6, <1>8, <2>1 DEF DeliveryInv, Shape
<1>11. Aligned'
  <2>1. Len(wire'.frames) = Len(old) + Len(new) /\ server'.cur = client.last + (Len(old) + Len(new))
    BY <1>2, <1>3, <1>4, <1>7, <1>8
  <2>2. \A k \in 1 .. Len(wire'.frames) : wire'.frames[k] = client'.last + k
    BY <1>3, <1>5, <1>9, <2>1
  <2> QED
    BY <1>5, <2>1, <2>2 DEF DeliveryInv, Aligned
<1> QED
  BY <1>10, <1>11 DEF DeliveryInv

(* A frame that arrives is the next one. *)
LEMMA ReceiveStep ==
  ASSUME DeliveryInv, Receive
  PROVE  DeliveryInv'
<1> DEFINE id == Head(wire.frames)
<1>1. /\ wire.frames \in Seq(Nat) /\ wire.frames # <<>> /\ client.last \in Nat /\ client.from \in Nat
      /\ \A k \in 1 .. Len(wire.frames) : wire.frames[k] = client.last + k
      /\ client.from <= client.last
  BY DEF DeliveryInv, Shape, Aligned, Receive
<1>2. Len(wire.frames) \in Nat \ {0}
  BY <1>1
<1>3. id = client.last + 1
  BY <1>1, <1>2
<1>4. /\ Tail(wire.frames) \in Seq(Nat) /\ Len(Tail(wire.frames)) = Len(wire.frames) - 1
      /\ \A k \in 1 .. Len(Tail(wire.frames)) : Tail(wire.frames)[k] = wire.frames[k + 1]
  BY <1>1, HeadTailProperties
<1> HIDE DEF id
<1>5. /\ wire' = [wire EXCEPT !.frames = Tail(wire.frames)] /\ got' = Append(got, id)
      /\ client' = [client EXCEPT !.last = id, !.yielded = @ + 1,
                                  !.sawRunDone = @ \/ TypeAt(id) = "done"]
      /\ UNCHANGED <<firstSeq, log, ended, server>>
  <2>1. id > client.from
    BY <1>1, <1>3
  <2> QED
    BY <2>1 DEF Receive, runVars, id
<1>6. Shape'
  <2>1. id \in Nat /\ got' \in Seq(Nat)
    BY <1>1, <1>3, <1>5 DEF DeliveryInv, Shape
  <2>2. wire' \in [frames: Seq(Nat), end: {"none", "eof", "error"}]
    BY <1>4, <1>5 DEF DeliveryInv, Shape
  <2>3. client' \in [pc: {"connect", "read", "returned", "threw"}, last: Nat, from: Nat,
                     yielded: Nat, sawRunDone: BOOLEAN, attempt: Nat]
    <3> DEFINE saw == client.sawRunDone \/ TypeAt(id) = "done"
    <3>1. saw \in BOOLEAN
      BY DEF DeliveryInv, Shape
    <3>2. client' = [client EXCEPT !.last = id, !.yielded = @ + 1, !.sawRunDone = saw]
      BY <1>5
    <3>3. /\ client \in [pc: {"connect", "read", "returned", "threw"}, last: Nat, from: Nat,
                         yielded: Nat, sawRunDone: BOOLEAN, attempt: Nat]
          /\ client.yielded + 1 \in Nat
      BY DEF DeliveryInv, Shape
    <3> HIDE DEF saw
    <3> QED
      BY <2>1, <3>1, <3>2, <3>3
  <2> QED
    BY <1>5, <2>1, <2>2, <2>3 DEF DeliveryInv, Shape
<1>7. Aligned'
  <2>1. client'.last = client.last + 1 /\ client'.from = client.from
    BY <1>3, <1>5 DEF DeliveryInv, Shape
  <2>2. wire'.frames = Tail(wire.frames)
    BY <1>5 DEF DeliveryInv, Shape
  <2>3. Len(got') = client.last + 1 /\ \A i \in 1 .. client.last + 1 : got'[i] = i
    <3>1. /\ got \in Seq(Nat) /\ Len(got) = client.last /\ \A i \in 1 .. client.last : got[i] = i
          /\ id \in Nat
      BY <1>1, <1>3 DEF DeliveryInv, Shape, Aligned
    <3>2. /\ Len(Append(got, id)) = client.last + 1
          /\ \A i \in 1 .. client.last : Append(got, id)[i] = i
          /\ Append(got, id)[client.last + 1] = client.last + 1
      BY <1>3, <3>1, AppendProperties
    <3> QED
      BY <1>1, <1>5, <3>2
  <2>4. \A k \in 1 .. Len(wire'.frames) : wire'.frames[k] = client'.last + k
    <3> SUFFICES ASSUME NEW k \in 1 .. Len(Tail(wire.frames))
                 PROVE  Tail(wire.frames)[k] = client.last + 1 + k
      BY <2>1, <2>2
    <3>1. k + 1 \in 1 .. Len(wire.frames) /\ k \in Nat
      BY <1>2, <1>4
    <3> QED
      BY <1>1, <1>4, <3>1
  <2>5. server'.pc # "closed" => server'.cur = client'.last + Len(wire'.frames)
    <3>1. server.pc # "closed" => server.cur = client.last + Len(wire.frames)
      BY DEF DeliveryInv, Aligned
    <3>2. client'.last + Len(wire'.frames) = client.last + Len(wire.frames)
      BY <1>1, <1>2, <1>4, <2>1, <2>2
    <3> QED
      BY <1>5, <3>1, <3>2
  <2> QED
    BY <1>1, <2>1, <2>3, <2>4, <2>5 DEF Aligned
<1> QED
  BY <1>6, <1>7 DEF DeliveryInv

(* A connection that is lost cuts the frames off, but leaves no hole. *)
LEMMA DisconnectStep ==
  ASSUME DeliveryInv, Disconnect
  PROVE  DeliveryInv'
<1>1. PICK k \in 0 .. Len(wire.frames), end \in {"error", "eof"} :
        wire' = [frames |-> SubSeq(wire.frames, 1, k), end |-> end]
  BY DEF Disconnect
<1>2. /\ wire.frames \in Seq(Nat) /\ Len(wire.frames) \in Nat
      /\ \A i \in 1 .. Len(wire.frames) : wire.frames[i] = client.last + i
  BY DEF DeliveryInv, Shape, Aligned
<1>3. /\ SubSeq(wire.frames, 1, k) \in Seq(Nat) /\ Len(SubSeq(wire.frames, 1, k)) = k
      /\ \A i \in 1 .. k : SubSeq(wire.frames, 1, k)[i] = wire.frames[i]
  BY <1>2
<1>4. /\ server' = [server EXCEPT !.pc = "closed"]
      /\ UNCHANGED <<firstSeq, log, ended, client, got>>
  BY DEF Disconnect, runVars
<1>5. Shape'
  BY <1>1, <1>3, <1>4 DEF DeliveryInv, Shape
<1>6. Aligned'
  BY <1>1, <1>2, <1>3, <1>4 DEF DeliveryInv, Shape, Aligned
<1> QED
  BY <1>5, <1>6 DEF DeliveryInv

LEMMA DeliveryStep == DeliveryInv /\ [Next]_vars => DeliveryInv'
<1> SUFFICES ASSUME DeliveryInv, [Next]_vars PROVE DeliveryInv'
  OBVIOUS
<1>1. CASE WriterStep \/ Cancel
  <2>1. UNCHANGED <<firstSeq, server, wire, client, got>>
    BY <1>1 DEF WriterStep, Cancel, WriterCheck, WriterWrite, WriterOpens, WriterChunk,
                WriterDone, WriterFailsEarly
  <2>2. ended' \in BOOLEAN
    <3>1. CASE WriterWrite
      <4> DEFINE over == writer.to \in {"completed", "failed"}
      <4>1. over \in BOOLEAN
        OBVIOUS
      <4>2. ended' = over
        BY <3>1 DEF WriterWrite
      <4> QED
        BY <4>1, <4>2
    <3>2. CASE Cancel
      BY <3>2 DEF Cancel
    <3>3. CASE ~ WriterWrite /\ ~ Cancel
      <4>1. ended' = ended
        BY <1>1, <3>3 DEF WriterStep, WriterCheck, WriterOpens, WriterChunk, WriterDone, WriterFailsEarly
      <4> QED
        BY <4>1 DEF DeliveryInv, Shape
    <3> QED
      BY <3>1, <3>2, <3>3
  <2>3. ASSUME NEW type \in Types, Logs(type) PROVE log' \in Seq(Types)
    <3>1. Append(log, type) \in Seq(Types)
      BY AppendProperties DEF DeliveryInv, Shape
    <3> QED
      BY <2>3, <3>1 DEF Logs, DeliveryInv, Shape
  <2>4. log' \in Seq(Types)
    <3>1. CASE WriterOpens \/ WriterChunk \/ WriterDone
      BY <2>3, <3>1 DEF WriterOpens, WriterChunk, WriterDone, Types
    <3>2. CASE ~ (WriterOpens \/ WriterChunk \/ WriterDone)
      <4>1. log' = log
        BY <1>1, <3>2 DEF WriterStep, Cancel, WriterCheck, WriterWrite, WriterFailsEarly
      <4> QED
        BY <4>1 DEF DeliveryInv, Shape
    <3> QED
      BY <3>1, <3>2
  <2> QED
    BY <2>1, <2>2, <2>4 DEF DeliveryInv, Shape, Aligned
<1>2. CASE Replay \/ Tick \/ LastDrain
  <2>1. PICK next \in {"closed", "tick", "status"} : Drained(next)
    BY <1>2 DEF Replay, Tick, LastDrain
  <2>2. server.pc # "closed"
    BY <1>2 DEF Replay, Tick, LastDrain
  <2> QED
    BY <2>1, <2>2, DrainStep
<1>3. CASE ReadStatus
  BY <1>3 DEF ReadStatus, runVars, DeliveryInv, Shape, Aligned
<1>4. CASE QueryFails
  BY <1>4 DEF QueryFails, Closed, runVars, DeliveryInv, Shape, Aligned
<1>5. CASE Disconnect
  BY <1>5, DisconnectStep
<1>6. CASE Connect
  <2>1. <<>> \in Seq(Nat) /\ Len(<<>>) = 0
    OBVIOUS
  <2>2. Shape'
    BY <1>6, <2>1 DEF Connect, runVars, DeliveryInv, Shape
  <2>3. /\ client'.last = client.last /\ client'.from = client.last /\ client.last \in Nat
        /\ wire'.frames = <<>> /\ server'.cur = client.last /\ got' = got
    BY <1>6 DEF Connect, DeliveryInv, Shape
  <2>4. Aligned'
    BY <2>1, <2>3 DEF DeliveryInv, Aligned
  <2> QED
    BY <2>2, <2>4 DEF DeliveryInv
<1>7. CASE Receive
  BY <1>7, ReceiveStep
<1>8. CASE BodyEnds \/ BodyBreaks \/ ConnectFails
  <2> DEFINE Same == [pc: {"connect", "read", "returned", "threw"}, last: {client.last},
                     from: {client.from}, yielded: Nat, sawRunDone: BOOLEAN, attempt: Nat]
  <2>1. /\ client' \in Same
        /\ UNCHANGED <<firstSeq, log, ended, server, wire, got>>
    <3>1. ASSUME NEW giveUp \in {"returned", "threw"}, Reconnect(giveUp) PROVE client' \in Same
      <4> DEFINE pc == IF client.attempt < MaxReconnects THEN "connect" ELSE giveUp
      <4>1. client \in Same /\ client.attempt + 1 \in Nat /\ pc \in {"connect", "returned", "threw"}
        BY <3>1 DEF DeliveryInv, Shape
      <4>2. client' = [client EXCEPT !.attempt = client.attempt + 1, !.pc = pc]
        BY <3>1 DEF Reconnect
      <4> HIDE DEF pc
      <4> QED
        BY <4>1, <4>2
    <3>2. [client EXCEPT !.pc = "returned"] \in Same
      BY DEF DeliveryInv, Shape
    <3>3. CASE BodyEnds
      BY <3>1, <3>2, <3>3 DEF BodyEnds, runVars
    <3>4. CASE BodyBreaks \/ ConnectFails
      BY <3>1, <3>4 DEF BodyBreaks, ConnectFails, runVars
    <3> QED
      BY <1>8, <3>3, <3>4
  <2> QED
    BY <2>1 DEF DeliveryInv, Shape, Aligned
<1>9. CASE UNCHANGED vars
  BY <1>9 DEF vars, DeliveryInv, Shape, Aligned
<1> QED
  BY <1>1, <1>2, <1>3, <1>4, <1>5, <1>6, <1>7, <1>8, <1>9 DEF Next, ServerStep, ClientStep

(* The ids 1, 2, 3, ..., each once, over any number of connections, with   *)
(* every fault and with the v1 flag or without it.                         *)
THEOREM DeliveryGapless == Spec => []GaplessDelivery
<1>1. DeliveryInv => GaplessDelivery
  BY DEF DeliveryInv, Shape, Aligned, GaplessDelivery
<1> QED
  BY <1>1, DeliveryInit, DeliveryStep, PTL DEF Spec

-----------------------------------------------------------------------------
(* How far a client can get: the log has room for the chunks and the two   *)
(* markers, nothing is sent that is not in the log, and the attempts are   *)
(* counted.                                                                *)

WriterTyped ==
  writer \in [ pc: {"check", "write", "open", "stream", "over"},
               to: {"running", "finalizing", "completed", "failed"} ]

LogBound ==
  /\ writer.pc = "open" \/ (writer.pc \in {"check", "write"} /\ writer.to = "running")
       => Len(log) = 0
  /\ writer.pc = "stream" => Len(log) <= MaxEvents + 1
  /\ Len(log) <= MaxEvents + 2

\* The last id that was received or is under way, and the last in the log.
Sent == client.last + Len(wire.frames)
Top == Len(log) - 1 + firstSeq

OnlySent == (Sent = 0 \/ Sent <= Top) /\ server.cur <= MaxEvents + 2

Counted ==
  /\ client.attempt <= MaxReconnects + 1
  /\ client.pc \in {"connect", "read"} => client.attempt <= MaxReconnects

SeenTyped == seen \subseteq {"cancel", "proxy", "db"}

(* With the v1 flag, and as long as nothing spoils it, the status is       *)
(* terminal only when the log is complete, and a body that ends without an *)
(* error has brought the client all of it.                                 *)
Complete ==
  firstSeq = 1 /\ seen = {} =>
    /\ ended => writer.pc = "over"
    /\ server.pc = "last" \/ (server.pc = "replay" /\ server.terminal) => ended
    /\ wire.end = "eof" => ended /\ Sent = Len(log)
    /\ client.pc = "returned" => ended /\ client.last = Len(log)

StreamInv ==
  /\ DeliveryInv
  /\ WriterTyped /\ LogBound /\ OnlySent /\ Counted /\ SeenTyped
  /\ Complete

LEMMA StreamInit == Init => StreamInv
<1> SUFFICES ASSUME Init PROVE StreamInv
  OBVIOUS
<1>1. /\ Len(log) = 0 /\ client.last = 0 /\ Len(wire.frames) = 0 /\ server.cur = 0
      /\ client.attempt = 0 /\ MaxEvents \in Nat /\ MaxReconnects \in Nat
      /\ ~ ended /\ server.pc = "closed" /\ wire.end = "none" /\ client.pc = "connect"
      /\ writer = [pc |-> "check", to |-> "running"] /\ seen = {}
  BY BoundsAssumption DEF Init
<1>2. WriterTyped /\ LogBound /\ SeenTyped
  BY <1>1 DEF WriterTyped, LogBound, SeenTyped
<1>3. OnlySent /\ Counted /\ Complete
  BY <1>1 DEF OnlySent, Sent, Counted, Complete
<1> QED
  BY <1>2, <1>3, DeliveryInit DEF StreamInv

(* The writer only adds to the log, and not behind a terminal status it    *)
(* has written itself.                                                     *)
LEMMA WriterKeeps ==
  ASSUME StreamInv, WriterStep \/ Cancel
  PROVE  /\ WriterTyped' /\ LogBound' /\ SeenTyped'
         /\ Len(log) \in Nat /\ Len(log') \in Nat /\ Len(log) <= Len(log')
         /\ writer.pc = "over" => UNCHANGED <<writer, log>> /\ (ended => ended')
         /\ ended' => ended \/ writer'.pc = "over" \/ seen' # {}
         /\ seen \subseteq seen'
         /\ UNCHANGED <<firstSeq, server, wire, client, got>>
<1>0. /\ log \in Seq(Types) /\ Len(log) \in Nat /\ firstSeq \in {0, 1} /\ MaxEvents \in Nat
      /\ WriterTyped /\ LogBound /\ SeenTyped
  BY BoundsAssumption DEF StreamInv, DeliveryInv, Shape
<1>1. ASSUME NEW type \in Types, Logs(type)
      PROVE  Len(log') \in {Len(log), Len(log) + 1}
  <2>1. Len(Append(log, type)) = Len(log) + 1
    BY <1>0
  <2> QED
    BY <1>1, <2>1 DEF Logs
<1>2. CASE WriterCheck
  <2>1. /\ writer.pc = "check" /\ writer'.pc \in {"over", "write"} /\ writer'.to = writer.to
        /\ writer' \in [ pc: {"check", "write", "open", "stream", "over"},
                         to: {"running", "finalizing", "completed", "failed"} ]
        /\ UNCHANGED <<firstSeq, seen, log, ended, server, wire, client, got>>
    BY <1>0, <1>2 DEF WriterCheck, WriterTyped
  <2> QED
    BY <1>0, <2>1 DEF WriterTyped, LogBound, SeenTyped
<1>3. CASE WriterWrite
  <2>1. /\ writer.pc = "write"
        /\ UNCHANGED <<firstSeq, seen, log, server, wire, client, got>>
        /\ ended' = (writer.to \in {"completed", "failed"})
    BY <1>3 DEF WriterWrite
  <2>2. CASE writer.to = "running"
    <3>1. writer' = [writer EXCEPT !.pc = "open"]
      BY <1>3, <2>2 DEF WriterWrite
    <3>2. writer'.pc = "open" /\ WriterTyped'
      BY <1>0, <3>1 DEF WriterTyped
    <3>3. ~ ended'
      BY <2>1, <2>2
    <3> QED
      BY <1>0, <2>1, <2>2, <3>2, <3>3 DEF LogBound, SeenTyped
  <2>3. CASE writer.to = "finalizing"
    <3>1. writer' = [pc |-> "check", to |-> "completed"]
      BY <1>3, <2>3 DEF WriterWrite
    <3>2. WriterTyped' /\ writer'.pc = "check" /\ writer'.to = "completed"
      BY <3>1 DEF WriterTyped
    <3>3. ~ ended'
      BY <2>1, <2>3
    <3> QED
      BY <1>0, <2>1, <2>3, <3>2, <3>3 DEF LogBound, SeenTyped
  <2>4. CASE writer.to \in {"completed", "failed"}
    <3>1. writer' = [writer EXCEPT !.pc = "over"]
      BY <1>3, <2>4 DEF WriterWrite
    <3>2. writer'.pc = "over" /\ WriterTyped'
      BY <1>0, <3>1 DEF WriterTyped
    <3> QED
      BY <1>0, <2>1, <2>4, <3>1, <3>2 DEF LogBound, SeenTyped
  <2> QED
    BY <1>0, <2>2, <2>3, <2>4 DEF WriterTyped
<1>4. CASE WriterOpens
  <2>1. /\ writer.pc = "open" /\ Len(log) = 0 /\ UNCHANGED <<firstSeq, seen, ended, server, wire, client, got>>
    BY <1>0, <1>4 DEF WriterOpens, LogBound
  <2>2. writer'.pc = "stream" /\ WriterTyped'
    BY <1>0, <1>4 DEF WriterOpens, WriterTyped
  <2>3. Len(log') = Len(log) \/ Len(log') = Len(log) + 1
    BY <1>1, <1>4 DEF WriterOpens, Types
  <2>4. LogBound' /\ Len(log') \in Nat /\ Len(log) <= Len(log')
    <3> DEFINE m == Len(log')
    <3>1. m = 0 \/ m = 1
      BY <2>1, <2>3
    <3>2. Len(log) = 0 /\ MaxEvents \in Nat
      BY <1>0, <2>1
    <3> HIDE DEF m
    <3>3. m \in Nat /\ m <= 1 /\ m <= MaxEvents + 1 /\ m <= MaxEvents + 2 /\ 0 <= m
      BY <3>1, <3>2
    <3> QED
      BY <2>2, <3>2, <3>3 DEF LogBound, m
  <2>5. SeenTyped' /\ (ended' => ended) /\ seen \subseteq seen'
    BY <1>0, <2>1 DEF SeenTyped
  <2> QED
    BY <1>0, <2>1, <2>2, <2>4, <2>5
<1>5. CASE WriterChunk
  <2>1. /\ writer.pc = "stream" /\ Len(log) < MaxEvents
        /\ UNCHANGED <<firstSeq, seen, ended, writer, server, wire, client, got>>
    BY <1>5 DEF WriterChunk
  <2>2. Len(log') \in {Len(log), Len(log) + 1}
    BY <1>1, <1>5 DEF WriterChunk, Types
  <2> QED
    BY <1>0, <2>1, <2>2 DEF LogBound, WriterTyped, SeenTyped
<1>6. CASE WriterDone
  <2>1. /\ writer.pc = "stream" /\ UNCHANGED <<firstSeq, seen, ended, server, wire, client, got>>
        /\ writer'.pc = "check" /\ writer'.to \in {"finalizing", "failed"} /\ WriterTyped'
    BY <1>6 DEF WriterDone, WriterTyped
  <2>2. Len(log') \in {Len(log), Len(log) + 1}
    BY <1>1, <1>6 DEF WriterDone, Types
  <2>3. Len(log) <= MaxEvents + 1
    BY <1>0, <2>1 DEF LogBound
  <2> QED
    BY <1>0, <2>1, <2>2, <2>3 DEF LogBound, SeenTyped
<1>7. CASE WriterFailsEarly
  <2>1. /\ writer.pc = "open" /\ UNCHANGED <<firstSeq, seen, log, ended, server, wire, client, got>>
        /\ writer'.pc = "check" /\ writer'.to = "failed" /\ WriterTyped'
    BY <1>7 DEF WriterFailsEarly, WriterTyped
  <2> QED
    BY <1>0, <2>1 DEF LogBound, SeenTyped
<1>8. CASE Cancel
  <2>1. /\ seen' = seen \cup {"cancel"} /\ ended'
        /\ UNCHANGED <<firstSeq, log, writer, server, wire, client, got>>
    BY <1>8 DEF Cancel
  <2> QED
    BY <1>0, <2>1 DEF LogBound, WriterTyped, SeenTyped
<1> QED
  BY <1>2, <1>3, <1>4, <1>5, <1>6, <1>7, <1>8 DEF WriterStep

(* What the other steps leave alone.                                       *)
LEMMA ReadersKeep ==
  ASSUME StreamInv, ServerStep \/ ClientStep \/ QueryFails \/ Disconnect \/ ConnectFails
  PROVE  /\ UNCHANGED runVars /\ seen \subseteq seen'
         /\ WriterTyped' /\ LogBound' /\ SeenTyped'
<1>1. UNCHANGED runVars /\ seen' \in {seen, seen \cup {"db"}, seen \cup {"proxy"}}
  BY DEF ServerStep, ClientStep, Replay, Tick, ReadStatus, LastDrain, Drained, QueryFails, Closed,
         Disconnect, Connect, Receive, BodyEnds, BodyBreaks, ConnectFails, runVars
<1>2. seen \subseteq seen' /\ SeenTyped'
  BY <1>1 DEF StreamInv, SeenTyped
<1> QED
  BY <1>1, <1>2 DEF runVars, StreamInv, WriterTyped, LogBound

LEMMA SentTypes ==
  ASSUME StreamInv
  PROVE  /\ Len(log) \in Nat /\ Len(wire.frames) \in Nat /\ client.last \in Nat /\ firstSeq \in {0, 1}
         /\ Sent \in Nat /\ Top \in Int /\ server.cur \in Nat /\ Len(got) = client.last
         /\ MaxEvents \in Nat /\ Top <= MaxEvents + 2 /\ Sent <= MaxEvents + 2
<1>1. /\ Len(log) \in Nat /\ Len(wire.frames) \in Nat /\ client.last \in Nat /\ firstSeq \in {0, 1}
      /\ server.cur \in Nat /\ Len(got) = client.last /\ MaxEvents \in Nat
  BY BoundsAssumption DEF StreamInv, DeliveryInv, Shape, Aligned
<1>2. Len(log) <= MaxEvents + 2 /\ (Sent = 0 \/ Sent <= Top)
  BY DEF StreamInv, LogBound, OnlySent
<1> QED
  BY <1>1, <1>2 DEF Sent, Top

(* A drain sends the whole log.                                            *)
LEMMA DrainSends ==
  ASSUME StreamInv, server.pc # "closed",
         NEW next \in {"closed", "tick", "status"}, Drained(next)
  PROVE  /\ Sent' = (IF Top > Sent THEN Top ELSE Sent) /\ server'.cur = Sent'
         /\ server'.pc = next /\ server'.terminal = server.terminal
         /\ UNCHANGED <<firstSeq, log, ended, writer, seen, client, got>>
         /\ wire'.end = (IF next = "closed" THEN "eof" ELSE wire.end)
<1> DEFINE new == UnsentFrames
<1> DEFINE n == Len(log) - Passed
<1>1. /\ new \in Seq(Nat) /\ wire.frames \in Seq(Nat)
      /\ server.cur = Sent
  BY Unsent DEF StreamInv, DeliveryInv, Aligned, Shape, Sent
<1>2. n = Top - Sent
  BY <1>1, SentTypes DEF Passed, Top
<1>3. Len(new) = IF Top > Sent THEN Top - Sent ELSE 0
  <2>0. n \in Int
    BY <1>2, SentTypes
  <2>1. DOMAIN new = 1 .. n
    BY DEF UnsentFrames
  <2>2. DOMAIN new = 1 .. Len(new) /\ Len(new) \in Nat
    BY <1>1, LenProperties
  <2> HIDE DEF n, new
  <2>3. CASE n > 0
    BY <1>2, <2>0, <2>1, <2>2, <2>3, SentTypes
  <2>4. CASE ~ n > 0
    <3>1. 1 .. Len(new) = {}
      BY <2>0, <2>1, <2>2, <2>4
    <3>2. Len(new) = 0
      BY <2>2, <3>1
    <3>3. ~ Top > Sent
      BY <1>2, <2>0, <2>4, SentTypes
    <3> QED
      BY <3>2, <3>3
  <2> QED
    BY <2>3, <2>4
<1>4. /\ wire'.frames = wire.frames \o new
      /\ wire'.end = (IF next = "closed" THEN "eof" ELSE wire.end)
      /\ server'.pc = next /\ server'.terminal = server.terminal
      /\ server'.cur = server.cur + Len(new)
      /\ UNCHANGED <<firstSeq, log, ended, writer, seen, client, got>>
  BY DEF Drained, runVars, StreamInv, DeliveryInv, Shape
<1>5. Len(wire.frames \o new) = Len(wire.frames) + Len(new)
  BY <1>1, ConcatProperties
<1> HIDE DEF new, n
<1>6. Sent' = Sent + Len(new)
  <2>1. client'.last = client.last /\ Len(wire'.frames) = Len(wire.frames) + Len(new)
    BY <1>4, <1>5
  <2>2. /\ Len(new) \in Nat /\ Len(wire.frames) \in Nat /\ client.last \in Nat
    BY <1>3, SentTypes
  <2> QED
    BY <2>1, <2>2 DEF Sent
<1> QED
  BY <1>1, <1>3, <1>4, <1>6, SentTypes

LEMMA DrainKeeps ==
  ASSUME StreamInv, Replay \/ Tick \/ LastDrain
  PROVE  OnlySent' /\ Counted' /\ Complete'
<1>1. PICK next \in {"closed", "tick", "status"} :
        Drained(next) /\ (next = "closed" => server.pc = "last" \/ (server.pc = "replay" /\ server.terminal))
  BY DEF Replay, Tick, LastDrain
<1>2. server.pc # "closed"
  BY DEF Replay, Tick, LastDrain
<1>3. /\ Sent' = (IF Top > Sent THEN Top ELSE Sent) /\ server'.cur = Sent'
      /\ server'.pc = next /\ server'.terminal = server.terminal
      /\ UNCHANGED <<firstSeq, log, ended, writer, seen, client, got>>
      /\ wire'.end = (IF next = "closed" THEN "eof" ELSE wire.end)
  BY <1>1, <1>2, DrainSends
<1>4. Top' = Top
  BY <1>3 DEF Top
<1>5. OnlySent'
  BY <1>3, <1>4, SentTypes DEF StreamInv, OnlySent
<1>6. Counted'
  BY <1>3 DEF StreamInv, Counted
<1>7. Complete'
  <2> SUFFICES ASSUME firstSeq = 1, seen = {}
               PROVE  /\ ended => writer.pc = "over"
                      /\ wire'.end = "eof" => ended /\ Sent' = Len(log)
                      /\ client.pc = "returned" => ended /\ client.last = Len(log)
    BY <1>3 DEF Complete
  <2>1. wire'.end = "eof" => ended
    BY <1>1, <1>3 DEF StreamInv, Complete
  <2>2. Top = Len(log) /\ Sent' = Len(log)
    BY <1>3, SentTypes DEF Top, StreamInv, OnlySent
  <2> QED
    BY <2>1, <2>2 DEF StreamInv, Complete
<1> QED
  BY <1>5, <1>6, <1>7

LEMMA ReceiveKeeps ==
  ASSUME StreamInv, Receive
  PROVE  OnlySent' /\ Counted' /\ Complete'
<1> DEFINE id == Head(wire.frames)
<1>1. /\ wire.frames \in Seq(Nat) /\ wire.frames # <<>> /\ client.last \in Nat /\ client.from \in Nat
      /\ \A k \in 1 .. Len(wire.frames) : wire.frames[k] = client.last + k
      /\ client.from <= client.last
  BY DEF StreamInv, DeliveryInv, Shape, Aligned, Receive
<1>2. Len(wire.frames) \in Nat \ {0}
  BY <1>1
<1>3. id = client.last + 1
  BY <1>1, <1>2
<1>4. Len(Tail(wire.frames)) = Len(wire.frames) - 1
  BY <1>1, HeadTailProperties
<1> HIDE DEF id
<1>5. /\ wire' = [wire EXCEPT !.frames = Tail(wire.frames)]
      /\ client' = [client EXCEPT !.last = id, !.yielded = @ + 1,
                                  !.sawRunDone = @ \/ TypeAt(id) = "done"]
      /\ UNCHANGED <<firstSeq, log, ended, writer, seen, server>>
      /\ client.pc = "read"
  <2>1. id > client.from
    BY <1>1, <1>3
  <2> QED
    BY <2>1 DEF Receive, runVars, id
<1>6. /\ client'.last = client.last + 1 /\ client'.pc = "read" /\ client'.attempt = client.attempt
      /\ wire'.frames = Tail(wire.frames) /\ wire'.end = wire.end
  BY <1>3, <1>5 DEF StreamInv, DeliveryInv, Shape
<1>7. Sent' = Sent /\ Top' = Top
  <2>1. Len(wire'.frames) = Len(wire.frames) - 1
    BY <1>4, <1>6
  <2>2. Sent' = Sent
    BY <1>1, <1>2, <1>6, <2>1 DEF Sent
  <2> QED
    BY <1>5, <2>2 DEF Top
<1> QED
  BY <1>5, <1>6, <1>7 DEF StreamInv, OnlySent, Counted, Complete

LEMMA DisconnectKeeps ==
  ASSUME StreamInv, Disconnect
  PROVE  OnlySent' /\ Counted' /\ Complete'
<1>1. PICK k \in 0 .. Len(wire.frames), end \in {"error", "eof"} :
        /\ wire' = [frames |-> SubSeq(wire.frames, 1, k), end |-> end]
        /\ seen' = IF end = "eof" THEN seen \cup {"proxy"} ELSE seen
  BY DEF Disconnect
<1>2. Len(SubSeq(wire.frames, 1, k)) = k
  BY DEF StreamInv, DeliveryInv, Shape
<1>3. /\ server'.pc = "closed" /\ server'.cur = server.cur
      /\ UNCHANGED <<firstSeq, log, ended, writer, client, got>>
  BY DEF Disconnect, runVars, StreamInv, DeliveryInv, Shape
<1>4. Sent' \in Nat /\ Sent' <= Sent /\ Top' = Top
  BY <1>1, <1>2, <1>3, SentTypes DEF Sent, Top
<1>5. OnlySent'
  BY <1>3, <1>4, SentTypes DEF StreamInv, OnlySent
<1>6. Complete'
  <2>1. seen' = {} => seen = {} /\ wire'.end = "error"
    BY <1>1
  <2> QED
    BY <1>3, <2>1 DEF StreamInv, Complete
<1> QED
  BY <1>3, <1>5, <1>6 DEF StreamInv, Counted

(* The end of a body, or of a request that failed: the iteration ends, or  *)
(* one more of its attempts is spent.                                      *)
LEMMA EndKeeps ==
  ASSUME StreamInv, BodyEnds \/ BodyBreaks \/ ConnectFails
  PROVE  OnlySent' /\ Counted' /\ Complete'
<1>0. /\ client \in [pc: {"connect", "read", "returned", "threw"}, last: Nat, from: Nat,
                     yielded: Nat, sawRunDone: BOOLEAN, attempt: Nat]
      /\ MaxReconnects \in Nat /\ client.attempt <= MaxReconnects
  BY BoundsAssumption
     DEF StreamInv, DeliveryInv, Shape, Counted, BodyEnds, BodyBreaks, ConnectFails
<1>1. UNCHANGED <<firstSeq, log, ended, writer, seen, server, wire, got>>
  BY DEF BodyEnds, BodyBreaks, ConnectFails, runVars
<1>2. ASSUME NEW giveUp \in {"returned", "threw"}, Reconnect(giveUp)
      PROVE  /\ client'.last = client.last /\ client'.pc \in {"connect", giveUp}
             /\ client'.attempt = client.attempt + 1
             /\ client'.pc = "connect" => client.attempt < MaxReconnects
  <2> DEFINE pc == IF client.attempt < MaxReconnects THEN "connect" ELSE giveUp
  <2>1. client' = [client EXCEPT !.attempt = client.attempt + 1, !.pc = pc]
    BY <1>2 DEF Reconnect
  <2>2. pc \in {"connect", giveUp} /\ (pc = "connect" => client.attempt < MaxReconnects)
    BY <1>2
  <2> HIDE DEF pc
  <2> QED
    BY <1>0, <2>1, <2>2
<1>3. /\ client'.last = client.last /\ client'.pc # "read"
      /\ client'.attempt \in {client.attempt, client.attempt + 1}
      /\ client'.pc = "connect" => client'.attempt = client.attempt + 1 /\ client.attempt < MaxReconnects
      /\ client'.pc = "returned" => BodyEnds
  <2>1. CASE BodyEnds
    <3>1. CASE Reconnect("returned")
      BY <1>0, <1>2, <2>1, <3>1
    <3>2. CASE client' = [client EXCEPT !.pc = "returned"]
      BY <1>0, <2>1, <3>2
    <3> QED
      BY <2>1, <3>1, <3>2 DEF BodyEnds
  <2>2. CASE BodyBreaks \/ ConnectFails
    BY <1>0, <1>2, <2>2 DEF BodyBreaks, ConnectFails
  <2> QED
    BY <2>1, <2>2
<1>4. Sent' = Sent /\ Top' = Top
  BY <1>1, <1>3 DEF Sent, Top
<1>5. OnlySent'
  BY <1>1, <1>4 DEF StreamInv, OnlySent
<1>6. Counted'
  BY <1>0, <1>3 DEF Counted
<1>7. Complete'
  <2>1. ASSUME firstSeq = 1, seen = {}, BodyEnds PROVE ended /\ client.last = Len(log)
    <3>1. wire.end = "eof" /\ Len(wire.frames) = 0
      BY <2>1 DEF BodyEnds
    <3>2. Sent = client.last
      BY <3>1, SentTypes DEF Sent
    <3> QED
      BY <2>1, <3>1, <3>2 DEF StreamInv, Complete
  <2> QED
    BY <1>1, <1>3, <1>4, <2>1 DEF StreamInv, Complete
<1> QED
  BY <1>5, <1>6, <1>7

LEMMA ConnectKeeps ==
  ASSUME StreamInv, Connect
  PROVE  OnlySent' /\ Counted' /\ Complete'
<1>1. /\ server' = [pc |-> "replay", cur |-> client.last, terminal |-> ended]
      /\ wire' = [frames |-> <<>>, end |-> "none"]
      /\ client.pc = "connect" /\ client'.pc = "read" /\ client'.last = client.last
      /\ client'.attempt = client.attempt
      /\ UNCHANGED <<firstSeq, log, ended, writer, seen, got>>
  BY DEF Connect, runVars, StreamInv, DeliveryInv, Shape
<1>2. Sent' = client.last /\ Top' = Top /\ client.last <= Sent
  BY <1>1, SentTypes DEF Sent, Top
<1>3. OnlySent'
  BY <1>1, <1>2, SentTypes DEF StreamInv, OnlySent
<1>4. Counted'
  BY <1>1 DEF StreamInv, Counted
<1>5. Complete'
  BY <1>1 DEF StreamInv, Complete
<1> QED
  BY <1>3, <1>4, <1>5

LEMMA StreamStep == StreamInv /\ [Next]_vars => StreamInv'
<1> SUFFICES ASSUME StreamInv, [Next]_vars PROVE StreamInv'
  OBVIOUS
<1>0. DeliveryInv'
  BY DeliveryStep DEF StreamInv
<1>1. CASE WriterStep \/ Cancel
  <2>1. /\ WriterTyped' /\ LogBound' /\ SeenTyped'
        /\ Len(log) \in Nat /\ Len(log') \in Nat /\ Len(log) <= Len(log')
        /\ writer.pc = "over" => UNCHANGED <<writer, log>> /\ (ended => ended')
        /\ ended' => ended \/ writer'.pc = "over" \/ seen' # {}
        /\ seen \subseteq seen'
        /\ UNCHANGED <<firstSeq, server, wire, client, got>>
    BY <1>1, WriterKeeps
  <2>2. Sent' = Sent /\ Top <= Top' /\ Top' \in Int
    BY <2>1, SentTypes DEF Sent, Top
  <2>3. OnlySent'
    BY <2>1, <2>2, SentTypes DEF StreamInv, OnlySent
  <2>4. Counted'
    BY <2>1 DEF StreamInv, Counted
  <2>5. Complete'
    <3> SUFFICES ASSUME firstSeq = 1, seen' = {} PROVE Complete'
      BY <2>1 DEF Complete
    <3>1. seen = {}
      BY <2>1
    <3>2. ended => UNCHANGED <<writer, log>> /\ ended' /\ writer'.pc = "over"
      BY <2>1, <3>1 DEF StreamInv, Complete
    <3> QED
      BY <2>1, <2>2, <3>1, <3>2 DEF StreamInv, Complete
  <2> QED
    BY <1>0, <2>1, <2>3, <2>4, <2>5 DEF StreamInv
<1>2. CASE ServerStep \/ ClientStep \/ QueryFails \/ Disconnect \/ ConnectFails
  <2>1. UNCHANGED runVars /\ seen \subseteq seen' /\ WriterTyped' /\ LogBound' /\ SeenTyped'
    BY <1>2, ReadersKeep
  <2>2. ASSUME ReadStatus PROVE OnlySent' /\ Counted' /\ Complete'
    <3>1. /\ server.pc = "status" /\ server'.pc = (IF ended THEN "last" ELSE "tick")
          /\ server'.cur = server.cur /\ UNCHANGED <<seen, wire, client, got>>
      BY <2>2 DEF ReadStatus, StreamInv, DeliveryInv, Shape
    <3> QED
      BY <2>1, <3>1 DEF runVars, StreamInv, OnlySent, Sent, Top, Counted, Complete
  <2>3. ASSUME QueryFails PROVE OnlySent' /\ Counted' /\ Complete'
    <3>1. /\ server'.cur = server.cur /\ wire'.frames = wire.frames /\ "db" \in seen'
          /\ UNCHANGED <<client, got>>
      BY <2>3 DEF QueryFails, Closed, StreamInv, DeliveryInv, Shape
    <3> QED
      BY <2>1, <3>1 DEF runVars, StreamInv, OnlySent, Sent, Top, Counted, Complete
  <2>4. OnlySent' /\ Counted' /\ Complete'
    BY <1>2, <2>2, <2>3, DrainKeeps, ReceiveKeeps, DisconnectKeeps, EndKeeps, ConnectKeeps
       DEF ServerStep, ClientStep
  <2> QED
    BY <1>0, <2>1, <2>4 DEF StreamInv
<1>3. CASE UNCHANGED vars
  BY <1>0, <1>3 DEF vars, StreamInv, WriterTyped, LogBound, OnlySent, Sent, Top, Counted,
                    SeenTyped, Complete
<1> QED
  BY <1>1, <1>2, <1>3 DEF Next

LEMMA StreamAlways == Spec => []StreamInv
  BY StreamInit, StreamStep, PTL DEF Spec

(* An iteration that returns has brought the whole of a run that is over,  *)
(* over any number of reconnections, with the v1 flag and as long as       *)
(* nobody cancels the run and no body is cut off as if it were complete.   *)
THEOREM ReturnedAlwaysComplete == Spec => []ReturnedIsComplete
<1>1. StreamInv => ReturnedIsComplete
  <2> SUFFICES ASSUME StreamInv PROVE ReturnedIsComplete
    OBVIOUS
  <2>1. Len(got) = client.last
    BY SentTypes
  <2> QED
    BY <2>1 DEF StreamInv, Complete, ReturnedIsComplete
<1> QED
  BY <1>1, StreamAlways, PTL

(* The cursors, the frames and the ids of EventStream stay in their        *)
(* ranges, for any number of events and of reconnections: nothing is sent  *)
(* that the log does not have.                                             *)
THEOREM StreamTypes == Spec => []TypeOK
<1>1. StreamInv => TypeOK
  <2> SUFFICES ASSUME StreamInv PROVE TypeOK
    OBVIOUS
  <2>0. /\ client.last <= Sent /\ client.last \in Nat /\ Sent \in Nat /\ Sent <= MaxEvents + 2
        /\ MaxEvents \in Nat /\ MaxReconnects \in Nat /\ Len(got) = client.last
        /\ Len(wire.frames) \in Nat /\ Sent = client.last + Len(wire.frames)
    BY SentTypes, BoundsAssumption DEF Sent
  <2>1. got \in Seq(Ids)
    <3>1. got \in Seq(Nat) /\ \A i \in 1 .. Len(got) : got[i] = i
      BY <2>0 DEF StreamInv, DeliveryInv, Shape, Aligned
    <3>2. \A i \in 1 .. Len(got) : got[i] \in Ids
      BY <2>0, <3>1 DEF Ids
    <3>3. got \in [1 .. Len(got) -> Ids]
      BY <3>1, <3>2
    <3> QED
      BY <2>0, <3>3
  <2>2. wire \in [frames: Seq(Ids), end: {"none", "eof", "error"}]
    <3>1. /\ wire \in [frames: Seq(Nat), end: {"none", "eof", "error"}]
          /\ \A k \in 1 .. Len(wire.frames) : wire.frames[k] = client.last + k
      BY DEF StreamInv, DeliveryInv, Shape, Aligned
    <3>2. \A k \in 1 .. Len(wire.frames) : wire.frames[k] \in Ids
      BY <2>0, <3>1 DEF Ids
    <3>3. wire.frames \in [1 .. Len(wire.frames) -> Ids]
      BY <3>1, <3>2
    <3>4. wire.frames \in Seq(Ids)
      BY <2>0, <3>3
    <3> QED
      BY <3>1, <3>4
  <2>3. server \in [ pc: {"closed", "replay", "tick", "status", "last"},
                     cur: Ids, terminal: BOOLEAN ]
    <3>1. /\ server \in [pc: {"closed", "replay", "tick", "status", "last"}, cur: Nat, terminal: BOOLEAN]
          /\ server.cur <= MaxEvents + 2
      BY DEF StreamInv, DeliveryInv, Shape, OnlySent
    <3>2. server.cur \in Ids
      BY <2>0, <3>1 DEF Ids
    <3> QED
      BY <3>1, <3>2
  <2>4. client \in [ pc: {"connect", "read", "returned", "threw"}, last: Ids, from: Ids,
                     yielded: Nat, sawRunDone: BOOLEAN, attempt: 0 .. MaxReconnects + 1 ]
    <3>1. /\ client \in [pc: {"connect", "read", "returned", "threw"}, last: Nat, from: Nat,
                         yielded: Nat, sawRunDone: BOOLEAN, attempt: Nat]
          /\ client.from <= client.last /\ client.attempt <= MaxReconnects + 1
      BY DEF StreamInv, DeliveryInv, Shape, Aligned, Counted
    <3>2. client.last \in Ids /\ client.from \in Ids /\ client.attempt \in 0 .. MaxReconnects + 1
      BY <2>0, <3>1 DEF Ids
    <3> QED
      BY <3>1, <3>2
  <2> QED
    BY <2>1, <2>2, <2>3, <2>4 DEF TypeOK, StreamInv, DeliveryInv, Shape, WriterTyped, SeenTyped
<1> QED
  BY <1>1, StreamAlways, PTL


-----------------------------------------------------------------------------
(* The page of a chat: the only stream it reads is the one its abort       *)
(* controller belongs to, which consumeRunStream makes sure of before it   *)
(* opens another.                                                          *)
Turns == {"new", "posting", "refused", "reading", "failed", "aborted", "over", "left"}

PageInv == turn \in [Sends -> Turns] /\ \A p \in Reading : p = controller

LEMMA PageInit == ChatInit => PageInv
  BY DEF ChatInit, PageInv, Reading, Turns

LEMMA PageStep == PageInv /\ [ChatNext]_chatVars => PageInv'
<1> SUFFICES ASSUME PageInv, [ChatNext]_chatVars PROVE PageInv'
  OBVIOUS
<1> USE DEF PageInv, Reading, Turns
<1>1. ASSUME UNCHANGED <<turn, controller>> PROVE PageInv'
  BY <1>1
<1>2. CASE \E prompted \in BOOLEAN : OpenPage(prompted)
  BY <1>2 DEF OpenPage
<1>3. CASE GetMessages \/ ShowLoaded \/ LoadFails \/ Stopped \/ Saved
  BY <1>1, <1>3 DEF GetMessages, ShowLoaded, LoadFails, Stopped, Saved
<1>4. CASE Submit
  BY <1>4 DEF Submit
<1>5. CASE StopRun
  BY <1>5 DEF StopRun
<1>6. ASSUME NEW p \in Sends, PostAnswered(p) PROVE PageInv'
  <2>1. /\ turn[p] = "posting" /\ controller' = p
        /\ turn' = [turn EXCEPT ![p] = "reading",
                                ![controller] = IF controller \in Reading THEN "aborted" ELSE @]
    BY <1>6 DEF PostAnswered, Posting, Followed
  <2>2. turn' \in [Sends -> Turns]
    BY <2>1
  <2>3. \A q \in Sends : q # p => turn'[q] \notin {"reading", "failed"}
    BY <2>1
  <2> QED
    BY <2>1, <2>2, <2>3
<1>7. ASSUME NEW p \in Sends, NEW after \in Turns \ {"reading", "failed"},
             turn' = [turn EXCEPT ![p] = after], UNCHANGED controller
      PROVE  PageInv'
  BY <1>7
<1>8. ASSUME NEW p \in Sends, PostFails(p) \/ AbortSeen(p) \/ StreamEnds(p) \/ StreamBreaks(p)
      PROVE  PageInv'
  BY <1>7, <1>8 DEF PostFails, AbortSeen, StreamEnds, StreamBreaks
<1>9. ASSUME NEW p \in Sends, ReadError(p) PROVE PageInv'
  BY <1>9 DEF ReadError
<1>10. ASSUME NEW p \in Sends, ReadPiece(p) PROVE PageInv'
  <2>1. UNCHANGED <<turn, controller>>
    BY <1>10 DEF ReadPiece
  <2> QED
    BY <1>1, <2>1
<1>11. CASE UNCHANGED chatVars
  BY <1>1, <1>11 DEF chatVars
<1> QED
  BY <1>2, <1>3, <1>4, <1>5, <1>6, <1>8, <1>9, <1>10, <1>11 DEF ChatNext

(* For any number of sends, stops and openings, and whatever answer comes  *)
(* late, the page of a chat reads one stream at a time.                    *)
THEOREM PageReadsOneStream == ChatSpec => []OneStream
<1>1. PageInv => OneStream
  BY DEF PageInv, OneStream
<1> QED
  BY <1>1, PageInit, PageStep, PTL DEF ChatSpec

(* Both readers side by side, as the run explores them: what is proved of  *)
(* each holds where the two are composed.                                  *)
THEOREM ReadersTogether == MCSpec => [](TypeOK /\ GaplessDelivery /\ ReturnedIsComplete /\ OneStream)
<1>1. MCInit => Init /\ ChatInit
  BY DEF MCInit
<1>2. [MCNext]_mcVars => [Next]_vars /\ [ChatNext]_chatVars
  BY DEF MCNext, mcVars
<1>3. MCSpec => Spec
  BY <1>1, <1>2, PTL DEF MCSpec, Spec
<1>4. MCSpec => []PageInv
  BY <1>1, <1>2, PageInit, PageStep, PTL DEF MCSpec
<1>5. PageInv => OneStream
  BY DEF PageInv, OneStream
<1> QED
  BY <1>3, <1>4, <1>5, StreamTypes, DeliveryGapless, ReturnedAlwaysComplete, PTL

-----------------------------------------------------------------------------
(* Places in a set of positions: the smallest has the rank 1, and so on.   *)
Rank(T, i) == Cardinality({j \in T : j <= i})

LEMMA RankOrder ==
  ASSUME NEW n \in Nat, NEW T \in SUBSET (1 .. n)
  PROVE  /\ Cardinality(T) \in Nat
         /\ \A i \in T : Rank(T, i) \in 1 .. Cardinality(T)
         /\ \A i, j \in T : i < j => Rank(T, i) < Rank(T, j)
         /\ \A i \in T : 1 .. i \subseteq T => Rank(T, i) = i
<1> DEFINE c == Cardinality(T)
<1>1. IsFiniteSet(1 .. n)
  BY FS_Interval
<1>2. IsFiniteSet(T)
  BY <1>1, FS_Subset
<1>3. c \in Nat
  BY <1>2, FS_CardinalityType
<1>4. ASSUME NEW i \in T
      PROVE  /\ IsFiniteSet({j \in T : j <= i}) /\ Rank(T, i) \in Nat
             /\ Rank(T, i) <= c /\ Rank(T, i) # 0
  <2> DEFINE B == {j \in T : j <= i}
  <2>1. B \in SUBSET T /\ i \in B
    OBVIOUS
  <2> HIDE DEF B
  <2>2. IsFiniteSet(B) /\ Cardinality(B) <= c
    BY <1>2, <2>1, FS_Subset
  <2>3. Cardinality(B) \in Nat
    BY <2>2, FS_CardinalityType
  <2>4. Cardinality(B) # 0
    BY <2>1, <2>2, FS_EmptySet
  <2> QED
    BY <2>2, <2>3, <2>4 DEF Rank, B
<1>5. ASSUME NEW i \in T, NEW j \in T, i < j PROVE Rank(T, i) < Rank(T, j)
  <2> DEFINE A == {k \in T : k <= i}
  <2> DEFINE B == {k \in T : k <= j}
  <2>0. i \in Nat /\ j \in Nat /\ \A k \in T : k \in Nat
    OBVIOUS
  <2>1. j \notin A /\ A \cup {j} \in SUBSET B
    <3>1. ~ (j <= i) /\ \A k \in T : k <= i => k <= j
      BY <1>5, <2>0
    <3>2. j <= j
      BY <2>0
    <3> QED
      BY <3>1, <3>2
  <2>2. IsFiniteSet(A) /\ IsFiniteSet(B) /\ Cardinality(A) \in Nat /\ Cardinality(B) \in Nat
    BY <1>4 DEF Rank
  <2>3. Rank(T, i) = Cardinality(A) /\ Rank(T, j) = Cardinality(B)
    BY DEF Rank
  <2> HIDE DEF A, B
  <2>4. Cardinality(A \cup {j}) = Cardinality(A) + 1
    BY <2>1, <2>2, FS_AddElement
  <2>5. Cardinality(A \cup {j}) <= Cardinality(B)
    BY <2>1, <2>2, FS_Subset
  <2> QED
    BY <2>2, <2>3, <2>4, <2>5
<1>6. ASSUME NEW i \in T, 1 .. i \subseteq T PROVE Rank(T, i) = i
  <2>0. i \in Nat /\ \A j \in T : j \in Nat /\ 1 <= j
    OBVIOUS
  <2>1. ASSUME NEW j PROVE j \in {k \in T : k <= i} <=> j \in 1 .. i
    <3>1. j \in T /\ j <= i => j \in 1 .. i
      BY <2>0
    <3>2. j \in 1 .. i => j \in T /\ j <= i
      BY <1>6, <2>0
    <3> QED
      BY <3>1, <3>2
  <2>2. i \in Nat /\ i >= 1
    OBVIOUS
  <2>3. Cardinality(1 .. i) = i
    BY <2>2, FS_Interval
  <2> QED
    <3>1. {k \in T : k <= i} = 1 .. i
      BY <2>1
    <3> QED
      BY <2>3, <3>1 DEF Rank
<1> HIDE DEF c
<1>7. ASSUME NEW i \in T PROVE Rank(T, i) \in 1 .. c
  <2>1. Rank(T, i) \in Nat /\ Rank(T, i) <= c /\ Rank(T, i) # 0
    BY <1>4
  <2> QED
    BY <1>3, <2>1
<1> QED
  BY <1>3, <1>5, <1>6, <1>7 DEF c

LEMMA RankOnto ==
  ASSUME NEW n \in Nat, NEW T \in SUBSET (1 .. n), NEW m \in 1 .. Cardinality(T)
  PROVE  \E i \in T : Rank(T, i) = m
<1> DEFINE c == Cardinality(T)
<1> DEFINE rank == [i \in T |-> Rank(T, i)]
<1>1. IsFiniteSet(1 .. n)
  BY FS_Interval
<1>2. IsFiniteSet(T)
  BY <1>1, FS_Subset
<1>3. c \in Nat /\ m \in 1 .. c
  BY RankOrder
<1>4. /\ \A i \in T : Rank(T, i) \in 1 .. c
      /\ \A i, j \in T : i < j => Rank(T, i) < Rank(T, j)
  BY RankOrder
<1>5. rank \in Injection(T, 1 .. c)
  <2>1. ASSUME NEW i \in T, NEW j \in T, i # j PROVE Rank(T, i) # Rank(T, j)
    <3>1. i < j \/ j < i
      BY <2>1
    <3>2. Rank(T, i) \in Nat /\ Rank(T, j) \in Nat
      BY <1>3, <1>4
    <3> HIDE DEF c
    <3> QED
      BY <1>4, <3>1, <3>2
  <2> QED
    BY <1>4, <2>1 DEF Injection, IsInjective
<1>6. IsFiniteSet(1 .. c) /\ Cardinality(1 .. c) = c
  <2>1. IsFiniteSet(1 .. c) /\ Cardinality(1 .. c) = IF 1 > c THEN 0 ELSE c - 1 + 1
    BY <1>3, FS_Interval
  <2> HIDE DEF c
  <2> QED
    BY <1>3, <2>1
<1>7. rank \in Surjection(T, 1 .. c)
  BY <1>2, <1>5, <1>6, FS_Injection
<1> QED
  BY <1>3, <1>7 DEF Surjection

-----------------------------------------------------------------------------
(* What Without does to the page: kept[n] was rows[from[n]], in order, and *)
(* what stands before all that goes stays where it is.                     *)
Message == [role: {"user", "assistant"}, of: Nat, text: Seq(Nat)]

Picks(from, kept, rows, gone) ==
  /\ from \in [1 .. Len(kept) -> 1 .. Len(rows)]
  /\ \A n \in 1 .. Len(kept) : kept[n] = rows[from[n]] /\ rows[from[n]] \notin gone
  /\ \A i \in 1 .. Len(rows) : rows[i] \notin gone => \E n \in 1 .. Len(kept) : from[n] = i
  /\ \A m, n \in 1 .. Len(kept) : m < n => from[m] < from[n]
  /\ \A k \in 1 .. Len(rows) :
       (\A i \in 1 .. k : rows[i] \notin gone) => k <= Len(kept) /\ from[k] = k

LEMMA WithoutFacts ==
  ASSUME messages \in Seq(Message), NEW gone
  PROVE  /\ Without(gone) \in Seq(Message)
         /\ \E from : Picks(from, Without(gone), messages, gone)
<1> DEFINE n == Len(messages)
<1> DEFINE stay == {i \in 1 .. n : messages[i] \notin gone}
<1> DEFINE c == Cardinality(stay)
<1> DEFINE Nth(m) == CHOOSE i \in stay : Rank(stay, i) = m
<1> DEFINE from == [m \in 1 .. c |-> Nth(m)]
<1>1. n \in Nat /\ stay \in SUBSET (1 .. n) /\ DOMAIN messages = 1 .. n
  OBVIOUS
<1>2. Without(gone) = [m \in 1 .. c |-> messages[Nth(m)]]
  BY <1>1 DEF Without, Rank
<1>3. /\ c \in Nat
      /\ \A i \in stay : Rank(stay, i) \in 1 .. c
      /\ \A i, j \in stay : i < j => Rank(stay, i) < Rank(stay, j)
      /\ \A i \in stay : 1 .. i \subseteq stay => Rank(stay, i) = i
  <2> HIDE DEF stay
  <2> QED
    BY <1>1, RankOrder
<1>4. \A m \in 1 .. c : \E i \in stay : Rank(stay, i) = m
  <2> HIDE DEF stay
  <2> QED
    BY <1>1, RankOnto
<1>5. \A m \in 1 .. c : Nth(m) \in stay /\ Rank(stay, Nth(m)) = m
  BY <1>4
<1>6. \A i, j \in stay : Rank(stay, i) = Rank(stay, j) => i = j
  <2> SUFFICES ASSUME NEW i \in stay, NEW j \in stay, i # j PROVE Rank(stay, i) # Rank(stay, j)
    OBVIOUS
  <2>1. i < j \/ j < i
    BY <1>1
  <2>2. Rank(stay, i) \in Nat /\ Rank(stay, j) \in Nat
    BY <1>3
  <2> HIDE DEF stay
  <2> QED
    BY <1>3, <2>1, <2>2
<1>7. \A i \in stay : Nth(Rank(stay, i)) = i
  BY <1>3, <1>5, <1>6
<1>8. \A m \in 1 .. c : from[m] = Nth(m) /\ from[m] \in 1 .. n /\ messages[from[m]] \notin gone
  BY <1>5
<1>9. Without(gone) = [m \in 1 .. c |-> messages[from[m]]]
  BY <1>2
<1>10. \A i \in stay : \E m \in 1 .. c : from[m] = i
  BY <1>3, <1>7, ZenonT(30)
<1>11. ASSUME NEW a \in 1 .. c, NEW b \in 1 .. c, a < b PROVE from[a] < from[b]
  <2>1. from[a] \in stay /\ from[b] \in stay /\ Rank(stay, from[a]) = a /\ Rank(stay, from[b]) = b
    BY <1>5
  <2> HIDE DEF stay, from, c
  <2>2. from[a] \in Nat /\ from[b] \in Nat
    BY <1>8
  <2>3. ~ (from[b] < from[a]) /\ from[a] # from[b]
    BY <1>3, <1>11, <2>1
  <2> QED
    BY <2>2, <2>3
<1>12. ASSUME NEW k \in 1 .. n, \A i \in 1 .. k : messages[i] \notin gone
       PROVE  k <= c /\ from[k] = k
  <2>1. k \in stay /\ 1 .. k \subseteq stay
    BY <1>1, <1>12
  <2>2. Rank(stay, k) = k /\ Rank(stay, k) \in 1 .. c
    BY <1>3, <2>1
  <2>3. Nth(k) = k
    BY <1>7, <2>1, <2>2
  <2> HIDE DEF stay, Nth
  <2> QED
    BY <2>2, <2>3
<1>13. \A i \in 1 .. n : messages[i] \notin gone <=> i \in stay
  OBVIOUS
<1>14. from \in [1 .. c -> 1 .. n]
  <2>1. \A m \in 1 .. c : Nth(m) \in 1 .. n
    BY <1>5
  <2> HIDE DEF Nth, c
  <2> QED
    BY <2>1
<1> HIDE DEF stay, from, Nth, c
<1>15. Without(gone) \in Seq(Message) /\ Len(Without(gone)) = c
  <2>1. \A m \in 1 .. c : messages[from[m]] \in Message
    BY <1>1, <1>8
  <2> QED
    BY <1>3, <1>9, <2>1
<1>16. Picks(from, Without(gone), messages, gone)
  <2>2. \A m \in 1 .. c : Without(gone)[m] = messages[from[m]]
    BY <1>9
  <2> QED
    BY <1>8, <1>10, <1>11, <1>12, <1>13, <1>14, <1>15, <2>2 DEF Picks
<1> QED
  BY <1>15, <1>16

(* Neighbours that stay are neighbours still. *)
LEMMA PicksNeighbours ==
  ASSUME NEW rows, NEW kept, NEW gone, NEW from, Picks(from, kept, rows, gone),
         Len(rows) \in Nat, Len(kept) \in Nat,
         NEW n \in 1 .. Len(kept), from[n] > 1, rows[from[n] - 1] \notin gone
  PROVE  n > 1 /\ kept[n - 1] = rows[from[n] - 1]
<1> DEFINE N == Len(kept)
<1> DEFINE R == Len(rows)
<1>1. /\ \A k \in 1 .. N : from[k] \in 1 .. R /\ kept[k] = rows[from[k]]
      /\ \A i \in 1 .. R : rows[i] \notin gone => \E k \in 1 .. N : from[k] = i
      /\ \A k, l \in 1 .. N : k < l => from[k] < from[l]
      /\ N \in Nat /\ R \in Nat /\ n \in 1 .. N
  BY DEF Picks
<1> HIDE DEF N, R
<1>2. from[n] - 1 \in 1 .. R
  BY <1>1
<1>3. PICK k \in 1 .. N : from[k] = from[n] - 1
  BY <1>1, <1>2
<1>4. k < n
  <2>1. ~ (n < k) /\ n # k
    BY <1>1, <1>3
  <2> QED
    BY <1>1, <2>1
<1>5. ~ (k + 1 < n)
  <2> SUFFICES ASSUME k + 1 < n PROVE FALSE
    OBVIOUS
  <2>1. k + 1 \in 1 .. N /\ k < k + 1
    BY <1>1
  <2>2. from[k] < from[k + 1] /\ from[k + 1] < from[n]
    BY <1>1, <2>1
  <2>3. from[k + 1] \in Int /\ from[n] \in Int
    BY <1>1, <2>1
  <2> QED
    BY <1>3, <2>2, <2>3
<1>6. k = n - 1
  BY <1>1, <1>4, <1>5
<1> QED
  BY <1>1, <1>3, <1>4, <1>6

-----------------------------------------------------------------------------
(* The page says who said what.                                            *)
Read == [read: Nat, from: Nat]

(* The pieces an answer shows. *)
TextOf(a) == [k \in 1 .. a.read - a.from |-> a.from + k]

LEMMA TextEmpty ==
  ASSUME NEW a \in Read, a.read = a.from
  PROVE  TextOf(a) = <<>>
<1>1. 1 .. a.read - a.from = {}
  BY DEF Read
<1> QED
  BY <1>1 DEF TextOf

LEMMA TextGrows ==
  ASSUME NEW a \in Read, NEW b \in Read, a.from <= a.read, b.from = a.from, b.read = a.read + 1
  PROVE  TextOf(a) \in Seq(Nat) /\ TextOf(b) = Append(TextOf(a), b.read)
<1> DEFINE n == a.read - a.from
<1>1. n \in Nat /\ b.read - b.from = n + 1 /\ b.read = a.from + (n + 1) /\ a.from \in Nat
  BY DEF Read
<1>2. /\ TextOf(a) = [k \in 1 .. n |-> a.from + k]
      /\ TextOf(b) = [k \in 1 .. n + 1 |-> a.from + k]
  BY <1>1 DEF TextOf
<1> HIDE DEF n
<1>3. TextOf(a) \in Seq(Nat) /\ Len(TextOf(a)) = n
  BY <1>1, <1>2
<1>4. Append(TextOf(a), b.read) = [k \in 1 .. n + 1 |-> IF k = n + 1 THEN b.read ELSE TextOf(a)[k]]
  BY <1>1, <1>3
<1>5. ASSUME NEW k \in 1 .. n + 1 PROVE (IF k = n + 1 THEN b.read ELSE TextOf(a)[k]) = a.from + k
  BY <1>1, <1>2
<1> QED
  BY <1>2, <1>3, <1>4, <1>5, ZenonT(30)

NoTwice(rows) ==
  \A i, j \in 1 .. Len(rows) : rows[i].role = rows[j].role /\ rows[i].of = rows[j].of => i = j

(* Nothing is read or posted any more for the sends of what is saved.      *)
Done == {"refused", "aborted", "over", "left"}

Settled(rows, turnOf, answerOf) ==
  /\ NoTwice(rows)
  /\ \A i \in 1 .. Len(rows) :
       /\ rows[i].of \in Sends /\ turnOf[rows[i].of] \in Done
       /\ rows[i].role = "assistant" => rows[i].text = TextOf(answerOf[rows[i].of])

LEMMA StaysSettled ==
  ASSUME NEW rows, NEW t, NEW a, NEW u, NEW b, Settled(rows, t, a),
         \A p \in Sends : t[p] \in Done => u[p] \in Done /\ b[p] = a[p]
  PROVE  Settled(rows, u, b)
BY DEF Settled

PageTyped ==
  /\ messages \in Seq(Message) /\ loaded \in Seq(Message)
  /\ saving \in Seq(Message) /\ saved \in Seq(Message)
  /\ answer \in [Sends -> Read] /\ wiped \subseteq Sends /\ calm \in BOOLEAN

(* An answer has pieces when its send is read. *)
Pieces ==
  \A p \in Sends :
    /\ answer[p].from <= answer[p].read
    /\ turn[p] \in {"new", "posting"} => answer[p].read = 0

(* There is one POST at a time, and none while a stream is read. *)
OneAtATime ==
  /\ \A p, q \in Posting : p = q
  /\ \A p \in Sends : turn[p] = "reading" => chatStatus = "streaming" /\ Posting = {}

(* Only a POST has a pending answer, and no other. *)
Named ==
  \A i \in 1 .. Len(messages) :
    IF messages[i].of = Pending
    THEN messages[i].role = "assistant" /\ messages[i].text = <<>> /\ Posting # {}
    ELSE /\ messages[i].of \in Sends /\ turn[messages[i].of] # "new"
         /\ turn[messages[i].of] = "posting" => messages[i].role = "user"

(* The answer that a POST waits for is on the page, behind its prompt, and *)
(* so is one that is read; unless the load has wiped them.                 *)
Awaited ==
  /\ \A p \in Posting \ wiped :
       \E i \in 2 .. Len(messages) : messages[i].of = Pending /\ messages[i - 1] = User(p)
  /\ \A p \in Sends :
       turn[p] = "reading" =>
         \/ p \in wiped /\ answer[p].read = answer[p].from
         \/ \E i \in 1 .. Len(messages) : messages[i].role = "assistant" /\ messages[i].of = p

Texts ==
  \A i \in 1 .. Len(messages) :
    messages[i].role = "assistant" /\ messages[i].of # Pending =>
      messages[i].text = TextOf(answer[messages[i].of])

LoadedFirst ==
  loading = "done" =>
    \A i \in 1 .. Len(loaded) : i \in 1 .. Len(messages) /\ messages[i] = loaded[i]

PromptsShown ==
  \A p \in Mine \ wiped :
    turn[p] # "refused" => \E i \in 1 .. Len(messages) : messages[i] = User(p)

AnswersBehind ==
  \A i \in 1 .. Len(messages) :
    messages[i].role = "assistant" /\ messages[i].of \in Mine \ wiped =>
      i > 1 /\ messages[i - 1] = User(messages[i].of)

Shown ==
  /\ OneAtATime /\ Named /\ Awaited /\ NoTwice(messages)
  /\ Texts /\ LoadedFirst /\ PromptsShown /\ AnswersBehind

RowsSettled ==
  /\ Settled(loaded, turn, answer) /\ Settled(saving, turn, answer) /\ Settled(saved, turn, answer)

ChatInv ==
  /\ PageInv /\ PageTyped /\ Pieces
  /\ loading = "get" => loaded = <<>>
  /\ \A p \in wiped : turn[p] # "new"
  /\ calm => Shown /\ RowsSettled

LEMMA ShownSound == ChatInv => ChatSound
<1> SUFFICES ASSUME ChatInv PROVE ChatSound
  OBVIOUS
<1>1. OneStream
  BY DEF ChatInv, PageInv, OneStream
<1> SUFFICES ASSUME calm PROVE TextInOrder /\ SentInOrder
  BY <1>1 DEF ChatSound
<1> USE DEF ChatInv, PageTyped, Shown
<1>2. DOMAIN messages = 1 .. Len(messages) /\ Len(messages) \in Nat /\ Len(loaded) \in Nat
  OBVIOUS
<1>3. TextInOrder
  BY <1>2 DEF TextInOrder, Texts, TextOf
<1>4. loading = "done" => IsPrefix(loaded, messages)
  <2> SUFFICES ASSUME loading = "done" PROVE IsPrefix(loaded, messages)
    OBVIOUS
  <2>1. \A i \in 1 .. Len(loaded) : i \in 1 .. Len(messages) /\ messages[i] = loaded[i]
    BY DEF LoadedFirst
  <2>2. Len(loaded) <= Len(messages)
    BY <1>2, <2>1
  <2>3. SubSeq(loaded, 1, Len(loaded)) = SubSeq(messages, 1, Len(loaded))
    BY <1>2, <2>1, <2>2
  <2> QED
    BY <2>2, <2>3 DEF IsPrefix
<1>5. \A p \in Mine \ wiped : turn[p] # "refused" => User(p) \in ToSet(messages)
  BY <1>2 DEF PromptsShown, ToSet
<1>6. ASSUME NEW i \in DOMAIN messages
      PROVE  /\ \A j \in DOMAIN messages :
                  messages[i].role = messages[j].role /\ messages[i].of = messages[j].of => i = j
             /\ messages[i].role = "assistant" /\ messages[i].of \in (Mine \ wiped)
                   => i > 1 /\ messages[i - 1] = User(messages[i].of)
  BY <1>2 DEF NoTwice, AnswersBehind
<1> QED
  BY <1>3, <1>4, <1>5, <1>6 DEF SentInOrder

LEMMA ChatInvInit == ChatInit => ChatInv
<1> SUFFICES ASSUME ChatInit PROVE ChatInv
  OBVIOUS
<1> USE DEF ChatInit
<1>1. PageInv
  BY PageInit
<1>2. PageTyped /\ Pieces
  <2>1. messages = <<>> /\ loaded = <<>> /\ saving = <<>> /\ saved = <<>>
    BY DEF NoSave
  <2>2. \A p \in Sends : answer[p] \in Read /\ answer[p].read = 0 /\ answer[p].from = 0
    BY DEF Read
  <2>3. answer \in [Sends -> Read]
    BY <2>2
  <2> QED
    BY <2>1, <2>2, <2>3 DEF PageTyped, Pieces
<1>3. messages = <<>> /\ Len(messages) = 0 /\ loaded = <<>> /\ saving = <<>> /\ saved = <<>>
  BY DEF NoSave
<1>4. \A p \in Sends : turn[p] = "new"
  OBVIOUS
<1>5. Shown
  BY <1>3, <1>4 DEF Shown, OneAtATime, Named, Awaited, NoTwice, Texts, LoadedFirst, PromptsShown,
                    AnswersBehind, Posting, Mine
<1>6. RowsSettled
  BY <1>3 DEF RowsSettled, Settled, NoTwice
<1> QED
  BY <1>1, <1>2, <1>4, <1>5, <1>6 DEF ChatInv

(* What moves no answer and no message: a stream that ends.                *)
Ending == {"aborted", "over"}

LEMMA ShownWhenStreamsEnd ==
  ASSUME ChatInv, calm, turn' \in [Sends -> Turns],
         \A p \in Sends : turn'[p] # turn[p] =>
           turn[p] \in {"reading", "failed", "aborted"} /\ turn'[p] \in Ending,
         \A p \in Sends : turn'[p] = "reading" => chatStatus' = "streaming",
         UNCHANGED <<messages, answer, loaded, wiped>>, loading' = "done" => loading = "done"
  PROVE  Shown'
<1> USE DEF ChatInv, Shown, Ending, Turns
<1>1. /\ turn \in [Sends -> Turns] /\ Shown
      /\ messages' = messages /\ answer' = answer /\ loaded' = loaded /\ wiped' = wiped
  BY DEF PageInv
<1>2. \A p \in Sends : /\ turn'[p] = "posting" <=> turn[p] = "posting"
                       /\ turn'[p] = "new" <=> turn[p] = "new"
                       /\ turn'[p] = "left" <=> turn[p] = "left"
                       /\ turn'[p] = "refused" <=> turn[p] = "refused"
                       /\ turn'[p] = "reading" => turn[p] = "reading"
  BY <1>1
<1>3. Posting' = Posting /\ Mine' = Mine
  BY <1>2 DEF Posting, Mine
<1>4. OneAtATime'
  BY <1>1, <1>2, <1>3 DEF OneAtATime
<1>5. Named'
  BY <1>1, <1>2, <1>3 DEF Named
<1>6. Awaited'
  BY <1>1, <1>2, <1>3 DEF Awaited
<1>7. NoTwice(messages)' /\ Texts'
  BY <1>1 DEF NoTwice, Texts
<1>8. LoadedFirst'
  BY <1>1 DEF LoadedFirst
<1>9. PromptsShown' /\ AnswersBehind'
  <2>1. \A p \in Mine : p \in Sends
    BY DEF Mine
  <2>2. PromptsShown'
    BY <1>1, <1>2, <1>3, <2>1 DEF PromptsShown
  <2>3. AnswersBehind'
    BY <1>1, <1>3 DEF AnswersBehind
  <2> QED
    BY <2>2, <2>3
<1> QED
  BY <1>4, <1>5, <1>6, <1>7, <1>8, <1>9

LEMMA StaysAllSettled ==
  ASSUME RowsSettled,
         \A p \in Sends : turn[p] \in Done => turn'[p] \in Done /\ answer'[p] = answer[p],
         loaded' \in {loaded, saved, <<>>}, saving' \in {saving, <<>>}, saved' \in {saved, saving}
  PROVE  RowsSettled'
<1>1. /\ Settled(loaded, turn', answer') /\ Settled(saving, turn', answer')
      /\ Settled(saved, turn', answer')
  BY StaysSettled DEF RowsSettled
<1>2. Settled(<<>>, turn', answer')
  BY DEF Settled, NoTwice
<1>3. Settled(loaded', turn', answer') /\ Settled(saving', turn', answer') /\ Settled(saved', turn', answer')
  BY <1>1, <1>2
<1> QED
  BY <1>3 DEF RowsSettled, Settled, NoTwice

(* A page that becomes ready when nothing is under way can be saved.       *)
LEMMA ReadyIsSettled ==
  ASSUME ChatInv, calm, \A p \in Sends : turn'[p] \notin {"posting", "reading", "failed"},
         \A p \in Sends : turn'[p] # turn[p] =>
           turn[p] \in {"reading", "failed", "aborted"} /\ turn'[p] \in Ending,
         turn' \in [Sends -> Turns], UNCHANGED answer
  PROVE  Settled(messages, turn', answer')
<1> USE DEF ChatInv, Shown, Ending, Turns
<1>1. Posting = {} /\ \A p \in Sends : turn'[p] = "new" => turn[p] = "new"
  BY DEF Posting, PageInv
<1>2. ASSUME NEW i \in 1 .. Len(messages)
      PROVE  /\ messages[i].of \in Sends /\ turn'[messages[i].of] \in Done
             /\ messages[i].role = "assistant" => messages[i].text = TextOf(answer'[messages[i].of])
  <2>1. messages[i].of # Pending /\ messages[i].of \in Sends /\ turn[messages[i].of] # "new"
    BY <1>1 DEF Named
  <2>2. turn'[messages[i].of] \in Done
    BY <1>1, <2>1 DEF Done
  <2> QED
    BY <2>1, <2>2 DEF Texts
<1> QED
  BY <1>2 DEF Settled

LEMMA NextSendIsNew == CanSend => NextSend \in Sends /\ turn[NextSend] = "new"
<1> SUFFICES ASSUME CanSend PROVE NextSend \in Sends /\ turn[NextSend] = "new"
  OBVIOUS
<1> DEFINE fresh == {p \in Sends : turn[p] = "new"}
<1>1. MaxSends \in Nat /\ fresh \in SUBSET (1 .. MaxSends) /\ fresh # {}
  BY ChatAssumption DEF CanSend, Sends
<1>2. \E p \in fresh : \A q \in fresh : p <= q
  <2> HIDE DEF fresh
  <2>1. /\ Cardinality(fresh) \in Nat
        /\ \A i \in fresh : Rank(fresh, i) \in 1 .. Cardinality(fresh)
        /\ \A i, j \in fresh : i < j => Rank(fresh, i) < Rank(fresh, j)
    BY <1>1, RankOrder
  <2>2. 1 \in 1 .. Cardinality(fresh)
    <3>1. PICK p \in fresh : TRUE
      BY <1>1
    <3>2. Rank(fresh, p) \in 1 .. Cardinality(fresh)
      BY <2>1, <3>1
    <3> QED
      BY <2>1, <3>2
  <2>3. PICK p \in fresh : Rank(fresh, p) = 1
    BY <1>1, <2>2, RankOnto
  <2>4. ASSUME NEW q \in fresh PROVE ~ (q < p)
    <3>1. Rank(fresh, q) >= 1 /\ Rank(fresh, q) \in Nat
      BY <2>1
    <3> QED
      BY <2>1, <2>3, <3>1
  <2>5. ASSUME NEW q \in fresh PROVE p <= q
    <3>1. p \in Nat /\ q \in Nat
      BY <1>1
    <3> QED
      BY <2>4, <3>1
  <2> QED
    BY <2>5
<1> QED
  BY <1>2 DEF NextSend

LEMMA RenamedMessage ==
  ASSUME NEW m \in Message, NEW p \in Nat
  PROVE  /\ [m EXCEPT !.of = p] \in Message /\ [m EXCEPT !.of = p].of = p
         /\ [m EXCEPT !.of = p].role = m.role /\ [m EXCEPT !.of = p].text = m.text
BY DEF Message

LEMMA MessagePut ==
  ASSUME NEW rows \in Seq(Message), NEW i \in 1 .. Len(rows), NEW m \in Message
  PROVE  [rows EXCEPT ![i] = m] \in Seq(Message) /\ Len([rows EXCEPT ![i] = m]) = Len(rows)
OBVIOUS

(* A piece goes to the message at i, and no other.                         *)
LEMMA PieceAdded ==
  ASSUME NEW rows \in Seq(Message), NEW i, NEW piece \in Nat, NEW new,
         new = [rows EXCEPT ![i].text = Append(@, piece)]
  PROVE  /\ new \in Seq(Message) /\ Len(new) = Len(rows)
         /\ \A j \in 1 .. Len(rows) : j # i => new[j] = rows[j]
         /\ i \in 1 .. Len(rows) =>
              /\ new[i].role = rows[i].role /\ new[i].of = rows[i].of
              /\ new[i].text = Append(rows[i].text, piece)
<1> DEFINE grown == [rows[i] EXCEPT !.text = Append(rows[i].text, piece)]
<1>1. new = [rows EXCEPT ![i] = grown]
  OBVIOUS
<1>2. ASSUME i \in 1 .. Len(rows)
      PROVE  /\ grown \in Message /\ grown.role = rows[i].role /\ grown.of = rows[i].of
             /\ grown.text = Append(rows[i].text, piece)
  <2>1. rows[i] \in Message
    BY <1>2
  <2>2. Append(rows[i].text, piece) \in Seq(Nat)
    BY <2>1 DEF Message
  <2> QED
    BY <2>1, <2>2 DEF Message
<1> HIDE DEF grown
<1>3. CASE i \in 1 .. Len(rows)
  <2>1. new[i] = grown
    BY <1>1, <1>3
  <2>2. \A j \in 1 .. Len(rows) : j # i => new[j] = rows[j]
    BY <1>1, <1>3
  <2>3. grown \in Message
    BY <1>2, <1>3
  <2>4. new \in Seq(Message) /\ Len(new) = Len(rows)
    <3>1. [rows EXCEPT ![i] = grown] \in Seq(Message) /\ Len([rows EXCEPT ![i] = grown]) = Len(rows)
      BY <1>3, <2>3, MessagePut
    <3> QED
      BY <1>1, <3>1
  <2> QED
    BY <1>2, <1>3, <2>1, <2>2, <2>4
<1>4. CASE i \notin 1 .. Len(rows)
  <2>1. new = rows
    BY <1>1, <1>4
  <2> QED
    BY <1>4, <2>1
<1> QED
  BY <1>3, <1>4

LEMMA MessagesTyped ==
  ASSUME ChatInv, [ChatNext]_chatVars
  PROVE  messages' \in Seq(Message)
<1> USE DEF ChatInv, PageTyped
<1>1. \A p \in Nat : User(p) \in Message /\ Assistant(p, <<>>) \in Message
  BY DEF User, Assistant, Message
<1>2. CASE UNCHANGED messages
  BY <1>2
<1>3. ASSUME NEW prompted \in BOOLEAN, OpenPage(prompted) PROVE messages' \in Seq(Message)
  <2>1. messages' = <<>> \/ (CanSend /\ messages' = <<User(NextSend), Assistant(0, <<>>)>>)
    BY <1>3 DEF OpenPage, Mounted, Pending
  <2>2. CanSend => User(NextSend) \in Message /\ Assistant(0, <<>>) \in Message
    BY <1>1, NextSendIsNew DEF Sends
  <2>3. CanSend => <<User(NextSend), Assistant(0, <<>>)>> \in Seq(Message)
    BY <2>2
  <2>4. <<>> \in Seq(Message)
    OBVIOUS
  <2> QED
    BY <2>1, <2>3, <2>4
<1>4. CASE GetMessages \/ LoadFails \/ StopRun \/ Stopped \/ Saved
  BY <1>2, <1>4 DEF GetMessages, LoadFails, StopRun, Stopped, Saved
<1>5. CASE ShowLoaded
  BY <1>5 DEF ShowLoaded
<1>6. CASE Submit
  <2>1. CanSend /\ messages' = messages \o <<User(NextSend), Assistant(0, <<>>)>>
    BY <1>6 DEF Submit, Pending
  <2>2. User(NextSend) \in Message /\ Assistant(0, <<>>) \in Message
    BY <1>1, <2>1, NextSendIsNew DEF Sends
  <2>3. <<User(NextSend), Assistant(0, <<>>)>> \in Seq(Message)
    BY <2>2
  <2> QED
    BY <2>1, <2>3
<1>7. ASSUME NEW p \in Sends, PostFails(p) \/ ReadError(p) PROVE messages' \in Seq(Message)
  <2>1. PICK gone : messages' = Without(gone)
    BY <1>7 DEF PostFails, ReadError
  <2> QED
    BY <2>1, WithoutFacts
<1>8. ASSUME NEW p \in Sends, PostAnswered(p) PROVE messages' \in Seq(Message)
  <2>1. messages' = [i \in 1 .. Len(messages) |->
                       IF messages[i].of = Pending THEN [messages[i] EXCEPT !.of = p] ELSE messages[i]]
    BY <1>8 DEF PostAnswered, Renamed
  <2>2. \A i \in 1 .. Len(messages) : messages[i] \in Message
    OBVIOUS
  <2>3. \A m \in Message : [m EXCEPT !.of = p] \in Message
    <3>1. p \in Nat
      BY DEF Sends
    <3> QED
      BY <3>1, RenamedMessage
  <2>4. messages' \in [1 .. Len(messages) -> Message]
    BY <2>1, <2>2, <2>3
  <2> QED
    BY <2>4, SMTT(30)
<1>9. ASSUME NEW p \in Sends, ReadPiece(p) PROVE messages' \in Seq(Message)
  <2> DEFINE piece == answer[p].read + 1
  <2> DEFINE i == Place(p)
  <2>1. messages' = IF i = 0 THEN Append(messages, Assistant(p, <<piece>>))
                    ELSE [messages EXCEPT ![i].text = Append(@, piece)]
    BY <1>9 DEF ReadPiece
  <2>2. piece \in Nat
    BY DEF Read
  <2> HIDE DEF i, piece
  <2>3. Assistant(p, <<piece>>) \in Message
    BY <2>2 DEF Assistant, Message, Sends
  <2>5. [messages EXCEPT ![i].text = Append(@, piece)] \in Seq(Message)
    BY <2>2, PieceAdded
  <2>6. Append(messages, Assistant(p, <<piece>>)) \in Seq(Message)
    BY <2>3
  <2> QED
    BY <2>1, <2>5, <2>6
<1>10. ASSUME NEW p \in Sends, AbortSeen(p) \/ StreamEnds(p) \/ StreamBreaks(p)
       PROVE  messages' \in Seq(Message)
  BY <1>2, <1>10 DEF AbortSeen, StreamEnds, StreamBreaks
<1>11. CASE UNCHANGED chatVars
  BY <1>2, <1>11 DEF chatVars
<1> QED
  BY <1>3, <1>4, <1>5, <1>6, <1>7, <1>8, <1>9, <1>10, <1>11 DEF ChatNext

LEMMA AnswersTyped ==
  ASSUME ChatInv, [ChatNext]_chatVars
  PROVE  answer' \in [Sends -> Read] /\ Pieces'
<1>1. /\ answer \in [Sends -> Read] /\ turn \in [Sends -> Turns] /\ turn' \in [Sends -> Turns]
      /\ \A p \in Sends : /\ answer[p] \in Read /\ answer[p].from <= answer[p].read
                          /\ turn[p] \in {"new", "posting"} => answer[p].read = 0
  BY PageStep DEF ChatInv, PageTyped, Pieces, PageInv
<1>2. ASSUME UNCHANGED answer, \A p \in Sends : turn'[p] \in {"new", "posting"} => turn[p] \in {"new", "posting"}
      PROVE  answer' \in [Sends -> Read] /\ Pieces'
  BY <1>1, <1>2 DEF Pieces
<1>3. ASSUME NEW prompted \in BOOLEAN, OpenPage(prompted)
      PROVE  answer' \in [Sends -> Read] /\ Pieces'
  <2>1. /\ UNCHANGED answer
        /\ \A p \in Sends : turn'[p] \in {"new", "posting"} => turn[p] = "new"
    BY <1>3 DEF OpenPage
  <2> QED
    BY <1>2, <2>1
<1>4. CASE GetMessages \/ LoadFails \/ Stopped \/ Saved \/ UNCHANGED chatVars
  BY <1>2, <1>4 DEF GetMessages, LoadFails, Stopped, Saved, chatVars
<1>5. CASE ShowLoaded
  <2>1. /\ answer' = [p \in Sends |->
                       IF p \in Reading THEN [answer[p] EXCEPT !.from = answer[p].read] ELSE answer[p]]
        /\ turn' = turn
    BY <1>5 DEF ShowLoaded
  <2>2. \A a \in Read : /\ [a EXCEPT !.from = a.read] \in Read
                       /\ [a EXCEPT !.from = a.read].from = a.read
                       /\ [a EXCEPT !.from = a.read].read = a.read
    BY DEF Read
  <2>3. \A a \in Read : a.read <= a.read
    BY DEF Read
  <2>4. \A p \in Sends : answer'[p] \in Read /\ answer'[p].from <= answer'[p].read
                                           /\ answer'[p].read = answer[p].read
    BY <1>1, <2>1, <2>2, <2>3
  <2>5. answer' \in [Sends -> Read]
    BY <2>1, <2>4
  <2> QED
    BY <1>1, <2>1, <2>4, <2>5 DEF Pieces
<1>6. CASE Submit
  BY <1>1, <1>2, <1>6, NextSendIsNew DEF Submit
<1>7. CASE StopRun
  BY <1>1, <1>2, <1>7 DEF StopRun
<1>8. ASSUME NEW p \in Sends, PostAnswered(p)
      PROVE  answer' \in [Sends -> Read] /\ Pieces'
  BY <1>1, <1>2, <1>8 DEF PostAnswered, Followed
<1>9. ASSUME NEW p \in Sends, PostFails(p) \/ AbortSeen(p) \/ ReadError(p) \/ StreamEnds(p) \/ StreamBreaks(p)
      PROVE  answer' \in [Sends -> Read] /\ Pieces'
  BY <1>1, <1>2, <1>9 DEF PostFails, AbortSeen, ReadError, StreamEnds, StreamBreaks
<1>10. ASSUME NEW p \in Sends, ReadPiece(p)
       PROVE  answer' \in [Sends -> Read] /\ Pieces'
  <2>1. turn[p] = "reading" /\ turn' = turn /\ answer' = [answer EXCEPT ![p].read = answer[p].read + 1]
    BY <1>10 DEF ReadPiece
  <2>2. \A a \in Read : /\ [a EXCEPT !.read = a.read + 1] \in Read
                       /\ [a EXCEPT !.read = a.read + 1].from = a.from
                       /\ [a EXCEPT !.read = a.read + 1].read = a.read + 1
    BY DEF Read
  <2>3. \A a \in Read : a.from <= a.read => a.from <= a.read + 1
    BY DEF Read
  <2>4. /\ answer' = [answer EXCEPT ![p] = [answer[p] EXCEPT !.read = answer[p].read + 1]]
    BY <1>1, <2>1
  <2>5. \A q \in Sends \ {p} : answer'[q] = answer[q]
    BY <1>1, <2>4
  <2>6. answer'[p] \in Read /\ answer'[p].from <= answer'[p].read
    BY <1>1, <2>2, <2>3, <2>4
  <2>7. answer' \in [Sends -> Read]
    BY <1>1, <2>4, <2>6
  <2> QED
    BY <1>1, <2>1, <2>5, <2>6, <2>7 DEF Pieces
<1> QED
  BY <1>3, <1>4, <1>5, <1>6, <1>7, <1>8, <1>9, <1>10 DEF ChatNext

LEMMA RowsTyped ==
  ASSUME ChatInv, [ChatNext]_chatVars
  PROVE  /\ loaded' \in Seq(Message) /\ saving' \in Seq(Message) /\ saved' \in Seq(Message)
         /\ calm' \in BOOLEAN /\ (loading' = "get" => loaded' = <<>>)
<1>1. /\ loaded \in Seq(Message) /\ saving \in Seq(Message) /\ saved \in Seq(Message)
      /\ messages \in Seq(Message) /\ calm \in BOOLEAN /\ (loading = "get" => loaded = <<>>)
  BY DEF ChatInv, PageTyped
<1>2. <<>> \in Seq(Message)
  OBVIOUS
<1> USE <1>1, <1>2
<1>3. ASSUME NEW prompted \in BOOLEAN, OpenPage(prompted)
      PROVE  /\ loaded' = <<>> /\ saving' = <<>> /\ saved' \in {saved, saving} /\ calm' = calm
  BY <1>3 DEF OpenPage, Mounted, NoSave
<1>4. CASE GetMessages \/ LoadFails \/ ShowLoaded \/ Saved
  BY <1>4 DEF GetMessages, LoadFails, ShowLoaded, Saved, NoSave
<1>5. CASE UNCHANGED chatVars
  BY <1>5 DEF chatVars
<1>6. CASE StopRun \/ Stopped \/ Submit
  BY <1>6 DEF StopRun, Stopped, Submit, BecomesReady
<1>7. ASSUME NEW p \in Sends,
             \/ PostFails(p) \/ PostAnswered(p) \/ AbortSeen(p)
             \/ ReadPiece(p) \/ ReadError(p) \/ StreamEnds(p) \/ StreamBreaks(p)
      PROVE  /\ loaded' = loaded /\ loading' = loading /\ saving' \in {saving, messages}
             /\ saved' = saved /\ calm' \in BOOLEAN
  BY <1>7 DEF PostFails, PostAnswered, AbortSeen, ReadPiece, ReadError, StreamEnds, StreamBreaks,
              BecomesReady
<1> QED
  BY <1>3, <1>4, <1>5, <1>6, <1>7 DEF ChatNext

LEMMA WipedWereSent ==
  ASSUME ChatInv, [ChatNext]_chatVars
  PROVE  wiped' \subseteq Sends /\ \A p \in wiped' : turn'[p] # "new"
<1>1. /\ turn \in [Sends -> Turns] /\ wiped \subseteq Sends /\ \A p \in wiped : turn[p] # "new"
  BY DEF ChatInv, PageTyped, PageInv
<1>2. ASSUME UNCHANGED wiped, \A p \in Sends : turn'[p] = "new" => turn[p] = "new"
      PROVE  wiped' \subseteq Sends /\ \A p \in wiped' : turn'[p] # "new"
  BY <1>1, <1>2
<1>3. ASSUME NEW prompted \in BOOLEAN, OpenPage(prompted)
      PROVE  UNCHANGED wiped /\ \A p \in Sends : turn'[p] = "new" => turn[p] = "new"
  BY <1>3 DEF OpenPage
<1>4. CASE GetMessages \/ LoadFails \/ Stopped \/ Saved \/ UNCHANGED chatVars
  BY <1>1, <1>4 DEF GetMessages, LoadFails, Stopped, Saved, chatVars
<1>5. CASE ShowLoaded
  BY <1>1, <1>5 DEF ShowLoaded, Mine
<1>6. CASE Submit \/ StopRun
  BY <1>1, <1>2, <1>6 DEF Submit, StopRun
<1>7. ASSUME NEW p \in Sends,
             \/ PostFails(p) \/ PostAnswered(p) \/ AbortSeen(p)
             \/ ReadPiece(p) \/ ReadError(p) \/ StreamEnds(p) \/ StreamBreaks(p)
      PROVE  UNCHANGED wiped /\ \A q \in Sends : turn'[q] = "new" => turn[q] = "new"
  BY <1>1, <1>7 DEF PostFails, PostAnswered, Followed, AbortSeen, ReadPiece, ReadError, StreamEnds, StreamBreaks
<1> QED
  BY <1>2, <1>3, <1>4, <1>5, <1>6, <1>7 DEF ChatNext

(* One lemma for each kind of step of a page that is calm. *)
LEMMA OpenShows ==
  ASSUME ChatInv, calm, NEW prompted \in BOOLEAN, OpenPage(prompted)
  PROVE  Shown' /\ RowsSettled'
<1> DEFINE n == NextSend
<1>1. /\ turn \in [Sends -> Turns] /\ MaxSends \in Nat /\ RowsSettled
  BY ChatAssumption DEF ChatInv, PageInv
<1>2. /\ prompted => n \in Sends /\ turn[n] = "new"
      /\ turn' = [p \in Sends |->
                    IF turn[p] = "new" THEN IF prompted /\ p = n THEN "posting" ELSE "new" ELSE "left"]
      /\ loading' = "get" /\ loaded' = <<>> /\ saving' = <<>> /\ saved' \in {saved, saving}
      /\ answer' = answer /\ wiped' = wiped
      /\ messages' = IF prompted THEN <<User(n), Assistant(0, <<>>)>> ELSE <<>>
  BY NextSendIsNew DEF OpenPage, Mounted, NoSave, Pending
<1> HIDE DEF n
<1>3. \A p \in Sends : /\ turn'[p] = "posting" <=> prompted /\ p = n
                       /\ turn'[p] \in {"new", "left"} \/ turn'[p] = "posting"
  BY <1>1, <1>2
<1>4. Posting' = (IF prompted THEN {n} ELSE {}) /\ Mine' = Posting'
  BY <1>2, <1>3 DEF Posting, Mine
<1>5. OneAtATime'
  BY <1>3, <1>4 DEF OneAtATime
<1>6. RowsSettled'
  BY <1>1, <1>2, StaysAllSettled DEF Done
<1>7. LoadedFirst'
  BY <1>2 DEF LoadedFirst
<1>8. CASE ~ prompted
  <2>1. messages' = <<>> /\ Len(messages') = 0 /\ Posting' = {} /\ Mine' = {}
    BY <1>2, <1>4, <1>8
  <2>2. Named' /\ NoTwice(messages)' /\ Texts' /\ AnswersBehind' /\ PromptsShown'
    BY <2>1 DEF Named, NoTwice, Texts, AnswersBehind, PromptsShown
  <2>3. Awaited'
    BY <1>3, <2>1 DEF Awaited
  <2> QED
    BY <1>5, <1>6, <1>7, <2>2, <2>3 DEF Shown
<1>9. CASE prompted
  <2>1. /\ messages' = <<User(n), Assistant(0, <<>>)>> /\ Len(messages') = 2
        /\ messages'[1] = User(n) /\ messages'[2] = Assistant(0, <<>>)
        /\ \A i \in 1 .. 2 : i = 1 \/ i = 2
    BY <1>2, <1>9
  <2>2. /\ messages'[1].role = "user" /\ messages'[1].of = n
        /\ messages'[2].role = "assistant" /\ messages'[2].of = 0 /\ messages'[2].text = <<>>
    BY <2>1 DEF User, Assistant
  <2>3. n \in Sends /\ n # 0 /\ turn'[n] = "posting" /\ Posting' = {n} /\ Mine' = {n}
    BY <1>2, <1>3, <1>4, <1>9 DEF Sends
  <2>4. Named' /\ NoTwice(messages)' /\ Texts' /\ AnswersBehind'
    BY <2>1, <2>2, <2>3 DEF Named, NoTwice, Texts, AnswersBehind, Pending, Sends
  <2>5. Awaited' /\ PromptsShown'
    <3>1. 2 \in 2 .. Len(messages') /\ 2 - 1 = 1 /\ 1 \in 1 .. Len(messages')
      BY <2>1
    <3> QED
      BY <1>3, <2>1, <2>2, <2>3, <3>1 DEF Awaited, PromptsShown, Pending
  <2> QED
    BY <1>5, <1>6, <1>7, <2>4, <2>5 DEF Shown
<1> QED
  BY <1>8, <1>9

LEMMA LoadShows ==
  ASSUME ChatInv, calm, ShowLoaded
  PROVE  Shown' /\ RowsSettled'
<1>1. /\ turn \in [Sends -> Turns] /\ answer \in [Sends -> Read]
      /\ loaded \in Seq(Message) /\ Len(loaded) \in Nat
      /\ OneAtATime /\ RowsSettled /\ Settled(loaded, turn, answer)
  BY DEF ChatInv, PageInv, PageTyped, Shown, RowsSettled
<1>2. /\ messages' = loaded /\ loaded' = loaded /\ turn' = turn /\ wiped' = wiped \cup Mine
      /\ saving' = saving /\ saved' = saved /\ chatStatus' = chatStatus
      /\ answer' = [p \in Sends |->
                      IF p \in Reading THEN [answer[p] EXCEPT !.from = answer[p].read] ELSE answer[p]]
  BY DEF ShowLoaded
<1>3. /\ Posting' = Posting /\ Mine' = Mine /\ Mine' \ wiped' = {} /\ Posting' \ wiped' = {}
  BY <1>2 DEF Posting, Mine
<1>4. \A p \in Sends : turn[p] \in Done => answer'[p] = answer[p] /\ turn'[p] \in Done
  BY <1>2 DEF Reading, Done
<1>5. RowsSettled'
  BY <1>1, <1>2, <1>4, StaysAllSettled
<1>6. Settled(messages', turn', answer')
  BY <1>1, <1>2, <1>4, StaysSettled
<1>7. /\ NoTwice(messages)'
      /\ \A i \in 1 .. Len(messages') :
           /\ messages'[i].of \in Sends /\ turn'[messages'[i].of] \in Done
           /\ messages'[i].role = "assistant" => messages'[i].text = TextOf(answer'[messages'[i].of])
  BY <1>6 DEF Settled, NoTwice
<1>8. OneAtATime'
  BY <1>1, <1>2, <1>3 DEF OneAtATime
<1>9. Named' /\ Texts'
  BY <1>7 DEF Named, Texts, Done, Pending, Sends
<1>10. Awaited'
  <2>1. ASSUME NEW p \in Sends, turn'[p] = "reading" PROVE p \in wiped' /\ answer'[p].read = answer'[p].from
    <3>1. p \in Mine /\ p \in Reading
      BY <1>2, <2>1 DEF Mine, Reading
    <3>2. answer'[p] = [answer[p] EXCEPT !.from = answer[p].read] /\ answer[p] \in Read
      BY <1>1, <1>2, <3>1
    <3> QED
      BY <1>2, <3>1, <3>2 DEF Read
  <2> QED
    BY <1>3, <2>1 DEF Awaited
<1>11. LoadedFirst'
  BY <1>2 DEF LoadedFirst
<1>12. PromptsShown' /\ AnswersBehind'
  BY <1>3 DEF PromptsShown, AnswersBehind
<1> QED
  BY <1>5, <1>7, <1>8, <1>9, <1>10, <1>11, <1>12 DEF Shown

LEMMA SubmitShows ==
  ASSUME ChatInv, calm, calm', Submit
  PROVE  Shown' /\ RowsSettled'
<1> DEFINE n == NextSend
<1> DEFINE L == Len(messages)
<1>1. /\ turn \in [Sends -> Turns] /\ messages \in Seq(Message) /\ L \in Nat /\ MaxSends \in Nat
      /\ Shown /\ RowsSettled
  BY ChatAssumption DEF ChatInv, PageInv, PageTyped
<1>2. /\ n \in Sends /\ turn[n] = "new" /\ turn' = [turn EXCEPT ![n] = "posting"]
      /\ chatStatus # "streaming" /\ Posting = {}
      /\ messages' = messages \o <<User(n), Assistant(0, <<>>)>>
      /\ answer' = answer /\ wiped' = wiped /\ loading' = loading /\ loaded' = loaded
      /\ saving' = saving /\ saved' = saved
  BY NextSendIsNew DEF Submit, Pending, Loading
<1>3. n \notin wiped
  BY <1>2 DEF ChatInv
<1> HIDE DEF n
<1>4. /\ Posting' = {n} /\ Mine' = Mine \cup {n} /\ n \notin Mine /\ n \in Nat /\ n # 0
  BY <1>1, <1>2 DEF Posting, Mine, Sends
<1>5. /\ Len(messages') = L + 2
      /\ \A i \in 1 .. L : messages'[i] = messages[i]
      /\ messages'[L + 1] = User(n) /\ messages'[L + 2] = Assistant(0, <<>>)
  BY <1>1, <1>2
<1>6. /\ messages'[L + 1].role = "user" /\ messages'[L + 1].of = n
      /\ messages'[L + 2].role = "assistant" /\ messages'[L + 2].of = 0 /\ messages'[L + 2].text = <<>>
  BY <1>5 DEF User, Assistant
<1> HIDE DEF L
<1>7. \A i \in 1 .. Len(messages') : i \in 1 .. L \/ i = L + 1 \/ i = L + 2
  BY <1>1, <1>5
<1>8. 1 .. L \subseteq 1 .. Len(messages') /\ L + 2 \in 2 .. Len(messages') /\ (L + 2) - 1 = L + 1
      /\ L + 1 \in 1 .. Len(messages') /\ L + 2 > 1 /\ L + 1 \notin 1 .. L /\ L + 2 \notin 1 .. L
  BY <1>1, <1>5
<1>9. \A i \in 1 .. L :
        /\ messages[i].of # 0 /\ messages[i].of \in Sends /\ messages[i].of # n
        /\ turn[messages[i].of] # "new" /\ turn[messages[i].of] # "posting"
  BY <1>1, <1>2 DEF Shown, Named, Posting, Pending, L
<1>10. RowsSettled'
  BY <1>1, <1>2, StaysAllSettled DEF Done
<1>11. OneAtATime'
  BY <1>1, <1>2, <1>4 DEF Shown, OneAtATime
<1>12. Named'
  BY <1>1, <1>2, <1>4, <1>5, <1>6, <1>7, <1>9 DEF Named, Pending
<1>13. Awaited'
  <2>1. \A p \in Sends : turn'[p] # "reading"
    BY <1>1, <1>2 DEF Shown, OneAtATime
  <2> QED
    BY <1>4, <1>5, <1>6, <1>8, <2>1 DEF Awaited, Pending
<1>14. NoTwice(messages)'
  <2>1. \A i, j \in 1 .. L : messages[i].role = messages[j].role /\ messages[i].of = messages[j].of => i = j
    BY <1>1 DEF Shown, NoTwice, L
  <2>2. \A i \in 1 .. L : messages'[i].of # n /\ messages'[i].of # 0
    BY <1>5, <1>9
  <2> QED
    BY <1>4, <1>5, <1>6, <1>7, <2>1, <2>2 DEF NoTwice
<1>15. Texts'
  BY <1>1, <1>2, <1>5, <1>6, <1>7 DEF Shown, Texts, Pending, L
<1>16. LoadedFirst'
  BY <1>1, <1>2, <1>5, <1>8 DEF Shown, LoadedFirst, L
<1>17. PromptsShown'
  <2>1. ASSUME NEW p \in Mine \ wiped, turn'[p] # "refused"
        PROVE  \E i \in 1 .. Len(messages') : messages'[i] = User(p)
    <3>1. turn[p] # "refused"
      BY <1>2, <1>4, <2>1 DEF Mine
    <3>2. PICK i \in 1 .. L : messages[i] = User(p)
      BY <1>1, <2>1, <3>1 DEF Shown, PromptsShown, L
    <3> QED
      BY <1>5, <1>8, <3>2
  <2>2. \E i \in 1 .. Len(messages') : messages'[i] = User(n)
    BY <1>5, <1>8
  <2> QED
    BY <1>2, <1>4, <2>1, <2>2 DEF PromptsShown
<1>18. AnswersBehind'
  <2>1. ASSUME NEW i \in 1 .. L, messages[i].role = "assistant", messages[i].of \in Mine \ wiped
        PROVE  i > 1 /\ messages[i - 1] = User(messages[i].of) /\ messages'[i - 1] = messages[i - 1]
    <3>1. i > 1 /\ messages[i - 1] = User(messages[i].of)
      BY <1>1, <2>1 DEF Shown, AnswersBehind, L
    <3>2. i - 1 \in 1 .. L
      BY <1>1, <3>1
    <3> QED
      BY <1>5, <3>1, <3>2
  <2>2. 0 \notin Mine'
    BY <1>1 DEF Mine, Sends
  <2> QED
    BY <1>2, <1>4, <1>5, <1>6, <1>7, <1>9, <2>1, <2>2 DEF AnswersBehind
<1> QED
  BY <1>10, <1>11, <1>12, <1>13, <1>14, <1>15, <1>16, <1>17, <1>18 DEF Shown

LEMMA AnswerShows ==
  ASSUME ChatInv, calm, NEW n \in Sends, PostAnswered(n)
  PROVE  Shown' /\ RowsSettled'
<1> DEFINE L == Len(messages)
<1>1. /\ turn \in [Sends -> Turns] /\ messages \in Seq(Message) /\ L \in Nat /\ MaxSends \in Nat
      /\ answer \in [Sends -> Read] /\ Shown /\ RowsSettled /\ Settled(loaded, turn, answer)
  BY ChatAssumption DEF ChatInv, PageInv, PageTyped, RowsSettled
<1>2. /\ turn[n] = "posting" /\ turn' = Followed(n) /\ chatStatus' = "streaming"
      /\ messages' = [i \in 1 .. L |-> IF messages[i].of = 0 THEN [messages[i] EXCEPT !.of = n] ELSE messages[i]]
      /\ answer' = answer /\ wiped' = wiped /\ loading' = loading /\ loaded' = loaded
      /\ saving' = saving /\ saved' = saved
  BY <1>1 DEF PostAnswered, Posting, Renamed, Pending
<1>3. /\ \A p \in Sends : turn[p] # "reading"
      /\ \A p \in Sends : turn[p] = "posting" <=> p = n
  BY <1>1, <1>2 DEF Shown, OneAtATime, Posting
<1>4. /\ turn'[n] = "reading"
      /\ \A p \in Sends : p # n => turn'[p] = turn[p] \/ (turn[p] = "failed" /\ turn'[p] = "aborted")
  BY <1>1, <1>2, <1>3 DEF Followed, Reading
<1>5. Posting' = {} /\ Mine' = Mine /\ n \in Nat /\ n # 0
  BY <1>2, <1>3, <1>4 DEF Posting, Mine, Sends
<1>6. /\ Len(messages') = L
      /\ \A i \in 1 .. L : messages[i].of # 0 => messages'[i] = messages[i]
  BY <1>1, <1>2
<1>7. \A i \in 1 .. L : messages[i].of = 0 =>
        /\ messages[i].role = "assistant" /\ messages[i].text = <<>>
        /\ messages'[i].of = n /\ messages'[i].role = "assistant" /\ messages'[i].text = <<>>
  <2> SUFFICES ASSUME NEW i \in 1 .. L, messages[i].of = 0
               PROVE  /\ messages[i].role = "assistant" /\ messages[i].text = <<>>
                      /\ messages'[i].of = n /\ messages'[i].role = "assistant" /\ messages'[i].text = <<>>
    OBVIOUS
  <2>1. messages[i].role = "assistant" /\ messages[i].text = <<>> /\ messages[i] \in Message
    BY <1>1 DEF Shown, Named, Pending
  <2>2. messages'[i] = [messages[i] EXCEPT !.of = n]
    BY <1>2
  <2> QED
    BY <1>5, <2>1, <2>2, RenamedMessage
<1>8. \A i \in 1 .. L : messages[i].of # 0 =>
        /\ messages[i].of \in Sends /\ turn[messages[i].of] # "new"
        /\ messages[i].of = n => messages[i].role = "user"
  BY <1>1, <1>2 DEF Shown, Named, Pending
<1> HIDE DEF L
<1>9. \A p \in Sends : turn[p] \in Done => turn'[p] \in Done /\ answer'[p] = answer[p]
  BY <1>2, <1>3, <1>4 DEF Done
<1>10. RowsSettled'
  BY <1>1, <1>2, <1>9, StaysAllSettled
<1>11. OneAtATime'
  BY <1>2, <1>3, <1>4, <1>5 DEF OneAtATime
<1>12. Named'
  <2>1. ASSUME NEW i \in 1 .. L
        PROVE  messages'[i].of # 0 /\ messages'[i].of \in Sends /\ turn[messages'[i].of] # "new"
    <3>1. CASE messages[i].of = 0
      BY <1>2, <1>5, <1>7, <3>1
    <3>2. CASE messages[i].of # 0
      BY <1>6, <1>8, <3>2
    <3> QED
      BY <3>1, <3>2
  <2>2. \A p \in Sends : turn'[p] # "posting" /\ (turn[p] # "new" => turn'[p] # "new")
    BY <1>3, <1>4
  <2> QED
    BY <1>6, <2>1, <2>2 DEF Named, Pending
<1>13. Awaited'
  <2>1. CASE n \in wiped
    <3>1. answer[n] \in Read /\ answer[n].read = 0 /\ answer[n].from <= 0
      BY <1>1, <1>2 DEF ChatInv, Pieces
    <3>2. answer'[n].read = answer'[n].from
      BY <1>2, <3>1 DEF Read
    <3> QED
      BY <1>2, <1>3, <1>4, <1>5, <2>1, <3>2 DEF Awaited
  <2>2. CASE n \notin wiped
    <3>1. PICK i \in 2 .. L : messages[i].of = 0
      BY <1>1, <1>2, <2>2 DEF Shown, Awaited, Posting, Pending, L
    <3>2. i \in 1 .. Len(messages') /\ messages'[i].role = "assistant" /\ messages'[i].of = n
      BY <1>1, <1>6, <1>7, <3>1
    <3> QED
      BY <1>3, <1>4, <1>5, <3>2 DEF Awaited
  <2> QED
    BY <2>1, <2>2
<1>14. NoTwice(messages)'
  <2>1. \A i, j \in 1 .. L : messages[i].role = messages[j].role /\ messages[i].of = messages[j].of => i = j
    BY <1>1 DEF Shown, NoTwice, L
  <2>2. ASSUME NEW i \in 1 .. L, NEW j \in 1 .. L,
               messages'[i].role = messages'[j].role, messages'[i].of = messages'[j].of
        PROVE  messages[i].role = messages[j].role /\ messages[i].of = messages[j].of
    BY <1>5, <1>6, <1>7, <1>8, <2>2
  <2> QED
    BY <1>6, <2>1, <2>2 DEF NoTwice
<1>15. Texts'
  <2>1. TextOf(answer[n]) = <<>>
    <3>1. answer[n] \in Read /\ answer[n].read = 0 /\ answer[n].from <= 0
      BY <1>1, <1>2 DEF ChatInv, Pieces
    <3>2. answer[n].read = answer[n].from
      BY <3>1 DEF Read
    <3> QED
      BY <3>1, <3>2, TextEmpty
  <2>2. \A i \in 1 .. L : messages[i].role = "assistant" /\ messages[i].of # 0 =>
          messages[i].text = TextOf(answer[messages[i].of])
    BY <1>1 DEF Shown, Texts, Pending, L
  <2> QED
    BY <1>2, <1>6, <1>7, <2>1, <2>2 DEF Texts
<1>16. LoadedFirst'
  <2>1. \A i \in 1 .. Len(loaded) : loaded[i].of \in Sends /\ 0 \notin Sends
    BY <1>1 DEF Settled, Sends
  <2> QED
    BY <1>1, <1>2, <1>6, <2>1 DEF Shown, LoadedFirst, L
<1>17. PromptsShown'
  <2>1. ASSUME NEW p \in Mine \ wiped, turn'[p] # "refused"
        PROVE  \E i \in 1 .. Len(messages') : messages'[i] = User(p)
    <3>1. turn[p] # "refused" /\ p # 0
      BY <1>2, <1>4, <2>1 DEF Mine, Sends
    <3>2. PICK i \in 1 .. L : messages[i] = User(p)
      BY <1>1, <2>1, <3>1 DEF Shown, PromptsShown, L
    <3>3. messages[i].of = p
      BY <3>2 DEF User
    <3> QED
      BY <1>6, <3>1, <3>2, <3>3
  <2> QED
    BY <1>2, <1>5, <2>1 DEF PromptsShown
<1>18. AnswersBehind'
  <2>1. ASSUME NEW i \in 1 .. L, NEW p \in Sends, i > 1, messages[i - 1] = User(p)
        PROVE  messages'[i - 1] = User(p)
    <3>1. i - 1 \in 1 .. L /\ messages[i - 1].of = p /\ p # 0
      BY <1>1, <2>1 DEF User, Sends
    <3> QED
      BY <1>6, <2>1, <3>1
  <2>2. ASSUME NEW i \in 1 .. L, messages'[i].role = "assistant", messages'[i].of \in Mine \ wiped
        PROVE  i > 1 /\ messages[i - 1] = User(messages'[i].of)
    <3>1. CASE messages[i].of # 0
      BY <1>1, <1>6, <2>2, <3>1 DEF Shown, AnswersBehind, L
    <3>2. CASE messages[i].of = 0
      <4>1. messages'[i].of = n /\ n \notin wiped
        BY <1>7, <2>2, <3>2
      <4>2. PICK k \in 2 .. L : messages[k].of = 0 /\ messages[k - 1] = User(n)
        BY <1>1, <1>2, <4>1 DEF Shown, Awaited, Posting, Pending, L
      <4>3. k \in 1 .. L /\ k > 1
        BY <1>1, <4>2
      <4>4. k = i
        BY <1>1, <1>7, <3>2, <4>2, <4>3 DEF Shown, NoTwice, L
      <4> QED
        BY <4>1, <4>2, <4>3, <4>4
    <3> QED
      BY <3>1, <3>2
  <2>3. \A p \in Mine : p \in Sends
    BY DEF Mine
  <2> QED
    <3>1. \A i \in 1 .. L : messages'[i].role = "assistant" /\ messages'[i].of \in Mine \ wiped
            => i > 1 /\ messages'[i - 1] = User(messages'[i].of)
      BY <2>1, <2>2, <2>3
    <3> QED
      BY <1>2, <1>5, <1>6, <3>1 DEF AnswersBehind
<1> QED
  BY <1>10, <1>11, <1>12, <1>13, <1>14, <1>15, <1>16, <1>17, <1>18 DEF Shown

(* Taking messages away keeps what the others say, and who is behind whom. *)
LEMMA WithoutShows ==
  ASSUME ChatInv, calm, NEW gone, messages' = Without(gone), UNCHANGED <<answer, loaded, loading>>,
         \A i \in 1 .. Len(messages) :
           messages[i] \in gone => ~ (messages[i].of \in Sends /\ turn[messages[i].of] \in Done)
  PROVE  /\ NoTwice(messages)' /\ Texts' /\ LoadedFirst'
         /\ \A i \in 1 .. Len(messages') : \E k \in 1 .. Len(messages) :
              /\ messages'[i] = messages[k] /\ messages[k] \notin gone
              /\ k > 1 /\ messages[k - 1] \notin gone => i > 1 /\ messages'[i - 1] = messages[k - 1]
         /\ \A k \in 1 .. Len(messages) :
              messages[k] \notin gone => \E i \in 1 .. Len(messages') : messages'[i] = messages[k]
<1> DEFINE L == Len(messages)
<1> DEFINE N == Len(messages')
<1>1. /\ messages \in Seq(Message) /\ L \in Nat /\ Shown /\ loaded \in Seq(Message)
      /\ Settled(loaded, turn, answer)
  BY DEF ChatInv, PageTyped, RowsSettled
<1>2. PICK from : Picks(from, messages', messages, gone)
  BY <1>1, WithoutFacts
<1>3. N \in Nat
  <2>1. messages' \in Seq(Message)
    BY <1>1, WithoutFacts
  <2> QED
    BY <2>1
<1>4. /\ from \in [1 .. N -> 1 .. L]
      /\ \A n \in 1 .. N : messages'[n] = messages[from[n]] /\ messages[from[n]] \notin gone
      /\ \A i \in 1 .. L : messages[i] \notin gone => \E n \in 1 .. N : from[n] = i
      /\ \A m, n \in 1 .. N : m < n => from[m] < from[n]
      /\ \A k \in 1 .. L : (\A i \in 1 .. k : messages[i] \notin gone) => k <= N /\ from[k] = k
  BY <1>2 DEF Picks
<1>5. \A n \in 1 .. N : from[n] > 1 /\ messages[from[n] - 1] \notin gone
                         => n > 1 /\ messages'[n - 1] = messages[from[n] - 1]
  <2> SUFFICES ASSUME NEW n \in 1 .. N, from[n] > 1, messages[from[n] - 1] \notin gone
               PROVE  n > 1 /\ messages'[n - 1] = messages[from[n] - 1]
    OBVIOUS
  <2> QED
    BY <1>1, <1>2, <1>3, PicksNeighbours
<1> HIDE DEF L, N
<1>6. NoTwice(messages)'
  <2>1. ASSUME NEW m \in 1 .. N, NEW n \in 1 .. N,
               messages'[m].role = messages'[n].role, messages'[m].of = messages'[n].of
        PROVE  m = n
    <3>1. from[m] \in 1 .. L /\ from[n] \in 1 .. L
      BY <1>4
    <3>2. from[m] = from[n]
      BY <1>1, <1>4, <2>1, <3>1, SMTT(30) DEF Shown, NoTwice, L
    <3>3. from[m] \in Int /\ ~ (from[m] < from[n]) /\ ~ (from[n] < from[m])
      BY <3>1, <3>2
    <3>4. ~ (m < n) /\ ~ (n < m)
      BY <1>4, <3>3
    <3> QED
      BY <1>3, <3>4
  <2> QED
    BY <2>1 DEF NoTwice, N
<1>7. Texts'
  BY <1>1, <1>4 DEF Shown, Texts, L, N
<1>8. LoadedFirst'
  <2> SUFFICES ASSUME loading = "done", NEW i \in 1 .. Len(loaded)
               PROVE  i \in 1 .. N /\ messages'[i] = loaded[i]
    BY DEF LoadedFirst, N
  <2>1. \A j \in 1 .. Len(loaded) : j \in 1 .. L /\ messages[j] = loaded[j] /\ messages[j] \notin gone
    BY <1>1 DEF Shown, LoadedFirst, Settled, L
  <2>2. 1 .. i \subseteq 1 .. Len(loaded) /\ i >= 1 /\ i \in Nat
    BY <1>1
  <2>3. i <= N /\ from[i] = i /\ i \in 1 .. L
    BY <1>4, <2>1, <2>2
  <2>4. i \in 1 .. N
    BY <1>3, <2>2, <2>3
  <2> QED
    BY <1>4, <2>1, <2>3, <2>4
<1>9. ASSUME NEW i \in 1 .. N
      PROVE  \E k \in 1 .. L :
               /\ messages'[i] = messages[k] /\ messages[k] \notin gone
               /\ k > 1 /\ messages[k - 1] \notin gone => i > 1 /\ messages'[i - 1] = messages[k - 1]
  <2>1. from[i] \in 1 .. L
    BY <1>4
  <2> QED
    BY <1>4, <1>5, <2>1
<1>10. ASSUME NEW k \in 1 .. L, messages[k] \notin gone
       PROVE  \E i \in 1 .. N : messages'[i] = messages[k]
  BY <1>4, <1>10
<1> QED
  BY <1>6, <1>7, <1>8, <1>9, <1>10 DEF L, N

LEMMA FailShows ==
  ASSUME ChatInv, calm, NEW n \in Sends, PostFails(n)
  PROVE  Shown' /\ RowsSettled'
<1> DEFINE gone == {User(n)} \cup AnswersOf(Pending)
<1> DEFINE L == Len(messages)
<1>1. /\ turn \in [Sends -> Turns] /\ messages \in Seq(Message) /\ L \in Nat
      /\ Shown /\ RowsSettled /\ MaxSends \in Nat
  BY ChatAssumption DEF ChatInv, PageInv, PageTyped
<1>2. /\ turn[n] = "posting" /\ turn' = [turn EXCEPT ![n] = "refused"]
      /\ messages' = Without(gone) /\ answer' = answer /\ wiped' = wiped
      /\ loading' = loading /\ loaded' = loaded /\ saving' = saving /\ saved' = saved
  BY DEF PostFails, Posting
<1>3. /\ \A p \in Sends : turn[p] # "reading"
      /\ \A p \in Sends : turn[p] = "posting" <=> p = n
  BY <1>1, <1>2 DEF Shown, OneAtATime, Posting
<1>4. Posting' = {} /\ Mine' = Mine /\ 0 \notin Sends
  BY <1>1, <1>2, <1>3 DEF Posting, Mine, Sends
<1>5. \A i \in 1 .. L :
        /\ messages[i] \in gone => messages[i].of = 0 \/ messages[i].of = n
        /\ messages[i].of = 0 => messages[i] \in gone
  <2>1. \A m \in AnswersOf(Pending) : m.of = 0
    BY DEF AnswersOf, Pending
  <2>2. User(n).of = n
    BY DEF User
  <2>3. \A i \in 1 .. L : messages[i].of = 0 => messages[i].role = "assistant"
    BY <1>1 DEF Shown, Named, Pending
  <2>4. \A i \in 1 .. L : messages[i] \in ToSet(messages)
    BY <1>1 DEF ToSet
  <2>5. \A i \in 1 .. L : messages[i].of = 0 => messages[i] \in AnswersOf(Pending)
    BY <2>3, <2>4 DEF AnswersOf, Pending
  <2> HIDE DEF L
  <2> QED
    BY <2>1, <2>2, <2>5
<1>6. \A p \in Sends : p # n => User(p) \notin gone
  <2> SUFFICES ASSUME NEW p \in Sends, p # n PROVE User(p) \notin gone
    OBVIOUS
  <2>1. User(p) # User(n) /\ User(p).role = "user"
    BY DEF User
  <2>2. User(p) \notin AnswersOf(Pending)
    BY <2>1 DEF AnswersOf
  <2> QED
    BY <2>1, <2>2
<1>7. \A i \in 1 .. L : messages[i] \in gone => ~ (messages[i].of \in Sends /\ turn[messages[i].of] \in Done)
  BY <1>2, <1>4, <1>5 DEF Done
<1> HIDE DEF gone
<1>8. /\ NoTwice(messages)' /\ Texts' /\ LoadedFirst'
      /\ \A i \in 1 .. Len(messages') : \E k \in 1 .. L :
           /\ messages'[i] = messages[k] /\ messages[k] \notin gone
           /\ k > 1 /\ messages[k - 1] \notin gone => i > 1 /\ messages'[i - 1] = messages[k - 1]
      /\ \A k \in 1 .. L :
           messages[k] \notin gone => \E i \in 1 .. Len(messages') : messages'[i] = messages[k]
  BY <1>2, <1>7, WithoutShows
<1> HIDE DEF L
<1>9. RowsSettled'
  <2>1. \A p \in Sends : turn[p] \in Done => turn'[p] \in Done /\ answer'[p] = answer[p]
    BY <1>1, <1>2 DEF Done
  <2> QED
    BY <1>1, <1>2, <2>1, StaysAllSettled
<1>10. OneAtATime' /\ Awaited'
  <2>1. \A p \in Sends : turn'[p] # "reading"
    BY <1>1, <1>2, <1>3
  <2> QED
    BY <1>4, <2>1 DEF OneAtATime, Awaited
<1>11. Named'
  <2>1. ASSUME NEW i \in 1 .. Len(messages')
        PROVE  messages'[i].of # 0 /\ messages'[i].of \in Sends /\ turn[messages'[i].of] # "new"
    <3>1. PICK k \in 1 .. L : messages'[i] = messages[k] /\ messages[k] \notin gone
      BY <1>8
    <3>2. messages[k].of # 0
      BY <1>5, <3>1
    <3> QED
      BY <1>1, <3>1, <3>2 DEF Shown, Named, Pending, L
  <2>2. \A p \in Sends : turn'[p] # "posting" /\ (turn[p] # "new" => turn'[p] # "new")
    BY <1>1, <1>2, <1>3
  <2> QED
    BY <2>1, <2>2 DEF Named, Pending
<1>12. PromptsShown'
  <2>1. ASSUME NEW p \in Mine \ wiped, turn'[p] # "refused"
        PROVE  \E i \in 1 .. Len(messages') : messages'[i] = User(p)
    <3>1. p \in Sends /\ p # n /\ turn[p] # "refused"
      BY <1>1, <1>2, <2>1 DEF Mine
    <3>2. PICK k \in 1 .. L : messages[k] = User(p)
      BY <1>1, <2>1, <3>1 DEF Shown, PromptsShown, L
    <3> QED
      BY <1>6, <1>8, <3>1, <3>2
  <2> QED
    BY <1>2, <1>4, <2>1 DEF PromptsShown
<1>13. AnswersBehind'
  <2>1. ASSUME NEW i \in 1 .. Len(messages'), messages'[i].role = "assistant",
               messages'[i].of \in Mine \ wiped
        PROVE  i > 1 /\ messages'[i - 1] = User(messages'[i].of)
    <3>1. PICK k \in 1 .. L :
            /\ messages'[i] = messages[k] /\ messages[k] \notin gone
            /\ k > 1 /\ messages[k - 1] \notin gone => i > 1 /\ messages'[i - 1] = messages[k - 1]
      BY <1>8
    <3>2. k > 1 /\ messages[k - 1] = User(messages[k].of)
      BY <1>1, <2>1, <3>1 DEF Shown, AnswersBehind, L
    <3>3. messages[k].of \in Sends /\ messages[k].of # n
      BY <1>1, <1>2, <1>4, <2>1, <3>1 DEF Shown, Named, Pending, Mine, L
    <3> QED
      BY <1>6, <3>1, <3>2, <3>3
  <2> QED
    BY <1>2, <1>4, <2>1 DEF AnswersBehind
<1> QED
  BY <1>8, <1>9, <1>10, <1>11, <1>12, <1>13 DEF Shown

LEMMA ErrorShows ==
  ASSUME ChatInv, calm, NEW n \in Sends, ReadError(n)
  PROVE  Shown' /\ RowsSettled'
<1> DEFINE gone == AnswersOf(n)
<1> DEFINE L == Len(messages)
<1>1. /\ turn \in [Sends -> Turns] /\ messages \in Seq(Message) /\ L \in Nat
      /\ Shown /\ RowsSettled /\ MaxSends \in Nat /\ \A p \in Reading : p = controller
  BY ChatAssumption DEF ChatInv, PageInv, PageTyped
<1>2. /\ turn[n] = "reading" /\ turn' = [turn EXCEPT ![n] = "failed"]
      /\ messages' = Without(gone) /\ answer' = answer /\ wiped' = wiped
      /\ loading' = loading /\ loaded' = loaded /\ saving' = saving /\ saved' = saved
  BY DEF ReadError
<1>3. /\ \A p \in Sends : turn[p] = "reading" => p = n
      /\ \A p \in Sends : turn[p] # "posting"
  BY <1>1, <1>2 DEF Shown, OneAtATime, Posting, Reading
<1>4. Posting' = {} /\ Mine' = Mine /\ 0 \notin Sends /\ Posting = {}
  BY <1>1, <1>2, <1>3 DEF Posting, Mine, Sends
<1>5. /\ \A i \in 1 .. L : messages[i] \in gone => messages[i].of = n
      /\ \A p \in Sends : User(p) \notin gone
      /\ \A i \in 1 .. L : messages[i].role = "assistant" /\ messages[i].of = n => messages[i] \in gone
  <2>1. \A i \in 1 .. L : messages[i] \in ToSet(messages)
    BY <1>1 DEF ToSet
  <2>2. \A p \in Sends : User(p).role = "user"
    BY DEF User
  <2> HIDE DEF L
  <2> QED
    BY <2>1, <2>2 DEF AnswersOf
<1>6. \A i \in 1 .. L : messages[i] \in gone => ~ (messages[i].of \in Sends /\ turn[messages[i].of] \in Done)
  BY <1>2, <1>5 DEF Done
<1> HIDE DEF gone
<1>7. /\ NoTwice(messages)' /\ Texts' /\ LoadedFirst'
      /\ \A i \in 1 .. Len(messages') : \E k \in 1 .. L :
           /\ messages'[i] = messages[k] /\ messages[k] \notin gone
           /\ k > 1 /\ messages[k - 1] \notin gone => i > 1 /\ messages'[i - 1] = messages[k - 1]
      /\ \A k \in 1 .. L :
           messages[k] \notin gone => \E i \in 1 .. Len(messages') : messages'[i] = messages[k]
  BY <1>2, <1>6, WithoutShows
<1> HIDE DEF L
<1>8. RowsSettled'
  <2>1. \A p \in Sends : turn[p] \in Done => turn'[p] \in Done /\ answer'[p] = answer[p]
    BY <1>1, <1>2 DEF Done
  <2> QED
    BY <1>1, <1>2, <2>1, StaysAllSettled
<1>9. OneAtATime' /\ Awaited'
  <2>1. \A p \in Sends : turn'[p] # "reading"
    BY <1>1, <1>2, <1>3
  <2> QED
    BY <1>4, <2>1 DEF OneAtATime, Awaited
<1>10. Named'
  <2>1. ASSUME NEW i \in 1 .. Len(messages')
        PROVE  messages'[i].of # 0 /\ messages'[i].of \in Sends /\ turn[messages'[i].of] # "new"
    <3>1. PICK k \in 1 .. L : messages'[i] = messages[k]
      BY <1>7
    <3> QED
      BY <1>1, <1>4, <3>1 DEF Shown, Named, Pending, L
  <2>2. \A p \in Sends : turn'[p] # "posting" /\ (turn[p] # "new" => turn'[p] # "new")
    BY <1>1, <1>2, <1>3
  <2> QED
    BY <2>1, <2>2 DEF Named, Pending
<1>11. PromptsShown'
  <2>1. ASSUME NEW p \in Mine \ wiped, turn'[p] # "refused"
        PROVE  \E i \in 1 .. Len(messages') : messages'[i] = User(p)
    <3>1. p \in Sends /\ turn[p] # "refused"
      BY <1>1, <1>2, <2>1 DEF Mine
    <3>2. PICK k \in 1 .. L : messages[k] = User(p)
      BY <1>1, <2>1, <3>1 DEF Shown, PromptsShown, L
    <3> QED
      BY <1>5, <1>7, <3>1, <3>2, SMTT(30)
  <2> QED
    BY <1>2, <1>4, <2>1 DEF PromptsShown
<1>12. AnswersBehind'
  <2>1. ASSUME NEW i \in 1 .. Len(messages'), messages'[i].role = "assistant",
               messages'[i].of \in Mine \ wiped
        PROVE  i > 1 /\ messages'[i - 1] = User(messages'[i].of)
    <3>1. PICK k \in 1 .. L :
            /\ messages'[i] = messages[k] /\ messages[k] \notin gone
            /\ k > 1 /\ messages[k - 1] \notin gone => i > 1 /\ messages'[i - 1] = messages[k - 1]
      BY <1>7
    <3>2. k > 1 /\ messages[k - 1] = User(messages[k].of)
      BY <1>1, <2>1, <3>1 DEF Shown, AnswersBehind, L
    <3>3. messages[k].of \in Sends
      BY <2>1, <3>1 DEF Mine
    <3> QED
      BY <1>5, <3>1, <3>2, <3>3
  <2> QED
    BY <1>2, <1>4, <2>1 DEF AnswersBehind
<1> QED
  BY <1>7, <1>8, <1>9, <1>10, <1>11, <1>12 DEF Shown

LEMMA PieceShows ==
  ASSUME ChatInv, calm, NEW n \in Sends, ReadPiece(n)
  PROVE  Shown' /\ RowsSettled'
<1> DEFINE L == Len(messages)
<1> DEFINE at == {j \in 1 .. L : messages[j].role = "assistant" /\ messages[j].of = n}
<1> DEFINE piece == answer[n].read + 1
<1>1. /\ turn \in [Sends -> Turns] /\ messages \in Seq(Message) /\ L \in Nat /\ answer \in [Sends -> Read]
      /\ Shown /\ RowsSettled /\ MaxSends \in Nat /\ n \in Nat /\ n # 0 /\ DOMAIN messages = 1 .. L
      /\ answer[n].from <= answer[n].read /\ answer[n] \in Read
  BY ChatAssumption DEF ChatInv, PageInv, PageTyped, Pieces, Sends
<1>2. /\ turn[n] = "reading" /\ turn' = turn
      /\ answer' = [answer EXCEPT ![n].read = piece]
      /\ wiped' = wiped /\ chatStatus' = chatStatus
      /\ loading' = loading /\ loaded' = loaded /\ saving' = saving /\ saved' = saved
      /\ messages' = IF Place(n) = 0 THEN Append(messages, Assistant(n, <<piece>>))
                     ELSE [messages EXCEPT ![Place(n)].text = Append(@, piece)]
  BY DEF ReadPiece
<1>3. /\ \A p \in Sends : p # n => answer'[p] = answer[p]
      /\ answer'[n] \in Read /\ answer'[n].read = piece /\ answer'[n].from = answer[n].from /\ piece \in Nat
  <2>1. answer' = [answer EXCEPT ![n] = [answer[n] EXCEPT !.read = piece]]
    BY <1>1, <1>2
  <2>2. piece \in Nat
    BY <1>1 DEF Read
  <2> HIDE DEF piece
  <2>3. /\ [answer[n] EXCEPT !.read = piece] \in Read
        /\ [answer[n] EXCEPT !.read = piece].read = piece
        /\ [answer[n] EXCEPT !.read = piece].from = answer[n].from
    BY <1>1, <2>2 DEF Read
  <2> QED
    BY <1>1, <2>1, <2>2, <2>3
<1>4. Posting' = Posting /\ Mine' = Mine /\ Posting = {} /\ 0 \notin Sends
  BY <1>1, <1>2 DEF Posting, Mine, Sends, Shown, OneAtATime
<1>5. RowsSettled'
  <2>1. \A p \in Sends : turn[p] \in Done => turn'[p] \in Done /\ answer'[p] = answer[p]
    BY <1>2, <1>3 DEF Done
  <2> QED
    BY <1>1, <1>2, <2>1, StaysAllSettled
<1>6. OneAtATime'
  BY <1>1, <1>2, <1>4 DEF Shown, OneAtATime
<1>7. \A i \in 1 .. L :
        /\ messages[i].of # 0 /\ messages[i].of \in Sends /\ turn[messages[i].of] # "new"
        /\ turn[messages[i].of] # "posting"
  BY <1>1, <1>4 DEF Shown, Named, Pending, Posting
<1>8. /\ at = {} => Place(n) = 0
      /\ at # {} => Place(n) \in at /\ Place(n) # 0
  <2>1. Place(n) = IF at = {} THEN 0 ELSE CHOOSE i \in at : \A j \in at : i <= j
    BY <1>1 DEF Place
  <2>2. ASSUME NEW i \in at, NEW j \in at PROVE i = j
    BY <1>1 DEF Shown, NoTwice
  <2>3. at # {} => \E i \in at : \A j \in at : i <= j
    <3>1. \A i \in at : i <= i
      BY <1>1
    <3> HIDE DEF at
    <3> QED
      BY <2>2, <3>1
  <2>4. 0 \notin at
    OBVIOUS
  <2> HIDE DEF at
  <2> QED
    BY <2>1, <2>3, <2>4
<1>9. CASE at = {}
  <2>1. messages' = Append(messages, Assistant(n, <<piece>>))
    BY <1>2, <1>8, <1>9
  <2>2. n \in wiped /\ answer[n].read = answer[n].from
    BY <1>1, <1>2, <1>9 DEF Shown, Awaited
  <2> HIDE DEF L, piece
  <2>3. /\ Len(messages') = L + 1 /\ messages'[L + 1] = Assistant(n, <<piece>>)
        /\ \A i \in 1 .. L : messages'[i] = messages[i]
    BY <1>1, <2>1 DEF L
  <2>4. /\ messages'[L + 1].role = "assistant" /\ messages'[L + 1].of = n /\ messages'[L + 1].text = <<piece>>
    BY <2>3 DEF Assistant
  <2>5. /\ \A i \in 1 .. Len(messages') : i \in 1 .. L \/ i = L + 1
        /\ 1 .. L \subseteq 1 .. Len(messages') /\ L + 1 \in 1 .. Len(messages') /\ L + 1 \notin 1 .. L
    BY <1>1, <2>3
  <2>6. Named'
    BY <1>1, <1>2, <1>7, <2>3, <2>4, <2>5 DEF Named, Pending
  <2>7. Awaited'
    <3>1. \A p \in Sends : turn'[p] = "reading" => p = n
      BY <1>2 DEF ChatInv, PageInv, Reading
    <3> QED
      BY <1>4, <2>3, <2>4, <2>5, <3>1 DEF Awaited
  <2>8. NoTwice(messages)'
    <3>1. \A i, j \in 1 .. L : messages[i].role = messages[j].role /\ messages[i].of = messages[j].of => i = j
      BY <1>1 DEF Shown, NoTwice, L
    <3>2. \A i \in 1 .. L : ~ (messages[i].role = "assistant" /\ messages[i].of = n)
      BY <1>9
    <3> QED
      BY <2>3, <2>4, <2>5, <3>1, <3>2 DEF NoTwice
  <2>9. Texts'
    <3>1. TextOf(answer'[n]) = <<piece>>
      <4>1. TextOf(answer[n]) = <<>>
        BY <1>1, <2>2, TextEmpty
      <4>2. TextOf(answer'[n]) = Append(TextOf(answer[n]), answer'[n].read)
        <5>1. answer'[n].read = answer[n].read + 1
          BY <1>3 DEF piece
        <5> QED
          BY <1>1, <1>3, <5>1, TextGrows
      <4> QED
        BY <1>3, <4>1, <4>2
    <3>2. \A i \in 1 .. L : messages[i].role = "assistant" /\ messages[i].of # 0 =>
            messages[i].text = TextOf(answer[messages[i].of])
      BY <1>1 DEF Shown, Texts, Pending, L
    <3>3. \A i \in 1 .. L : messages[i].role = "assistant" => answer'[messages[i].of] = answer[messages[i].of]
      BY <1>3, <1>7, <1>9
    <3>4. \A i \in 1 .. L : messages'[i].role = "assistant" /\ messages'[i].of # 0 =>
            messages'[i].text = TextOf(answer'[messages'[i].of])
      BY <2>3, <3>2, <3>3
    <3> QED
      BY <2>4, <2>5, <3>1, <3>4 DEF Texts, Pending
  <2>10. LoadedFirst'
    BY <1>1, <1>2, <2>3, <2>5 DEF Shown, LoadedFirst, L
  <2>11. PromptsShown'
    <3>1. \A p \in Mine \ wiped : turn[p] # "refused" => \E i \in 1 .. L : messages[i] = User(p)
      BY <1>1 DEF Shown, PromptsShown, L
    <3> QED
      BY <1>2, <1>4, <2>3, <2>5, <3>1 DEF PromptsShown
  <2>12. AnswersBehind'
    <3>1. ASSUME NEW i \in 1 .. L, messages[i].role = "assistant", messages[i].of \in Mine \ wiped
          PROVE  i > 1 /\ messages'[i - 1] = User(messages[i].of)
      <4>1. i > 1 /\ messages[i - 1] = User(messages[i].of)
        BY <1>1, <3>1 DEF Shown, AnswersBehind, L
      <4>2. i - 1 \in 1 .. L
        BY <1>1, <4>1
      <4> QED
        BY <2>3, <4>1, <4>2
    <3>2. \A i \in 1 .. L : messages'[i].role = "assistant" /\ messages'[i].of \in Mine \ wiped
            => i > 1 /\ messages'[i - 1] = User(messages'[i].of)
      BY <2>3, <3>1
    <3> QED
      <4>1. \A i \in 1 .. Len(messages') : messages'[i].role = "assistant" /\ messages'[i].of \in Mine \ wiped
              => i \in 1 .. L
        BY <2>2, <2>4, <2>5
      <4> QED
        BY <1>2, <1>4, <3>2, <4>1 DEF AnswersBehind
  <2> QED
    BY <1>5, <1>6, <2>6, <2>7, <2>8, <2>9, <2>10, <2>11, <2>12 DEF Shown
<1>10. CASE at # {}
  <2> DEFINE i == Place(n)
  <2>1. /\ i \in 1 .. L /\ messages[i].role = "assistant" /\ messages[i].of = n
        /\ messages' = [messages EXCEPT ![i].text = Append(@, piece)]
    BY <1>2, <1>8, <1>10
  <2> HIDE DEF i, piece
  <2>2. /\ Len(messages') = L /\ \A j \in 1 .. L : j # i => messages'[j] = messages[j]
        /\ messages'[i].role = "assistant" /\ messages'[i].of = n
        /\ messages'[i].text = Append(messages[i].text, piece)
    BY <1>1, <1>3, <2>1, PieceAdded
  <2>3. \A j \in 1 .. L : messages'[j].role = messages[j].role /\ messages'[j].of = messages[j].of
    BY <2>1, <2>2
  <2> HIDE DEF L
  <2>4. Named'
    BY <1>2, <1>7, <2>2, <2>3 DEF Named, Pending
  <2>5. Awaited'
    <3>1. \A p \in Sends : turn'[p] = "reading" => p = n
      BY <1>2 DEF ChatInv, PageInv, Reading
    <3> QED
      BY <1>4, <2>1, <2>2, <3>1 DEF Awaited
  <2>6. NoTwice(messages)'
    BY <1>1, <2>2, <2>3 DEF Shown, NoTwice, L
  <2>7. Texts'
    <3>1. \A j \in 1 .. L : messages[j].role = "assistant" /\ messages[j].of # 0 =>
            messages[j].text = TextOf(answer[messages[j].of])
      BY <1>1 DEF Shown, Texts, Pending, L
    <3>2. messages'[i].text = TextOf(answer'[n])
      <4>1. messages[i].text = TextOf(answer[n])
        BY <1>1, <2>1, <3>1
      <4>2. answer'[n].read = answer[n].read + 1
        BY <1>3 DEF piece
      <4>3. TextOf(answer'[n]) = Append(TextOf(answer[n]), answer'[n].read)
        BY <1>1, <1>3, <4>2, TextGrows
      <4> QED
        BY <1>3, <2>2, <4>1, <4>3
    <3>3. ASSUME NEW j \in 1 .. L, j # i, messages[j].role = "assistant"
          PROVE  messages'[j].text = TextOf(answer'[messages'[j].of])
      <4>1. messages[j].of # n
        BY <1>1, <2>1, <3>3 DEF Shown, NoTwice, L
      <4>2. answer'[messages[j].of] = answer[messages[j].of] /\ messages[j].of # 0
        BY <1>3, <1>7, <4>1
      <4> QED
        BY <2>2, <3>1, <3>3, <4>2
    <3> QED
      BY <2>2, <2>3, <3>2, <3>3 DEF Texts
  <2>8. LoadedFirst'
    <3>1. \A j \in 1 .. Len(loaded) : loaded[j].of # n
      BY <1>1, <1>2 DEF RowsSettled, Settled, Done
    <3>2. loading = "done" => \A j \in 1 .. Len(loaded) : j \in 1 .. L /\ messages[j] = loaded[j]
      BY <1>1 DEF Shown, LoadedFirst, L
    <3>3. loading = "done" => \A j \in 1 .. Len(loaded) : j \in 1 .. L /\ messages'[j] = loaded[j]
      BY <2>1, <2>2, <3>1, <3>2
    <3> QED
      BY <1>2, <2>2, <3>3 DEF LoadedFirst
  <2>9. \A j \in 1 .. L, p \in Sends : messages[j] = User(p) => messages'[j] = User(p)
    <3>1. \A p \in Sends : User(p).role = "user"
      BY DEF User
    <3> QED
      BY <2>1, <2>2, <3>1
  <2>10. PromptsShown'
    <3>1. \A p \in Mine \ wiped : turn[p] # "refused" => \E j \in 1 .. L : messages[j] = User(p)
      BY <1>1 DEF Shown, PromptsShown, L
    <3>2. \A p \in Mine : p \in Sends
      BY DEF Mine
    <3> QED
      BY <1>2, <1>4, <2>2, <2>9, <3>1, <3>2 DEF PromptsShown
  <2>11. AnswersBehind'
    <3>1. ASSUME NEW j \in 1 .. L, messages[j].role = "assistant", messages[j].of \in Mine \ wiped
          PROVE  j > 1 /\ messages'[j - 1] = User(messages[j].of)
      <4>1. j > 1 /\ messages[j - 1] = User(messages[j].of)
        BY <1>1, <3>1 DEF Shown, AnswersBehind, L
      <4>2. j - 1 \in 1 .. L
        BY <1>1, <4>1
      <4> QED
        BY <1>7, <2>9, <4>1, <4>2
    <3> QED
      BY <1>2, <1>4, <2>2, <2>3, <3>1 DEF AnswersBehind
  <2> QED
    BY <1>5, <1>6, <2>4, <2>5, <2>6, <2>7, <2>8, <2>10, <2>11 DEF Shown
<1> QED
  BY <1>9, <1>10

(* A stream that ends, and a page that may become ready by it. *)
LEMMA EndShows ==
  ASSUME ChatInv, calm, calm', PageInv',
         \A p \in Sends : turn'[p] # turn[p] =>
           turn[p] \in {"reading", "failed", "aborted"} /\ turn'[p] \in Ending,
         UNCHANGED <<messages, answer, loading, loaded, saved, wiped>>,
         \/ BecomesReady(turn')
         \/ /\ UNCHANGED saving
            /\ chatStatus' = chatStatus \/ \A p \in Sends : turn'[p] # "reading"
  PROVE  Shown' /\ RowsSettled'
<1>1. turn' \in [Sends -> Turns] /\ turn \in [Sends -> Turns] /\ Shown /\ RowsSettled
  BY DEF ChatInv, PageInv
<1>0. messages' = messages /\ answer' = answer /\ loaded' = loaded /\ saved' = saved
  OBVIOUS
<1>2. \A p \in Sends : turn'[p] = "reading" => turn[p] = "reading"
  BY <1>1 DEF Ending
<1>3. \A p \in Sends : turn'[p] = "reading" => chatStatus' = "streaming"
  <2>1. CASE BecomesReady(turn')
    BY <2>1 DEF BecomesReady
  <2>2. CASE chatStatus' = chatStatus \/ \A p \in Sends : turn'[p] # "reading"
    BY <1>1, <1>2, <2>2 DEF Shown, OneAtATime
  <2> QED
    BY <2>1, <2>2
<1>4. Shown'
  BY <1>1, <1>3, ShownWhenStreamsEnd
<1>5. \A p \in Sends : turn[p] \in Done => turn'[p] \in Done /\ answer'[p] = answer[p]
  BY <1>0, <1>1 DEF Ending, Done
<1>6. CASE saving' = saving
  BY <1>0, <1>1, <1>4, <1>5, <1>6, StaysAllSettled
<1>7. CASE BecomesReady(turn') /\ saving' = messages
  <2>1. Settled(messages, turn', answer')
    <3>1. \A p \in Sends : turn'[p] \notin {"posting", "reading", "failed"}
      BY <1>7 DEF BecomesReady
    <3> QED
      BY <1>1, <3>1, ReadyIsSettled
  <2>2. Settled(loaded, turn', answer') /\ Settled(saved, turn', answer')
    BY <1>1, <1>5, StaysSettled DEF RowsSettled
  <2> QED
    BY <1>0, <1>4, <1>7, <2>1, <2>2 DEF RowsSettled, Settled, NoTwice
<1> QED
  BY <1>4, <1>6, <1>7 DEF BecomesReady

LEMMA CalmShows ==
  ASSUME ChatInv, [ChatNext]_chatVars, calm'
  PROVE  Shown' /\ RowsSettled'
<1>1. calm /\ PageInv' /\ turn \in [Sends -> Turns] /\ Shown /\ RowsSettled /\ \A p \in Reading : p = controller
  <2>1. calm
    BY DEF ChatNext, chatVars, OpenPage, Mounted, GetMessages, LoadFails, ShowLoaded, Submit, StopRun,
           Stopped, Saved, PostFails, PostAnswered, AbortSeen, ReadPiece, ReadError, StreamEnds,
           StreamBreaks, BecomesReady
  <2> QED
    BY <2>1, PageStep DEF ChatInv, PageInv
<1>2. ASSUME NEW prompted \in BOOLEAN, OpenPage(prompted) PROVE Shown' /\ RowsSettled'
  BY <1>1, <1>2, OpenShows
<1>3. CASE GetMessages \/ LoadFails \/ Saved \/ UNCHANGED chatVars
  <2>1. UNCHANGED <<messages, chatStatus, turn, answer, wiped>>
    BY <1>3 DEF GetMessages, LoadFails, Saved, chatVars
  <2>2. CASE GetMessages
    <3>1. /\ loading' = "got" /\ loaded' = saved /\ saving' = saving /\ saved' = saved
      BY <2>2 DEF GetMessages
    <3>2. /\ OneAtATime' /\ Named' /\ Awaited' /\ NoTwice(messages)' /\ Texts' /\ PromptsShown'
          /\ AnswersBehind'
      BY <1>1, <2>1 DEF Shown, OneAtATime, Named, Awaited, NoTwice, Texts, PromptsShown, AnswersBehind,
                        Posting, Mine
    <3>3. LoadedFirst'
      BY <3>1 DEF LoadedFirst
    <3>4. RowsSettled'
      BY <1>1, <2>1, <3>1, StaysAllSettled
    <3> QED
      BY <3>2, <3>3, <3>4 DEF Shown
  <2>3. CASE LoadFails
    <3>1. /\ loaded = <<>> /\ loaded' = <<>> /\ saving' = saving /\ saved' = saved
      BY <2>3 DEF LoadFails, ChatInv
    <3>2. /\ OneAtATime' /\ Named' /\ Awaited' /\ NoTwice(messages)' /\ Texts' /\ PromptsShown'
          /\ AnswersBehind'
      BY <1>1, <2>1 DEF Shown, OneAtATime, Named, Awaited, NoTwice, Texts, PromptsShown, AnswersBehind,
                        Posting, Mine
    <3>3. LoadedFirst'
      BY <3>1 DEF LoadedFirst
    <3>4. RowsSettled'
      BY <1>1, <2>1, <3>1, StaysAllSettled
    <3> QED
      BY <3>2, <3>3, <3>4 DEF Shown
  <2>4. CASE Saved \/ UNCHANGED chatVars
    <3>1. /\ loaded' = loaded /\ loading' = loading
          /\ saving' \in {saving, <<>>} /\ saved' \in {saved, saving}
      BY <2>4 DEF Saved, NoSave, chatVars
    <3>2. /\ OneAtATime' /\ Named' /\ Awaited' /\ NoTwice(messages)' /\ Texts' /\ PromptsShown'
          /\ AnswersBehind'
      BY <1>1, <2>1 DEF Shown, OneAtATime, Named, Awaited, NoTwice, Texts, PromptsShown, AnswersBehind,
                        Posting, Mine
    <3>3. LoadedFirst'
      BY <1>1, <2>1, <3>1 DEF Shown, LoadedFirst
    <3>4. RowsSettled'
      BY <1>1, <2>1, <3>1, StaysAllSettled
    <3> QED
      BY <3>2, <3>3, <3>4 DEF Shown
  <2> QED
    BY <1>3, <2>2, <2>3, <2>4
<1>4. CASE ShowLoaded
  BY <1>1, <1>4, LoadShows
<1>5. CASE Submit
  BY <1>1, <1>5, SubmitShows
<1>6. CASE StopRun \/ Stopped
  <2>1. /\ UNCHANGED <<messages, answer, loading, loaded, saved, wiped>>
        /\ BecomesReady(turn') \/ UNCHANGED <<saving, chatStatus>>
    BY <1>6 DEF StopRun, Stopped
  <2>2. \A p \in Sends : turn'[p] # turn[p] =>
          turn[p] \in {"reading", "failed", "aborted"} /\ turn'[p] \in Ending
    BY <1>1, <1>6 DEF StopRun, Stopped, Reading, Ending
  <2> QED
    BY <1>1, <2>1, <2>2, EndShows
<1>7. ASSUME NEW p \in Sends, AbortSeen(p) \/ StreamEnds(p) \/ StreamBreaks(p)
      PROVE  Shown' /\ RowsSettled'
  <2>1. /\ turn[p] \in {"reading", "failed", "aborted"} /\ turn' = [turn EXCEPT ![p] = "over"]
        /\ UNCHANGED <<messages, answer, loading, loaded, saved, wiped>>
    BY <1>7 DEF AbortSeen, StreamEnds, StreamBreaks, Reading
  <2>2. \A q \in Sends : turn'[q] # turn[q] =>
          turn[q] \in {"reading", "failed", "aborted"} /\ turn'[q] \in Ending
    BY <1>1, <2>1 DEF Ending
  <2>3. \/ BecomesReady(turn')
        \/ /\ UNCHANGED saving
           /\ chatStatus' = chatStatus \/ \A q \in Sends : turn'[q] # "reading"
    <3>1. CASE AbortSeen(p) \/ StreamEnds(p)
      BY <3>1 DEF AbortSeen, StreamEnds
    <3>2. CASE StreamBreaks(p)
      <4>1. p \in Reading /\ saving' = saving
        BY <3>2 DEF StreamBreaks
      <4>2. \A q \in Sends : turn'[q] # "reading"
        BY <1>1, <2>1, <4>1 DEF Reading
      <4> QED
        BY <4>1, <4>2
    <3> QED
      BY <1>7, <3>1, <3>2
  <2> QED
    BY <1>1, <2>1, <2>2, <2>3, EndShows
<1>8. ASSUME NEW p \in Sends, PostFails(p) PROVE Shown' /\ RowsSettled'
  BY <1>1, <1>8, FailShows
<1>9. ASSUME NEW p \in Sends, PostAnswered(p) PROVE Shown' /\ RowsSettled'
  BY <1>1, <1>9, AnswerShows
<1>10. ASSUME NEW p \in Sends, ReadPiece(p) PROVE Shown' /\ RowsSettled'
  BY <1>1, <1>10, PieceShows
<1>11. ASSUME NEW p \in Sends, ReadError(p) PROVE Shown' /\ RowsSettled'
  BY <1>1, <1>11, ErrorShows
<1> QED
  BY <1>2, <1>3, <1>4, <1>5, <1>6, <1>7, <1>8, <1>9, <1>10, <1>11 DEF ChatNext

LEMMA ChatInvStep == ChatInv /\ [ChatNext]_chatVars => ChatInv'
<1> SUFFICES ASSUME ChatInv, [ChatNext]_chatVars PROVE ChatInv'
  OBVIOUS
<1>1. PageInv'
  BY PageStep DEF ChatInv
<1>2. PageTyped' /\ Pieces'
  BY MessagesTyped, AnswersTyped, RowsTyped, WipedWereSent DEF PageTyped
<1>3. /\ loading' = "get" => loaded' = <<>>
      /\ \A p \in wiped' : turn'[p] # "new"
  BY RowsTyped, WipedWereSent
<1>4. calm' => Shown' /\ RowsSettled'
  BY CalmShows
<1> QED
  BY <1>1, <1>2, <1>3, <1>4 DEF ChatInv

(* For any number of sends, stops, pieces and openings, a page that has    *)
(* stayed calm shows every prompt that was not refused, with its answer    *)
(* behind it, each once, what was loaded first, and in every answer the    *)
(* pieces of its own run without a gap.                                    *)
THEOREM PageAlwaysSound == ChatSpec => []ChatSound
  BY ShownSound, ChatInvInit, ChatInvStep, PTL DEF ChatSpec

(* What the caller of the SDK has when its iterator returns, and what the  *)
(* page of a chat shows, in the composition the run explores.              *)
THEOREM ReadersAlwaysSound == MCSpec => []ReadersSound
<1>1. MCInit => ChatInit
  BY DEF MCInit
<1>2. [MCNext]_mcVars => [ChatNext]_chatVars
  BY DEF MCNext, mcVars, vars, chatVars
<1>3. MCSpec => []ChatInv
  BY <1>1, <1>2, ChatInvInit, ChatInvStep, PTL DEF MCSpec
<1>4. ReturnedIsComplete /\ ChatInv => ReadersSound
  BY ShownSound DEF ReadersSound
<1> QED
  BY <1>3, <1>4, ReadersTogether, PTL
=============================================================================
