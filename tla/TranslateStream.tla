--------------------------- MODULE TranslateStream ---------------------------
(***************************************************************************)
(* The stream the llm-router makes of an OpenAI answer for a client of the *)
(* Anthropic API: the state machine of openai-to-anthropic.ts and the pipe *)
(* around it with its heartbeat (translate-stream.ts).                     *)
(*                                                                         *)
(* Upstream may send anything in any order: reasoning, text, both in one   *)
(* chunk, fragments of tool calls with or without their index, a finish    *)
(* reason that does not fit, nothing at all.  A piece of text is a number, *)
(* its place in what upstream has sent; the arguments of a tool call are   *)
(* their fragments, and complete when the last fragment has arrived.       *)
(***************************************************************************)
EXTENDS Naturals, Sequences, FiniteSets, SequencesExt

CONSTANTS
  MaxChunks,   \* bound of the chunks of upstream
  ToolIndexes  \* indexes upstream numbers its tool calls with

ASSUME ChunksAssumption == MaxChunks \in Nat /\ ToolIndexes \subseteq Nat

VARIABLES
  started, stopped,   \* of the translator
  open,               \* the open content block: its kind, or "none"
  nextIndex,
  toolCalls,          \* Map of the tool calls so far: key -> fragments
  finish,             \* finish_reason
  body,               \* events written to the client
  sent,               \* history: what upstream has sent
  pipe                \* "open", "flushed", or "cancelled"

translateVars ==
  <<started, stopped, open, nextIndex, toolCalls, finish, body, sent, pipe>>

Kinds == {"thinking", "text"}

TranslateInit ==
  /\ started = FALSE /\ stopped = FALSE
  /\ open = "none" /\ nextIndex = 0
  /\ toolCalls = <<>> /\ finish = "none"
  /\ body = <<>> /\ sent = <<>> /\ pipe = "open"

-----------------------------------------------------------------------------
(* What the translator writes. *)

Event(type, index, kind, data) == [type |-> type, index |-> index, kind |-> kind, data |-> data]

MessageStart == IF started THEN <<>> ELSE <<Event("message_start", 0, "none", <<>>)>>

CloseOpenBlock ==
  IF open = "none" THEN <<>> ELSE <<Event("content_block_stop", nextIndex - 1, open, <<>>)>>

(* Mutant: the block that is open is not closed before the next. *)
EnsureBlockUnclosed(kind) ==
  IF open = kind THEN <<>> ELSE <<Event("content_block_start", nextIndex, kind, <<>>)>>

(* ensureBlock: the open block is closed if it is of another kind. *)
EnsureBlock(kind) ==
  IF open = kind THEN <<>>
  ELSE CloseOpenBlock \o <<Event("content_block_start", nextIndex, kind, <<>>)>>

IndexWith(kind) == IF open = kind THEN nextIndex ELSE nextIndex + 1

Delta(kind, piece) ==
  EnsureBlock(kind) \o <<Event("content_block_delta", IndexWith(kind) - 1, kind, piece)>>

Writes(events) == body' = body \o events

(* A chunk with nothing in it that is passed on: the role, the usage. *)
PushOther(why) ==
  /\ pipe = "open" /\ Len(sent) < MaxChunks
  /\ sent' = Append(sent, [kind |-> "other", key |-> 0])
  /\ started' = TRUE /\ Writes(MessageStart)
  /\ finish' = IF why = "none" THEN finish ELSE why
  /\ UNCHANGED <<stopped, open, nextIndex, toolCalls, pipe>>

(* A chunk with a piece of reasoning or of text. *)
PushPiece(kind) ==
  /\ pipe = "open" /\ Len(sent) < MaxChunks
  /\ sent' = Append(sent, [kind |-> kind, key |-> 0])
  /\ started' = TRUE
  /\ Writes(MessageStart \o Delta(kind, <<Len(sent) + 1>>))
  /\ open' = kind /\ nextIndex' = IndexWith(kind)
  /\ UNCHANGED <<stopped, toolCalls, finish, pipe>>

ToolKeys == DOMAIN toolCalls

(* absorbToolCalls: fragments are gathered and nothing is written. *)
WithFragment(key, piece) ==
  [k \in ToolKeys \cup {key} |->
     (IF k \in ToolKeys THEN toolCalls[k] ELSE <<>>) \o (IF k = key THEN <<piece>> ELSE <<>>)]

(* The key is the index of the fragment, or the size of the map if it has none. *)
PushTool(key) ==
  /\ pipe = "open" /\ Len(sent) < MaxChunks
  /\ sent' = Append(sent, [kind |-> "tool", key |-> key])
  /\ started' = TRUE /\ Writes(MessageStart)
  /\ toolCalls' = WithFragment(key, Len(sent) + 1)
  /\ UNCHANGED <<stopped, open, nextIndex, finish, pipe>>

(* The numbers of a finite set, in their order. *)
InOrder(S) ==
  CHOOSE s \in [1 .. Cardinality(S) -> S] : \A i, j \in DOMAIN s : i < j => s[i] < s[j]

(* The three events of the i-th tool call in the order of their keys; its  *)
(* arguments are written only if they parse, which a stream that was cut   *)
(* may prevent.                                                            *)
ToolEvents(i, whole) ==
  LET n   == nextIndex + i - 1
      key == InOrder(ToolKeys)[i]
  IN
  <<Event("content_block_start", n, "tool_use", <<>>)>>
    \o (IF key \in whole
        THEN <<Event("content_block_delta", n, "tool_use", toolCalls[key])>> ELSE <<>>)
    \o <<Event("content_block_stop", n, "tool_use", <<>>)>>

FlushToolCalls(whole) ==
  FlattenSeq([i \in 1 .. Cardinality(ToolKeys) |-> ToolEvents(i, whole)])

(* mapFinishReason: a tool call is the reason, even where upstream said stop. *)
StopReason ==
  IF finish \in {"none", "stop"}
  THEN IF ToolKeys # {} THEN "tool_use" ELSE "end_turn"
  ELSE finish

(* end(): once; an empty answer is a message too. *)
End(whole) ==
  MessageStart \o CloseOpenBlock \o FlushToolCalls(whole)
    \o <<Event("message_delta", 0, StopReason, <<>>), Event("message_stop", 0, "none", <<>>)>>

(* Upstream ends, or was cut where it looks like an end: flush(). *)
FlushPipe ==
  /\ pipe = "open" /\ pipe' = "flushed"
  /\ \E whole \in SUBSET ToolKeys : Writes(End(whole))
  /\ started' = TRUE /\ stopped' = TRUE /\ open' = "none"
  /\ nextIndex' = nextIndex + Cardinality(ToolKeys)
  /\ UNCHANGED <<toolCalls, finish, sent>>

(* Either side breaks: the timer is stopped, nothing more is written. *)
CancelPipe ==
  /\ pipe = "open" /\ pipe' = "cancelled"
  /\ UNCHANGED <<started, stopped, open, nextIndex, toolCalls, finish, body, sent>>

(* The heartbeat of an idle stream; a second in a row shows nothing new. *)
Ping ==
  /\ pipe = "open"
  /\ body # <<>> => Last(body).type # "ping"
  /\ Writes(<<Event("ping", 0, "none", <<>>)>>)
  /\ UNCHANGED <<started, stopped, open, nextIndex, toolCalls, finish, sent, pipe>>

TranslateNext ==
  \/ \E why \in {"none", "stop", "max_tokens", "refusal"} : PushOther(why)
  \/ \E kind \in Kinds : PushPiece(kind)
  \/ \E key \in ToolIndexes \cup {Cardinality(ToolKeys)} : PushTool(key)
  \/ FlushPipe \/ CancelPipe \/ Ping

TranslateSpec == TranslateInit /\ [][TranslateNext]_translateVars

-----------------------------------------------------------------------------
(* Properties. *)

(* What the client gets to see. *)
Events ==
  FlattenSeq([i \in DOMAIN body |-> IF body[i].type = "ping" THEN <<>> ELSE <<body[i]>>])

Before(events, i, type) == { j \in DOMAIN events : j < i /\ events[j].type = type }

(* The number of starts and of stops before the i-th event; one open block. *)
Starts(events, i) == Cardinality(Before(events, i, "content_block_start"))
Stops(events, i) == Cardinality(Before(events, i, "content_block_stop"))

(* The block that is open before the i-th event is the last, of this kind. *)
BlockOpen(events, i, kind) ==
  /\ Starts(events, i) = Stops(events, i) + 1
  /\ \E j \in Before(events, i, "content_block_start") :
       /\ events[j].kind = kind
       /\ \A k \in Before(events, i, "content_block_start") : k <= j

BlockClosed(events, i) == Starts(events, i) = Stops(events, i)

(* The grammar of the Anthropic stream: one message_start, first; blocks   *)
(* one after the other, numbered from 0 without a gap; deltas and stops    *)
(* only for the block that is open; message_delta and message_stop with    *)
(* none open.                                                              *)
Grammatical(events, i) ==
  LET e == events[i] IN
  /\ e.type = "message_start" <=> i = 1
  /\ e.type = "content_block_start" => BlockClosed(events, i) /\ e.index = Starts(events, i)
  /\ e.type \in {"content_block_delta", "content_block_stop"} =>
       BlockOpen(events, i, e.kind) /\ e.index = Starts(events, i) - 1
  /\ e.type \in {"message_delta", "message_stop"} => BlockClosed(events, i)

(* With these two every stream that was not broken off ends, an empty one  *)
(* too, and no other.                                                      *)
StreamWellFormed(events) ==
  /\ \A i \in DOMAIN events :
       /\ Grammatical(events, i)
       /\ events[i].type = "message_delta" <=> i = Len(events) - 1 /\ pipe = "flushed"
       /\ events[i].type = "message_stop" <=> i = Len(events) /\ pipe = "flushed"
  /\ pipe = "flushed" => Len(events) >= 3

Places(kind, key) ==
  FlattenSeq([i \in DOMAIN sent |->
                IF sent[i].kind = kind /\ sent[i].key = key THEN <<i>> ELSE <<>>])

(* What the client has read of a kind of blocks, and in the n-th block. *)
Gathered(events, kind) ==
  FlattenSeq([i \in DOMAIN events |->
                IF events[i].type = "content_block_delta" /\ events[i].kind = kind
                THEN events[i].data ELSE <<>>])

GatheredIn(events, n) ==
  FlattenSeq([i \in DOMAIN events |->
                IF events[i].type = "content_block_delta" /\ events[i].index = n
                THEN events[i].data ELSE <<>>])

(* The indexes of the blocks that call a tool. *)
ToolBlocks(events) ==
  FlattenSeq([i \in DOMAIN events |->
                IF events[i].type = "content_block_start" /\ events[i].kind = "tool_use"
                THEN <<events[i].index>> ELSE <<>>])

OneBlock(kind, data) == IF data = <<>> THEN <<>> ELSE <<[kind |-> kind, data |-> data]>>

WholeAnswer(thinking, text, tools, reason) ==
  [content |-> OneBlock("thinking", thinking) \o OneBlock("text", text)
                 \o [i \in DOMAIN tools |-> [kind |-> "tool_use", data |-> tools[i]]],
   stop_reason |-> reason]

SentKeys == { sent[i].key : i \in { j \in DOMAIN sent : sent[j].kind = "tool" } }

(* The answer as translateOpenAiCompletion makes it, had upstream sent it  *)
(* in one piece; whole are the tool calls with arguments that parse.       *)
Completion(whole) ==
  LET keys == InOrder(SentKeys) IN
  WholeAnswer(Places("thinking", 0), Places("text", 0),
         [i \in DOMAIN keys |-> IF keys[i] \in whole THEN Places("tool", keys[i]) ELSE <<>>],
         IF keys # <<>> /\ finish \in {"none", "stop"} THEN "tool_use"
         ELSE IF finish \in {"none", "stop"} THEN "end_turn" ELSE finish)

(* What upstream said is what the client reads: reasoning and text piece   *)
(* by piece, in order and at once; and in the end just what it would have  *)
(* read without streaming, tool calls with all their fragments included,   *)
(* however they were interleaved, and the reason to stop, which is never   *)
(* the ordinary end of a turn when a tool is called.                       *)
NothingLost(events) ==
  /\ \A kind \in Kinds : Gathered(events, kind) = Places(kind, 0)
  /\ pipe = "flushed" =>
       LET blocks == ToolBlocks(events) IN
       \E whole \in SUBSET SentKeys :
         WholeAnswer(Gathered(events, "thinking"), Gathered(events, "text"),
              [i \in DOMAIN blocks |-> GatheredIn(events, blocks[i])],
              events[Len(events) - 1].kind) = Completion(whole)

(* What the client reads is a message of its own protocol and says what    *)
(* upstream said.                                                          *)
StreamSound ==
  LET events == Events IN StreamWellFormed(events) /\ NothingLost(events)
=============================================================================
