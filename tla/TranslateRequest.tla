-------------------------- MODULE TranslateRequest --------------------------
(***************************************************************************)
(* The request the llm-router sends to an OpenAI upstream for a client of  *)
(* the Anthropic API: the messages of anthropic-to-openai.ts, for every    *)
(* conversation a client may have built block by block.                    *)
(*                                                                         *)
(* A block is its place in the conversation, which stands for its text,    *)
(* its URL or the id of its tool call.  System prompt, sampling parameters *)
(* and tool definitions are copied field by field and left out; so are     *)
(* blocks of unknown kinds, which are dropped as thinking is.              *)
(***************************************************************************)
EXTENDS Naturals, Sequences, SequencesExt

CONSTANT MaxBlocks  \* bound of the blocks of a conversation

ASSUME BlocksAssumption == MaxBlocks \in Nat

VARIABLE conversation  \* messages: role and blocks

requestVars == <<conversation>>

Block(kind, of) == [kind |-> kind, of |-> of]

\* What a side has said, block by block.
Said(messages, role) ==
  FlattenSeq([i \in DOMAIN messages |->
                IF messages[i].role = role THEN messages[i].blocks ELSE <<>>])

Blocks(role) == Said(conversation, role)

NextBlock == Len(Blocks("user")) + Len(Blocks("assistant")) + 1

LastIs(role) == conversation # <<>> /\ Last(conversation).role = role

Of(kinds, blocks) ==
  FlattenSeq([i \in DOMAIN blocks |-> IF blocks[i].kind \in kinds THEN <<blocks[i].of>> ELSE <<>>])

-----------------------------------------------------------------------------
(* The client. *)

(* Tool calls without a result.  Their results stand in one message, which *)
(* follows at once.                                                        *)
OpenCalls == ToSet(Of({"use"}, Blocks("assistant"))) \ ToSet(Of({"result"}, Blocks("user")))

Opens(role, block) == conversation' = Append(conversation, [role |-> role, blocks |-> <<block>>])

Continues(role, block) ==
  /\ LastIs(role)
  /\ conversation' = [conversation EXCEPT ![Len(conversation)].blocks = Append(@, block)]

Room == NextBlock <= MaxBlocks

UserSays(kind) ==
  /\ Room
  /\ \/ Continues("user", Block(kind, NextBlock))
     \/ (OpenCalls # {} => LastIs("assistant")) /\ Opens("user", Block(kind, NextBlock))

UserAnswers(call) ==
  /\ Room /\ call \in OpenCalls
  /\ \/ Continues("user", Block("result", call))
     \/ LastIs("assistant") /\ Opens("user", Block("result", call))

AssistantSays(kind) ==
  /\ Room
  /\ \/ Continues("assistant", Block(kind, NextBlock))
     \/ LastIs("user") /\ OpenCalls = {} /\ Opens("assistant", Block(kind, NextBlock))

RequestInit == conversation = <<>>

RequestNext ==
  \/ \E kind \in {"text", "image"} : UserSays(kind)
  \/ \E call \in OpenCalls : UserAnswers(call)
  \/ \E kind \in {"text", "thinking", "use"} : AssistantSays(kind)

RequestSpec == RequestInit /\ [][RequestNext]_requestVars

-----------------------------------------------------------------------------
(* The translation. *)

Message(role, content, calls, answers) ==
  [role |-> role, content |-> content, calls |-> calls, answers |-> answers]

ToolMessages(blocks) ==
  LET results == Of({"result"}, blocks)
  IN  [i \in DOMAIN results |-> Message("tool", <<>>, <<>>, results[i])]

UserContent(blocks) ==
  LET parts == Of({"text", "image"}, blocks)
  IN  IF parts = <<>> THEN <<>> ELSE <<Message("user", parts, <<>>, 0)>>

(* Mutant: in the order of the blocks, as it were. *)
UserMessagesLast(blocks) == UserContent(blocks) \o ToolMessages(blocks)

(* translateUserMessage: the results of tools first. *)
UserMessages(blocks) == ToolMessages(blocks) \o UserContent(blocks)

(* translateAssistantMessage: nothing for a message of thinking only. *)
AssistantMessages(blocks) ==
  LET texts == Of({"text"}, blocks)
      calls == Of({"use"}, blocks)
  IN  IF texts = <<>> /\ calls = <<>> THEN <<>>
      ELSE <<Message("assistant", texts, calls, 0)>>

(* translateAnthropicRequest. *)
Translation(messages) ==
  FlattenSeq([i \in DOMAIN messages |->
                IF messages[i].role = "assistant" THEN AssistantMessages(messages[i].blocks)
                ELSE UserMessages(messages[i].blocks)])

Translated == Translation(conversation)

-----------------------------------------------------------------------------
(* Properties, of the conversations that are sent. *)

Sendable == LastIs("user") /\ OpenCalls = {}

(* An upstream takes it: right behind a message that calls tools stand the *)
(* results of just these calls, results stand nowhere else, and nobody     *)
(* says nothing.                                                           *)
UpstreamTakes(out) ==
  \A i \in DOMAIN out :
    LET n == Len(out[i].calls)
        answers == SubSeq(out, i + 1, i + n)
    IN
    /\ i + n <= Len(out)
    /\ \A j \in DOMAIN answers : answers[j].role = "tool"
    /\ { answers[j].answers : j \in DOMAIN answers } = ToSet(out[i].calls)
    /\ out[i].role = "tool" =>
         \E j \in 1 .. i - 1 : i <= j + Len(out[j].calls)
    /\ out[i].role # "tool" => out[i].content # <<>> \/ out[i].calls # <<>>

Heard(out, role) ==
  FlattenSeq([i \in DOMAIN out |-> IF out[i].role = role THEN out[i].content ELSE <<>>])

Called(out) == FlattenSeq([i \in DOMAIN out |-> out[i].calls])

(* What both sides said and called arrives, once and in order, thinking    *)
(* excepted, and an OpenAI upstream takes the request: whatever the order  *)
(* in which a client mixes results and words, and whatever is dropped.     *)
RequestSound ==
  Sendable =>
    /\ UpstreamTakes(Translated)
    /\ Heard(Translated, "user") = Of({"text", "image"}, Blocks("user"))
    /\ Heard(Translated, "assistant") = Of({"text"}, Blocks("assistant"))
    /\ Called(Translated) = Of({"use"}, Blocks("assistant"))
=============================================================================
