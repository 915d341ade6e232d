------------------------------ MODULE UsageMeter ------------------------------
(***************************************************************************)
(* What the llm-router charges for a stream: the bytes of upstream, cut    *)
(* into chunks anywhere, go through the line buffer (sse-line-reader.ts)   *)
(* into the parser of the upstream's protocol (openai-parser.ts,           *)
(* anthropic-parser.ts), whose usage is priced (cost.ts).                  *)
(*                                                                         *)
(* A line of text is a sequence of symbols up to "\n".  The only lines     *)
(* that count are "data:" followed by the name of a usage object; every    *)
(* other one is a comment, another event, or does not parse.               *)
(***************************************************************************)
EXTENDS Naturals, Sequences, FiniteSets, SequencesExt

CONSTANTS
  Usages,    \* Usages[u]: a usage object, [prompt, cached, completion]; 0 for
             \* what it does not name
  Price,     \* [input, cacheRead, output], in micros per token
  MaxText    \* bound of the symbols of upstream

ASSUME UsageAssumption ==
  /\ "\n" \notin DOMAIN Usages
  /\ \A u \in DOMAIN Usages : Usages[u] \in [prompt: Nat, cached: Nat, completion: Nat]

VARIABLES
  protocol,  \* of upstream: "openai" or "anthropic"
  buf,       \* the line that is not complete yet
  usage,     \* tokensIn, tokensCacheRead, tokensOut
  text       \* history: what upstream has sent

meterStreamVars == <<protocol, buf, usage, text>>

Symbols == DOMAIN Usages \cup {"data:", "\n"}

UsageInit ==
  /\ protocol \in {"openai", "anthropic"}
  /\ buf = <<>> /\ text = <<>>
  /\ usage = [in |-> 0, cacheRead |-> 0, out |-> 0]

Larger(a, b) == IF a > b THEN a ELSE b

\* OpenAI counts what was read from the cache in the prompt, Anthropic does not.
TokensIn(object) ==
  IF protocol = "anthropic" THEN object.prompt
  ELSE IF object.prompt > object.cached THEN object.prompt - object.cached ELSE 0

(* merge: the objects are cumulative, and the larger value counts. *)
Merge(u, object) ==
  [in |-> Larger(u.in, TokensIn(object)),
   cacheRead |-> Larger(u.cacheRead, object.cached),
   out |-> Larger(u.out, object.completion)]

(* One line: extractDataPayload and parseJsonObject; then absorb, or the   *)
(* events message_start and message_delta of the push of Anthropic.        *)
Absorb(u, line) ==
  IF Len(line) = 2 /\ line[1] = "data:" /\ line[2] \in DOMAIN Usages
  THEN Merge(u, Usages[line[2]]) ELSE u

(* The loop of push, symbol by symbol: behind the end of a line the line   *)
(* is taken and the buffer begins anew.                                    *)
TakeSymbol(reader, symbol) ==
  IF symbol = "\n" THEN [buf |-> <<>>, usage |-> Absorb(reader.usage, reader.buf)]
  ELSE [buf |-> Append(reader.buf, symbol), usage |-> reader.usage]

Fed(reader, chunk) ==
  LET after[k \in 0 .. Len(chunk)] ==
        IF k = 0 THEN reader ELSE TakeSymbol(after[k - 1], chunk[k])
  IN  after[Len(chunk)]

(* Mutant: every chunk is a text of its own. *)
PushFresh(chunk) ==
  LET reader == Fed([buf |-> <<>>, usage |-> usage], chunk) IN
  /\ buf' = reader.buf /\ usage' = reader.usage
  /\ text' = text \o chunk /\ UNCHANGED protocol

(* push: the buffer goes on, its complete lines are taken. *)
Push(chunk) ==
  LET reader == Fed([buf |-> buf, usage |-> usage], chunk) IN
  /\ buf' = reader.buf /\ usage' = reader.usage
  /\ text' = text \o chunk /\ UNCHANGED protocol

Chunks == { <<a>> : a \in Symbols } \cup { <<a, b>> : a \in Symbols, b \in Symbols }

UsageNext == \E chunk \in Chunks : Len(text) + Len(chunk) <= MaxText /\ Push(chunk)

UsageSpec == UsageInit /\ [][UsageNext]_meterStreamVars

(* computeCostUsd, in micros. *)
CostOf(u) == u.in * Price.input + u.cacheRead * Price.cacheRead + u.out * Price.output

-----------------------------------------------------------------------------
(* Properties. *)

(* The objects that stand in t, each on a line of its own. *)
SeenIn(t) ==
  { u \in DOMAIN Usages :
      \E i \in 1 .. Len(t) - 2 :
        /\ t[i] = "data:" /\ t[i + 1] = u /\ t[i + 2] = "\n"
        /\ i > 1 => t[i - 1] = "\n" }

Seen == SeenIn(text)

MaxOf(S) == IF S = {} THEN 0 ELSE Max(S)

(* What an OpenAI upstream reports is cumulative: the cache is a part of   *)
(* the prompt, and an object that counts no less of the prompt counts no   *)
(* less of either part.                                                    *)
Cumulative ==
  \A u, v \in DOMAIN Usages :
    /\ Usages[u].cached <= Usages[u].prompt
    /\ Usages[u].prompt <= Usages[v].prompt =>
         /\ Usages[u].cached <= Usages[v].cached
         /\ Usages[u].prompt - Usages[u].cached <= Usages[v].prompt - Usages[v].cached

(* However the stream is cut into chunks and whatever is repeated or comes *)
(* late in it, a token is paid for once: the cost is that of the largest   *)
(* counts of the complete lines, each token of the prompt either at the    *)
(* price of the input or at that of the cache, in either protocol.         *)
ChargedAsSent ==
  LET top == [prompt |-> MaxOf({ Usages[s].prompt : s \in Seen }),
              cached |-> MaxOf({ Usages[s].cached : s \in Seen }),
              completion |-> MaxOf({ Usages[s].completion : s \in Seen })]
      fresh == IF protocol = "openai" THEN top.prompt - top.cached ELSE top.prompt
  IN (protocol = "openai" => Cumulative) =>
       CostOf(usage) = fresh * Price.input
                         + top.cached * Price.cacheRead + top.completion * Price.output
=============================================================================
