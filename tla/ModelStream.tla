----------------------------- MODULE ModelStream -----------------------------
(***************************************************************************)
(* One provider call (provider/anthropic, provider/openai,                 *)
(* provider/bedrock: Stream) behind a fallback chain (provider/fallback).  *)
(* The server streams a reply of its choice, in the events of its protocol,*)
(* and may fail at any point; the provider assembles the response and      *)
(* passes text and thinking on as they come, where the caller listens. A   *)
(* piece of text or of a call's input is a number, fresh for every piece.  *)
(***************************************************************************)
EXTENDS Naturals, Sequences, FiniteSets
LOCAL INSTANCE SequencesExt

CONSTANTS Chains,     \* the provider kinds of a chain, as sequences
          MaxPieces,  \* bound: pieces the servers send
          MaxBlocks   \* bound: tool calls, and blocks, of a reply

VARIABLES chain,      \* the chain being called
          listening,  \* emit is not nil
          at,         \* the provider tried
          stage,      \* "connect", "stream", "answered" or "failed"
          wire,       \* what the server has sent: text, thinking, input by call
          block,      \* the kind of content block the server has open
          acc,        \* the provider's response so far
          emitted,    \* pieces passed on: their kind, provider and number
          pieces      \* pieces sent so far

svars == <<chain, listening, at, stage, wire, block, acc, emitted, pieces>>

NoInput == <<0>>    \* {}, the input of a call that has none
Empty == [text |-> <<>>, thinking |-> <<>>, calls |-> <<>>,
          named |-> FALSE, input |-> <<>>, inThinking |-> FALSE, current |-> <<>>, byIndex |-> <<>>]
Nothing == [text |-> <<>>, thinking |-> <<>>, input |-> <<>>, blocks |-> 0]

SInit ==
    /\ chain \in Chains /\ listening \in BOOLEAN
    /\ at = 1 /\ stage = "connect" /\ wire = Nothing /\ block = "none" /\ acc = Empty
    /\ emitted = <<>> /\ pieces = 0

OrEmptyObject(input) == IF input = <<>> THEN NoInput ELSE input

-----------------------------------------------------------------------------
(* What a provider makes of an event [type, kind, index, piece].            *)

CloseTool(a) ==
    IF a.named
    THEN [a EXCEPT !.calls = Append(@, OrEmptyObject(a.input)), !.named = FALSE, !.input = <<>>]
    ELSE a
CloseThinking(a) ==
    [a EXCEPT !.thinking = @ \o a.current, !.inThinking = FALSE, !.current = <<>>]

AnthropicEvent(a, e) ==
    CASE e.type = "start" /\ e.kind = "tool" -> [a EXCEPT !.named = TRUE, !.input = <<>>]
      [] e.type = "start" /\ e.kind = "thinking" -> [a EXCEPT !.inThinking = TRUE, !.current = <<>>]
      [] e.type = "delta" /\ e.kind = "text" -> [a EXCEPT !.text = Append(@, e.piece)]
      [] e.type = "delta" /\ e.kind = "tool" -> [a EXCEPT !.input = Append(@, e.piece)]
      [] e.type = "delta" /\ e.kind = "thinking" -> [a EXCEPT !.current = Append(@, e.piece)]
      [] e.type = "stop" -> IF a.inThinking THEN CloseThinking(CloseTool(a)) ELSE CloseTool(a)
      [] OTHER -> a

\* Bedrock announces only tool blocks.
ApplyStreamEvent(a, e) ==
    CASE e.type = "start" /\ e.kind = "tool" -> [a EXCEPT !.named = TRUE, !.input = <<>>]
      [] e.type = "delta" /\ e.kind = "text" -> [a EXCEPT !.text = Append(@, e.piece)]
      [] e.type = "delta" /\ e.kind = "tool" -> [a EXCEPT !.input = Append(@, e.piece)]
      [] e.type = "delta" /\ e.kind = "thinking" -> [a EXCEPT !.current = Append(@, e.piece)]
      [] e.type = "stop" -> CloseThinking(CloseTool(a))
      [] OTHER -> a

\* A delta of a call may carry its name only (piece 0).
OpenAIChunk(a, e) ==
    IF e.kind = "text" THEN [a EXCEPT !.text = Append(@, e.piece)]
    ELSE LET had == IF e.index \in DOMAIN a.byIndex THEN a.byIndex[e.index] ELSE <<>>
             has == IF e.piece = 0 THEN had ELSE Append(had, e.piece)
         IN [a EXCEPT !.byIndex = [i \in DOMAIN @ \union {e.index} |-> IF i = e.index THEN has ELSE @[i]]]

\* Index order, up to the number of calls.
OpenAIToolCalls(a) ==
    LET n == Cardinality(DOMAIN a.byIndex)
        present == SelectSeq([i \in 1..n |-> i], LAMBDA i : i \in DOMAIN a.byIndex)
    IN [k \in DOMAIN present |-> OrEmptyObject(a.byIndex[present[k]])]

Apply(kind, a, e) ==
    CASE kind = "anthropic" -> AnthropicEvent(a, e)
      [] kind = "bedrock" -> ApplyStreamEvent(a, e)
      [] kind = "openai" -> OpenAIChunk(a, e)

-----------------------------------------------------------------------------
(* The call.                                                                 *)

Connect ==
    /\ stage = "connect" /\ stage' = "stream"
    /\ wire' = Nothing /\ block' = "none" /\ acc' = Empty
    /\ UNCHANGED <<chain, listening, at, emitted, pieces>>

Passed(e) == e.type = "delta" /\ e.kind \in {"text", "thinking"}
Receive(e) ==
    /\ acc' = Apply(chain[at], acc, e)
    /\ emitted' = IF listening /\ Passed(e)
                  THEN Append(emitted, [kind |-> e.kind, by |-> at, piece |-> e.piece])
                  ELSE emitted
    /\ UNCHANGED <<chain, listening, at, stage>>

\* One block after the other: Anthropic and Bedrock.
BlockStart ==
    /\ stage = "stream" /\ chain[at] # "openai" /\ block = "none" /\ wire.blocks < MaxBlocks
    /\ \E kind \in {"text", "thinking", "tool"} :
           /\ block' = kind
           /\ wire' = [wire EXCEPT !.blocks = @ + 1,
                                   !.input = IF kind = "tool" THEN Append(@, <<>>) ELSE @]
           /\ Receive([type |-> "start", kind |-> kind, index |-> 0, piece |-> 0])
    /\ UNCHANGED pieces
BlockDelta ==
    /\ stage = "stream" /\ block # "none" /\ pieces < MaxPieces
    /\ pieces' = pieces + 1
    /\ wire' = CASE block = "text" -> [wire EXCEPT !.text = Append(@, pieces')]
                 [] block = "thinking" -> [wire EXCEPT !.thinking = Append(@, pieces')]
                 [] OTHER -> [wire EXCEPT !.input[Len(wire.input)] = Append(@, pieces')]
    /\ Receive([type |-> "delta", kind |-> block, index |-> 0, piece |-> pieces'])
    /\ UNCHANGED block
BlockStop ==
    /\ stage = "stream" /\ block # "none" /\ block' = "none"
    /\ Receive([type |-> "stop", kind |-> block, index |-> 0, piece |-> 0])
    /\ UNCHANGED <<wire, pieces>>

\* Text and calls side by side, the calls by index: OpenAI.
ChunkText ==
    /\ stage = "stream" /\ chain[at] = "openai" /\ pieces < MaxPieces
    /\ pieces' = pieces + 1 /\ wire' = [wire EXCEPT !.text = Append(@, pieces')]
    /\ Receive([type |-> "delta", kind |-> "text", index |-> 0, piece |-> pieces'])
    /\ UNCHANGED block
ChunkToolCall ==
    /\ stage = "stream" /\ chain[at] = "openai"
    /\ \E i \in 1..MaxBlocks :
           \/ /\ i \notin DOMAIN wire.input
              /\ wire' = [wire EXCEPT !.input = [j \in DOMAIN @ \union {i} |-> IF j = i THEN <<>> ELSE @[j]]]
              /\ Receive([type |-> "delta", kind |-> "tool", index |-> i, piece |-> 0])
              /\ UNCHANGED pieces
           \/ /\ i \in DOMAIN wire.input /\ pieces < MaxPieces
              /\ pieces' = pieces + 1 /\ wire' = [wire EXCEPT !.input[i] = Append(@, pieces')]
              /\ Receive([type |-> "delta", kind |-> "tool", index |-> i, piece |-> pieces'])
    /\ UNCHANGED block

\* The indices of OpenAI's calls have no gaps once the reply is complete.
EndStream ==
    /\ stage = "stream" /\ block = "none"
    /\ DOMAIN wire.input = 1..Cardinality(DOMAIN wire.input)
    /\ acc' = IF chain[at] = "openai" THEN [acc EXCEPT !.calls = OpenAIToolCalls(acc)] ELSE acc
    /\ stage' = "answered"
    /\ UNCHANGED <<chain, listening, at, wire, block, emitted, pieces>>

\* Fault: the next provider is tried whatever this one has passed on.
NextProviderAlways ==
    /\ stage \in {"connect", "stream"}
    /\ IF at < Len(chain)
       THEN at' = at + 1 /\ stage' = "connect" /\ wire' = Nothing /\ block' = "none" /\ acc' = Empty
       ELSE stage' = "failed" /\ UNCHANGED <<at, wire, block, acc>>
    /\ UNCHANGED <<chain, listening, emitted, pieces>>

\* A request that cannot be built or sent, or a stream that breaks: the next
\* provider is tried unless this one has passed something on.
NextProvider ==
    /\ stage \in {"connect", "stream"}
    /\ IF at < Len(chain) /\ emitted = <<>>
       THEN at' = at + 1 /\ stage' = "connect" /\ wire' = Nothing /\ block' = "none" /\ acc' = Empty
       ELSE stage' = "failed" /\ UNCHANGED <<at, wire, block, acc>>
    /\ UNCHANGED <<chain, listening, emitted, pieces>>

SNext == Connect \/ BlockStart \/ BlockDelta \/ BlockStop \/ ChunkText \/ ChunkToolCall
         \/ EndStream \/ NextProvider

-----------------------------------------------------------------------------
Heard(kind) ==
    LET es == SelectSeq(emitted, LAMBDA e : e.kind = kind) IN [i \in DOMAIN es |-> es[i].piece]

\* The response is the reply of one server, whole and in order, each call with
\* its own input however its pieces were interleaved; and a listener heard that
\* reply's text and thinking and nothing of a provider that was given up
\* (fallback.go:98-121, anthropic.go:217-302, openai.go:215-300,
\* bedrock.go:455-509).
StreamFaithful ==
    /\ \A i \in DOMAIN emitted : emitted[i].by = at
    /\ listening /\ stage # "connect" => Heard("text") = wire.text /\ Heard("thinking") = wire.thinking
    /\ stage = "answered" =>
           /\ acc.text = wire.text /\ acc.thinking = wire.thinking
           /\ acc.calls = [i \in DOMAIN wire.input |-> OrEmptyObject(wire.input[i])]
=============================================================================
