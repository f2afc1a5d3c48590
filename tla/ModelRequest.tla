---------------------------- MODULE ModelRequest ----------------------------
(***************************************************************************)
(* From the canonical history to the messages of a provider call           *)
(* (engine.go loopTurn, turn_messages.go, normalize.go, widget.go, and the *)
(* conversions in provider/anthropic, provider/openai, provider/bedrock).  *)
(* Turns, durable or not, write the history the way the engine does: text  *)
(* of its own before a durable batch, widgets between calls, results in    *)
(* several messages after a pause, turns that fail. Every call of the      *)
(* model reads a projection of it. A block is its kind, an ID and, for an  *)
(* attachment, where its bytes come from.                                  *)
(***************************************************************************)
EXTENDS Naturals, Sequences, FiniteSets
LOCAL INSTANCE SequencesExt

CONSTANTS Repertoires,  \* sets of what the user's messages of a history hold
          MaxMessages,  \* bound: messages of history when a turn starts
          MaxUses       \* bound: tool calls made

VARIABLES inputs,     \* what the user's messages hold, one of Repertoires
          durable,    \* the agent has an ExecutionStore
          canonical,  \* the turn's canonical messages
          saved,      \* how many of them are in the conversation store
          persisted,  \* run.persistedCount
          transient,  \* whether retrieved context accompanies the turn
          phase,      \* "idle", "ask", "structured", "tools" or "human"
          open,       \* calls without a result, in call order
          uses        \* tool calls made

hvars == <<inputs, durable, canonical, saved, persisted, transient, phase, open, uses>>

Block(kind, id) == [kind |-> kind, id |-> id, from |-> "none"]
Text == Block("text", 0)
EmptyText == Block("empty text", 0)
Msg(role, content) == [role |-> role, content |-> content]

HInit ==
    /\ inputs \in Repertoires /\ durable \in BOOLEAN
    /\ canonical = <<>> /\ saved = 0 /\ persisted = 0 /\ transient = FALSE
    /\ phase = "idle" /\ open = <<>> /\ uses = 0

-----------------------------------------------------------------------------
(* The history.                                                              *)

\* Attachments come before the text, which may be empty; retrieval may or may
\* not find anything.
PrepareTurnMessages ==
    /\ phase = "idle" /\ Len(canonical) < MaxMessages
    /\ \E content \in inputs : canonical' = Append(canonical, Msg("user", content))
    /\ persisted' = Len(canonical)
    /\ transient' \in BOOLEAN
    /\ phase' \in {"ask", "structured"}
    /\ UNCHANGED <<inputs, durable, saved, open, uses>>

\* One call of the schema's tool: its input is kept as text, the call is not.
StructuredTurn ==
    /\ phase = "structured"
    /\ canonical' = Append(canonical, Msg("assistant", <<Text>>))
    /\ saved' = Len(canonical') /\ phase' = "idle"
    /\ UNCHANGED <<inputs, durable, persisted, transient, open, uses>>

\* A final answer without text leaves no message.
FinalAnswer ==
    /\ phase = "ask"
    /\ canonical' \in {canonical, Append(canonical, Msg("assistant", <<Text>>))}
    /\ saved' = Len(canonical') /\ phase' = "idle"
    /\ UNCHANGED <<inputs, durable, persisted, transient, open, uses>>

\* A durable batch has a message without text of its own, and is saved.
ToolUseMessage ==
    /\ phase = "ask"
    /\ \E n \in 1..(MaxUses - uses), said \in {<<>>, <<Text>>} :
           LET ids == [i \in 1..n |-> uses + i]
               calls == [i \in 1..n |-> Block("use", uses + i)]
           IN /\ canonical' = canonical \o
                     IF durable /\ said # <<>>
                     THEN <<Msg("assistant", said), Msg("assistant", calls)>>
                     ELSE <<Msg("assistant", said \o calls)>>
              /\ open' = ids /\ uses' = uses + n
    /\ IF durable THEN saved' = Len(canonical') /\ persisted' = Len(canonical')
                  ELSE UNCHANGED <<saved, persisted>>
    /\ phase' = "tools"
    /\ UNCHANGED <<inputs, durable, transient>>

Results(ids) == Msg("user", [i \in DOMAIN ids |-> Block("result", ids[i])])

\* A handler's widgets follow its call in the message.
WithWidgets(m, ids) ==
    [m EXCEPT !.content = FlattenSeq([i \in DOMAIN @ |->
        IF @[i].kind = "use" /\ @[i].id \in ids THEN <<@[i], Block("widget", @[i].id)>> ELSE <<@[i]>>])]

\* A batch that is not durable ends whole; its widgets are kept.
CompleteBatch ==
    /\ phase = "tools" /\ ~ durable
    /\ \E W \in SUBSET ToSet(open) :
           canonical' = Append([canonical EXCEPT ![Len(canonical)] = WithWidgets(@, W)], Results(open))
    /\ open' = <<>> /\ phase' = "ask"
    /\ UNCHANGED <<inputs, durable, saved, persisted, transient, uses>>

\* The results of a durable batch are committed together, or some of them only
\* after an approval, a recovery or a reconciliation, which have no retrieved
\* context; a pause for human input may follow.
CommitToolResults ==
    /\ phase = "tools" /\ durable
    /\ \E D \in SUBSET ToSet(open) \ {{}} :
           /\ canonical' = Append(canonical, Results(SelectSeq(open, LAMBDA i : i \in D)))
           /\ open' = SelectSeq(open, LAMBDA i : i \notin D)
           /\ transient' \in IF D = ToSet(open) THEN {transient, FALSE} ELSE {FALSE}
    /\ saved' = Len(canonical') /\ persisted' = Len(canonical')
    /\ phase' \in IF open' = <<>> THEN {"ask", "human"} ELSE {"tools"}
    /\ UNCHANGED <<inputs, durable, uses>>

\* The answer resumes the turn as a message of its own.
ResumeHuman ==
    /\ phase = "human"
    /\ canonical' = Append(canonical, Msg("user", <<Text>>))
    /\ persisted' = Len(canonical) /\ transient' = FALSE /\ phase' = "ask"
    /\ UNCHANGED <<inputs, durable, saved, open, uses>>

\* The provider fails, the turn runs out of iterations or a pause is never
\* resumed: what was not saved is lost. A durable batch cut short is recovered:
\* that no other turn is started before that is up to the caller.
FailTurn ==
    /\ phase \in {"ask", "structured", "human"} \/ (phase = "tools" /\ ~ durable)
    /\ canonical' = SubSeq(canonical, 1, saved)
    /\ phase' = "idle" /\ open' = <<>>
    /\ UNCHANGED <<inputs, durable, saved, persisted, transient, uses>>

HNext == PrepareTurnMessages \/ StructuredTurn \/ FinalAnswer \/ ToolUseMessage \/ CompleteBatch
         \/ CommitToolResults \/ ResumeHuman \/ FailTurn

-----------------------------------------------------------------------------
(* The projection.                                                           *)

Of(ms, i, kind) == SelectSeq(ms[i].content, LAMBDA b : b.kind = kind)
OnlyToolResults(m) ==
    m.role = "user" /\ m.content # <<>> /\ \A i \in DOMAIN m.content : m.content[i].kind = "result"

\* The messages of results that follow the calls in message i.
ResultRun(ms, i) == {j \in (i + 1)..Len(ms) : \A k \in (i + 1)..j : OnlyToolResults(ms[k])}
HasCalls(ms, i) == ms[i].role = "assistant" /\ Of(ms, i, "use") # <<>>

\* Their blocks, in call order, unknown ones last.
InCallOrder(ms, i) ==
    LET ids == [k \in DOMAIN Of(ms, i, "use") |-> Of(ms, i, "use")[k].id]
        all == FlattenSeq([k \in 1..Cardinality(ResultRun(ms, i)) |-> ms[i + k].content])
    IN FlattenSeq([k \in DOMAIN ids |-> SelectSeq(all, LAMBDA b : b.id = ids[k])])
           \o SelectSeq(all, LAMBDA b : b.id \notin ToSet(ids))


ProjectToolResultOrder(ms) ==
    FlattenSeq([i \in DOMAIN ms |->
        CASE HasCalls(ms, i) /\ ResultRun(ms, i) # {} -> <<ms[i], Msg("user", InCallOrder(ms, i))>>
          [] \E k \in 1..(i - 1) : HasCalls(ms, k) /\ i \in ResultRun(ms, k) -> <<>>
          [] OTHER -> <<ms[i]>>])

RagContext == <<Msg("user", <<Block("context", 0)>>), Msg("assistant", <<Block("context", 0)>>)>>

ModelTurnMessages ==
    ProjectToolResultOrder(SubSeq(canonical, 1, persisted))
        \o (IF transient THEN RagContext ELSE <<>>)
        \o ProjectToolResultOrder(SubSeq(canonical, persisted + 1, Len(canonical)))

Without(ms, kinds) ==
    SelectSeq([i \in DOMAIN ms |->
                  [ms[i] EXCEPT !.content = SelectSeq(@, LAMBDA b : b.kind \notin kinds)]],
              LAMBDA m : m.content # <<>>)
StripWidgets(ms) == Without(ms, {"widget"})
StripToolBlocks(ms) == Without(ms, {"use", "result"})

Opposite(role) == IF role = "user" THEN "assistant" ELSE "user"
Synthetic(role) == Msg(role, <<Block("filler", 0)>>)
SameRole(acc, m) == acc # <<>> /\ Last(acc).role = m.role

NormMerge(ms) ==
    FoldLeft(LAMBDA acc, m : IF SameRole(acc, m)
                             THEN [acc EXCEPT ![Len(acc)].content = @ \o m.content]
                             ELSE Append(acc, m), <<>>, ms)
NormFill(ms) ==
    FoldLeft(LAMBDA acc, m : IF SameRole(acc, m)
                             THEN acc \o <<Synthetic(Opposite(m.role)), m>>
                             ELSE Append(acc, m), <<>>, ms)
NormRemove(ms) ==
    FoldLeft(LAMBDA acc, m : IF SameRole(acc, m)
                             THEN [acc EXCEPT ![Len(acc)] = m]
                             ELSE Append(acc, m), <<>>, ms)

NormalizeMessages(ms, strategy) ==
    LET opened == IF ms # <<>> /\ ms[1].role # "user" THEN <<Synthetic("user")>> \o ms ELSE ms
    IN CASE strategy = "merge" -> NormMerge(opened)
         [] strategy = "fill" -> NormFill(opened)
         [] strategy = "remove" -> NormRemove(opened)

\* Tool blocks are stripped last, when no tool is visible.
ConverseMessages(strategy, tools) ==
    LET ms == NormalizeMessages(StripWidgets(ModelTurnMessages), strategy)
    IN IF tools THEN ms ELSE StripToolBlocks(ms)

-----------------------------------------------------------------------------
(* The providers' messages; Refused where the conversion fails. None of     *)
(* them knows widgets.                                                       *)

Refused == <<Msg("refused", <<>>)>>
Has(ms, test(_)) == \E i \in DOMAIN ms : \E k \in DOMAIN ms[i].content : test(ms[i].content[k])
Attached(b) == b.kind \in {"image", "document"}

\* Attachments of an assistant are skipped; a document in S3 has no bytes here
\* and is sent without any.
BuildAnthropicDocParam(b) ==
    IF b.kind = "document" /\ b.from = "s3" THEN [b EXCEPT !.from = "no bytes"] ELSE b
ToAnthropicContentBlocks(m) ==
    LET kept == SelectSeq(m.content, LAMBDA b :
                    b.kind # "widget" /\ ~ (Attached(b) /\ m.role = "assistant"))
    IN [m EXCEPT !.content = [k \in DOMAIN kept |-> BuildAnthropicDocParam(kept[k])]]
ToAnthropicMessages(ms) == [i \in DOMAIN ms |-> ToAnthropicContentBlocks(ms[i])]

\* Every block of a user becomes a message; an assistant's text is joined.
ToOpenAIUserMessages(m) ==
    [k \in DOMAIN m.content |->
        Msg(IF m.content[k].kind = "result" THEN "tool" ELSE "user", <<m.content[k]>>)]
ToOpenAIAssistantMessage(m) ==
    Msg("assistant", SelectSeq(m.content, LAMBDA b : b.kind \notin {"use", "widget"} /\ ~ Attached(b))
                     \o SelectSeq(m.content, LAMBDA b : b.kind = "use"))
ValidateOpenAIDocumentSources(ms) ==
    ~ Has(ms, LAMBDA b : b.kind = "document" /\ b.from \in {"url", "s3"})
ToOpenAIMessages(ms) ==
    IF ValidateOpenAIDocumentSources(ms)
    THEN FlattenSeq([i \in DOMAIN ms |->
             IF ms[i].role = "user" THEN ToOpenAIUserMessages(ms[i]) ELSE <<ToOpenAIAssistantMessage(ms[i])>>])
    ELSE Refused

\* Bytes that cannot be decoded or fetched, and files it does not know, fail the
\* call; empty text is dropped, and a message without content is filled.
ToBedrockContentBlocks(m) ==
    LET kept == SelectSeq(m.content, LAMBDA b : b.kind \notin {"empty text", "widget"})
    IN [m EXCEPT !.content = IF kept = <<>> THEN <<Block("filler", 0)>> ELSE kept]
ToBedrockMessages(ms) ==
    IF Has(ms, LAMBDA b : Attached(b) /\ (b.from = "broken" \/ (b.kind = "document" /\ b.from = "file")))
    THEN Refused
    ELSE [i \in DOMAIN ms |-> ToBedrockContentBlocks(ms[i])]

ProviderMessages(p, ms) ==
    CASE p = "anthropic" -> ToAnthropicMessages(ms)
      [] p = "openai" -> ToOpenAIMessages(ms)
      [] p = "bedrock" -> ToBedrockMessages(ms)

-----------------------------------------------------------------------------
(* Properties.                                                               *)

IDs(bs) == [k \in DOMAIN bs |-> bs[k].id]
Leading(m, kind) == {k \in DOMAIN m.content : \A j \in 1..k : m.content[j].kind = kind}

\* Calls are answered at once, completely, in their order, and before anything
\* else; nothing else is an answer.
Answered(req, i) ==
    LET ids == IDs(Of(req, i, "use"))
    IN /\ i < Len(req) /\ req[i + 1].role = "user"
       /\ IDs(Of(req, i + 1, "result")) = ids
       /\ Cardinality(Leading(req[i + 1], "result")) = Len(ids)
AnsweredEach(req, i) ==
    LET ids == IDs(Of(req, i, "use"))
    IN \A k \in DOMAIN ids :
           i + k <= Len(req) /\ req[i + k].role = "tool" /\ req[i + k].content[1].id = ids[k]

Paired(p, req) ==
    /\ \A i \in DOMAIN req : Of(req, i, "use") # <<>> =>
           IF p = "openai" THEN AnsweredEach(req, i) ELSE Answered(req, i)
    /\ \A i \in DOMAIN req : \A b \in ToSet(Of(req, i, "result")) :
           \E k \in 1..(i - 1) : b.id \in ToSet(IDs(Of(req, k, "use")))

Alternates(req) ==
    /\ req[1].role = "user"
    /\ \A i \in 1..(Len(req) - 1) : req[i].role # req[i + 1].role

\* How often a block occurs.
Count(ms, b) ==
    FoldLeft(LAMBDA n, m : n + Len(SelectSeq(m.content, LAMBDA c : c = b)), 0, ms)
Complete(p, req) ==
    \A m \in ToSet(canonical) : \A b \in ToSet(m.content) :
        b.kind \notin {"widget", "empty text"} /\ ~ (p = "anthropic" /\ b.from = "s3") =>
            Count(req, b) = Count(canonical, b)

\* Retrieved context that a durable turn's saves have left at the end.
ContextLast == transient /\ persisted = Len(canonical)

Providers == {"anthropic", "openai", "bedrock"}
HasToolBlocks(req) == Has(req, LAMBDA b : b.kind \in {"use", "result"})

=============================================================================
