---------------------------- MODULE MCModelTurn ----------------------------
(***************************************************************************)
(* Model checking of what surrounds a model call: the request made from    *)
(* the history, the provider's stream behind a fallback chain, and the     *)
(* event stream of the invocation. They share no state; a behaviour        *)
(* exercises one of them.                                                  *)
(***************************************************************************)
EXTENDS ModelRequest, ModelStream, EventStream

At(kind, from) == [kind |-> kind, id |-> 9, from |-> from]
MCRepertoires ==
    {{<<Text>>, other} : other \in
        {<<EmptyText>>,
         <<At("document", "url"), At("image", "data"), Text>>,
         <<At("document", "file"), At("image", "broken"), EmptyText>>,
         <<At("document", "s3"), Text>>}}
MCChains == {<<"anthropic", "openai">>, <<"bedrock", "anthropic">>, <<"openai", "bedrock">>}
MCBatchCalls == 1..2

VARIABLE part   \* the one a behaviour exercises

MCInit ==
    /\ part \in {"request", "stream", "events"}
    /\ HInit /\ SInit /\ EInit
    /\ part # "request" => ~ durable /\ inputs = {<<Text>>, <<EmptyText>>}
    /\ part # "stream" => chain = <<"anthropic", "openai">> /\ listening
MCNext ==
    /\ UNCHANGED part
    /\ \/ part = "request" /\ HNext /\ UNCHANGED <<svars, evars>>
       \/ part = "stream" /\ SNext /\ UNCHANGED <<hvars, evars>>
       \/ part = "events" /\ ENext /\ UNCHANGED <<hvars, svars>>

\* The engine goes on while it can, and a call that has queued an event sends
\* its wake-up. Handlers need not return.
MCFairness ==
    /\ WF_evars(part = "events" /\ EngineStep)
    /\ \A c \in BatchCalls : WF_evars(part = "events" /\ CallSignal(c))

ModelTurnSpec == MCInit /\ [][MCNext]_<<part, hvars, svars, evars>> /\ MCFairness
=============================================================================
