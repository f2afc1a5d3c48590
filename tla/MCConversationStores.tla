----------------------- MODULE MCConversationStores -------------------------
EXTENDS ConversationStores, ExecutionStores, TLC

Deploy(b, m, s, old, r) ==
    [backend |-> b, manager |-> m, separate |-> FALSE, start |-> s, legacy |-> old, removals |-> r]

Talk == <<"text", "use", "result">>

\* Every backend from an empty conversation and with a rolling summary over
\* an existing one; the window on one of them; both legacy layouts. A
\* conversation is removed only where no summary is kept.
MCConfigs == <<
    Deploy("memory", "none", <<>>, FALSE, 0),
    Deploy("redis", "none", <<>>, FALSE, 1),
    Deploy("postgres", "none", <<>>, FALSE, 1),
    Deploy("sqlite", "none", <<>>, FALSE, 0),
    Deploy("memory", "rolling", Talk, FALSE, 0),
    Deploy("redis", "rolling", Talk, FALSE, 0),
    Deploy("postgres", "rolling", Talk, FALSE, 0),
    Deploy("sqlite", "rolling", Talk, FALSE, 0),
    Deploy("redis", "window", Talk, FALSE, 0),
    Deploy("postgres", "window", Talk, TRUE, 0),
    Deploy("sqlite", "none", Talk, TRUE, 0) >>

AnyClient == Permutations(Clients)
\* The two stores share nothing: a behaviour exercises one of them.
StoresInit == Init /\ XInit /\ (conf = 1 \/ store = "memory")
StoresNext == \/ calls = 0 /\ store = "memory" /\ Next /\ UNCHANGED xvars
              \/ conf = 1 /\ used = 0 /\ XNext /\ UNCHANGED vars
              \/ calls = MaxCalls /\ UNCHANGED <<vars, xvars>>
StoresSpec == StoresInit /\ [][StoresNext]_<<vars, xvars>>
=============================================================================
