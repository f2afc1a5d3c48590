--------------------------- MODULE MCMemoryRag ------------------------------
EXTENDS MemoryStores, RagIngest

Value(id, text, rank, label, at, ex) ==
    [id |-> id, text |-> text,
     f |-> [rank |-> <<"int", rank>>, label |-> <<"string", label>>, at |-> <<"time", at>>,
            extra |-> <<"int", ex>>]]

Near == Value("a", "near", 1, 1, 2, 1)
Far == Value("b", "far", 2, 1, 4, 2)
Later == Value("c", "far", 1, 2, 6, 0)
Noted == Value("", "near", 2, 2, 3, 1)
MCValues == {Near, Noted}
MCScore == [near |-> 2, far |-> 1]

MCContexts == {[identity |-> "ann", project |-> "apollo"], [identity |-> "bob", project |-> ""]}

Ask(limit, min, filters, order) ==
    [text |-> "what", limit |-> limit, min |-> min, filters |-> filters, order |-> order]
Where(field, o, kind, ns) == [field |-> field, op |-> o, vals |-> [i \in DOMAIN ns |-> <<kind, ns[i]>>]]
By(field, dir) == [field |-> field, dir |-> dir]

\* Every operator on a number, those of a label, times, lists, conjunctions,
\* rankings, limits and thresholds; and queries a store must refuse.
Every ==
    {Ask(0, 0, <<>>, <<>>), Ask(1, 0, <<>>, <<>>), Ask(2, 2, <<>>, <<>>), Ask(0, 2, <<>>, <<>>)}
    \cup {Ask(0, 0, <<Where("rank", o, "int", <<1>>)>>, <<>>) : o \in {"eq", "ne", "gt", "gte", "lt", "lte"}}
    \cup {Ask(0, 0, <<Where("label", o, "string", <<1>>)>>, <<>>) : o \in {"eq", "ne", "gt"}}
    \cup {Ask(0, 0, <<Where("at", o, "time", <<4>>)>>, <<>>) : o \in {"gt", "lte"}}
    \cup {Ask(0, 0, <<Where("rank", "in", "int", <<2, 3>>)>>, <<>>),
          Ask(0, 0, <<Where("label", "in", "string", <<1, 2>>)>>, <<>>),
          Ask(0, 0, <<Where("rank", "in", "int", <<>>)>>, <<>>),
          Ask(1, 0, <<Where("rank", "lte", "int", <<1>>), Where("label", "ne", "string", <<1>>)>>, <<>>),
          Ask(0, 0, <<Where("rank", "eq", "string", <<1>>)>>, <<>>),
          Ask(0, 0, <<>>, <<By("rank", "desc")>>),
          Ask(0, 0, <<>>, <<By("at", "asc")>>),
          Ask(1, 0, <<>>, <<By("rank", "asc")>>),
          Ask(2, 0, <<>>, <<By("rank", "asc"), By("at", "desc")>>),
          Ask(0, 0, <<>>, <<By("label", "asc")>>),
          Ask(-1, 0, <<>>, <<>>), Ask(0, 9, <<>>, <<>>)}

\* Those whose answer other calls may change while they are under way, and
\* those that need every field of the index.
Some == {Ask(0, 0, <<Where("rank", "gte", "int", <<1>>)>>, <<>>), Ask(1, 0, <<>>, <<>>)}
Fields == {Ask(1, 0, <<Where("rank", "gte", "int", <<1>>), Where("label", "ne", "string", <<0>>)>>, <<>>)}
MCQueries == [every |-> Every, some |-> Some, fields |-> Fields]

Scenario(ex, holds, idx, ask, n) ==
    [extra |-> ex, holds |-> holds, index |-> idx, ask |-> ask, calls |-> n]

Plain == [kind |-> "int", mods |-> {}]
Declared == [kind : Kinds,
             mods : {{}, {"tag"}, {"numeric"}, {"jsonb"}, {"noinput"}, {"jsonb", "noinput"},
                     {"tag", "numeric"}, {"pk"}, {"content", "jsonb"}, {"identifier", "numeric"}}]

Held == << <<"ann", Near>>, <<"ann", Far>>, <<"ann", Later>>, <<"bob", [Far EXCEPT !.id = "d"]>> >>

Was(dim, prefix, types) == [dim |-> dim, prefix |-> prefix, types |-> types]
Full == [id |-> "TAG", who |-> "TAG", text |-> "TEXT", rank |-> "NUMERIC", label |-> "TAG", at |-> "NUMERIC",
         extra |-> "NUMERIC"]
Found == {Was(1, "typed", Full), Was(2, "typed", Full), Was(1, "other", Full),
          Was(1, "typed", [Full EXCEPT !.rank = "TAG"]),
          Was(1, "typed", [n \in DOMAIN Full \ {"label"} |-> Full[n]])}

\* All queries on a full store, after a write or during it; three calls at
\* once with a few; every declaration and every index with a write and a read.
MCScenarios ==
    {Scenario(Plain, Held, NoIndex, "every", 2), Scenario(Plain, Held, NoIndex, "some", 3)}
    \cup {Scenario(ex, <<>>, NoIndex, "some", 2) : ex \in Declared}
    \cup {Scenario(Plain, <<>>, idx, "fields", 2) : idx \in Found}

MCGenerated == <<"g1", "g2", "g3", "g4">>

\* Two files that can be read, one of them empty at times, and one that cannot.
MCBatches == {<<"a.md">>, <<"a.md", "b.md">>, <<"c.bin">>}
MCLengths == [s \in Sources |-> IF s = "a.md" THEN {0, 4} ELSE {1}]
MCChunkScore == <<2, 0, 1>>

AnyClient == Permutations(Clients) \cup Permutations(Writers)

\* The two share nothing: a behaviour exercises one of them.
Untouched == backend = "memory" /\ opened = "new" /\ case = Scenario(Plain, Held, NoIndex, "every", 2)
Ended == opened = "refused" \/ calls = case.calls \/ begun = MaxIngests
MemoryRagInit == Init /\ RInit /\ (Untouched \/ vstore = "memory")
MemoryRagNext == \/ begun = 0 /\ vstore = "memory" /\ Next /\ UNCHANGED rvars
                 \/ Untouched /\ RNext /\ UNCHANGED mvars
                 \/ Ended /\ UNCHANGED <<mvars, rvars>>
MemoryRagSpec == MemoryRagInit /\ [][MemoryRagNext]_<<mvars, rvars>>
=============================================================================
