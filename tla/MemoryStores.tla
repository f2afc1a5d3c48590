--------------------------- MODULE MemoryStores -----------------------------
(***************************************************************************)
(* The three backends of agent memory (memory/, memory/redis,              *)
(* memory/postgres) behind their tools and their exported methods: calls   *)
(* of several clients, each a step per lock, statement or Redis command,   *)
(* with the embedding service awaited, and failing, in between. The        *)
(* in-memory store appends under its lock and takes the first entry with   *)
(* an ID; PostgreSQL runs one statement per call; Redis checks ownership,  *)
(* counts and pages in commands of their own.                              *)
(***************************************************************************)
EXTENDS MemoryRecall

CONSTANTS Clients,    \* goroutines that call the store
          Contexts,   \* invocation contexts [identity, project], "" when unset
          Values,     \* values given to Remember and Update, [id, text, f]
          Queries,    \* sets of queries given to Recall, by name
          Scenarios,  \* what Init chooses from, records of
                      \*   extra: declaration of the struct's last field
                      \*   holds: entries stored before, <<owner, value>> each
                      \*   index: the Redis index found on opening, or NoIndex
                      \*   ask: the name of the queries asked
                      \*   calls: bound on the calls made
          Generated,  \* sequence of generated primary keys
          PageSize    \* keys that ForgetAll reads with one search (1000)

VARIABLES backend,  \* "memory", "redis" or "postgres"
          case,     \* the scenario chosen
          index,    \* Redis: the search index, NoIndex if there is none
          opened,   \* "new", "open" or "refused" by NewStore
          rows,     \* stored entries in the order the backend keeps them
          op,       \* each client's call in flight
          calls,    \* calls made
          fresh,    \* primary keys generated
          gone,     \* history: keys forgotten and not remembered again
          recalled  \* history: the recall that the last step answered

mvars == <<backend, case, index, opened, rows, op, calls, fresh, gone, recalled>>
store == <<backend, case>>

Struct == [id |-> [kind |-> "string", mods |-> {"pk"}],
           who |-> [kind |-> "string", mods |-> {"identifier"}],
           text |-> [kind |-> "string", mods |-> {"content"}],
           rank |-> [kind |-> "int", mods |-> {}],
           label |-> [kind |-> "string", mods |-> {}],
           at |-> [kind |-> "time", mods |-> {}],
           extra |-> case.extra]
Data == {"rank", "label", "at", "extra"}

NoIndex == [prefix |-> "", dim |-> 0, types |-> <<>>]
NoQuery == [text |-> "", limit |-> 0, min |-> 0, filters |-> <<>>, order |-> <<>>]
NoValue == [id |-> "", text |-> "", f |-> <<>>]
Nobody == [identity |-> "", project |-> ""]
Idle == [do |-> "none", at |-> "", ctx |-> Nobody, scope |-> "", owner |-> "", v |-> NoValue,
         key |-> <<"", "">>, q |-> NoQuery, keys |-> <<>>, offset |-> 0, limit |-> 0, seen |-> {}]
NoRecall == [q |-> NoQuery, op |-> Idle, res |-> <<>>]

\* The extra field holds a value of its own kind.
Given(v) == [v.f EXCEPT !["extra"] = <<case.extra.kind, @[2]>>]

\* What a backend keeps of a value.
Stored(v) ==
    CASE backend = "redis" -> [n \in Data |-> EncodeField(Struct[n], Given(v)[n])]
      [] backend = "postgres" -> [n \in Data |-> InsertedValue(Struct[n], Given(v)[n])]
      [] OTHER -> Given(v)

Row(owner, id, v) ==
    [key |-> <<owner, id>>, owner |-> owner, id |-> id, emb |-> v.text, f |-> Stored(v), given |-> Given(v)]

Keys(rs) == {rs[i].key : i \in DOMAIN rs}
Without(rs, S) == SelectSeq(rs, LAMBDA r : r.key \notin S)
Of(rs, owner) == SelectSeq(rs, LAMBDA r : r.owner = owner)
Drop(rs, i) == SubSeq(rs, 1, i - 1) \o SubSeq(rs, i + 1, Len(rs))

Init ==
    /\ backend \in {"memory", "redis", "postgres"}
    /\ case \in Scenarios
    /\ backend # "redis" => case.extra.mods \cap Roles = {} /\ case.index = NoIndex
    /\ rows = [i \in DOMAIN case.holds |-> Row(case.holds[i][1], case.holds[i][2].id, case.holds[i][2])]
    /\ index = IF backend = "redis" /\ rows # <<>> THEN IndexOf(Struct, 1, "typed") ELSE case.index
    /\ opened = "new"
    /\ op = [c \in Clients |-> Idle]
    /\ calls = 0 /\ fresh = 0 /\ gone = {} /\ recalled = NoRecall

-----------------------------------------------------------------------------
(* NewStore.                                                                 *)

OpenMemory ==
    /\ backend = "memory" /\ opened = "new"
    /\ opened' = IF MemorySchemaOK(Struct) THEN "open" ELSE "refused"
    /\ UNCHANGED <<store, index, rows, op, calls, fresh, gone, recalled>>

OpenPostgres ==
    /\ backend = "postgres" /\ opened = "new"
    /\ opened' = IF PostgresSchemaOK(Struct) THEN "open" ELSE "refused"
    /\ UNCHANGED <<store, index, rows, op, calls, fresh, gone, recalled>>

\* FT.CREATE, or a look at the index that is there already.
CreateOrValidateIndex ==
    IF index = NoIndex
    THEN index' = IndexOf(Struct, 1, "typed") /\ opened' = "open"
    ELSE /\ opened' = IF CompatibleIndex(index, Struct, 1, "typed") THEN "open" ELSE "refused"
         /\ UNCHANGED index

OpenRedis ==
    /\ backend = "redis" /\ opened = "new"
    /\ IF RedisSchemaOK(Struct)
       THEN CreateOrValidateIndex
       ELSE opened' = "refused" /\ UNCHANGED index
    /\ UNCHANGED <<store, rows, op, calls, fresh, gone, recalled>>

-----------------------------------------------------------------------------
(* Calls. A tool resolves the identity or its strict scope first; a value    *)
(* without a key comes from a tool, whose schema has the input fields only.  *)

ResolveIdentity(ctx, scope) == IF scope # "" THEN ctx.project ELSE ctx.identity

MayCall(c) == opened = "open" /\ op[c] = Idle /\ calls < case.calls

Call(c, do, at, more) ==
    /\ MayCall(c)
    /\ calls' = calls + 1
    /\ recalled' = NoRecall
    /\ \E ctx \in Contexts, scope \in {"", "project"} :
           LET owner == ResolveIdentity(ctx, scope)
           IN op' = [op EXCEPT ![c] =
                  IF owner = "" THEN Idle
                  ELSE [more EXCEPT !.do = do, !.at = at, !.ctx = ctx, !.scope = scope, !.owner = owner]]
    /\ UNCHANGED <<store, index, opened, rows, fresh, gone>>

Return(c) == op' = [op EXCEPT ![c] = Idle]
Goto(c, at) == op' = [op EXCEPT ![c].at = at]
Kept == UNCHANGED <<store, index, opened, calls>>
Reset == recalled' = NoRecall

FromTool(v) ==
    IF v.id # "" \/ "extra" \in InputFields(Struct) THEN v ELSE [v EXCEPT !.f["extra"][2] = 0]

RememberTool(c) ==
    \E v \in Values : v.text # "" /\ Call(c, "remember", "embed", [Idle EXCEPT !.v = FromTool(v)])

\* The model may name any key, its own or not.
UpdateTool(c) ==
    \E v \in Values, k \in Keys(rows) \cup gone :
        Call(c, "update", IF backend = "redis" THEN "check" ELSE "embed",
             [Idle EXCEPT !.v = FromTool(v), !.key = k])

ForgetTool(c) ==
    \E k \in Keys(rows) \cup gone :
        Call(c, "forget", IF backend = "redis" THEN "check" ELSE "write", [Idle EXCEPT !.key = k])

CallForgetAll(c) ==
    \E owner \in {rows[i].owner : i \in DOMAIN rows} :
        /\ Call(c, "forgetall", IF backend = "redis" THEN "page" ELSE "write",
                [Idle EXCEPT !.seen = Keys(Of(rows, owner))])
        /\ op'[c] # Idle => op'[c].owner = owner

-----------------------------------------------------------------------------
(* Embedding, and the history of what was forgotten.                         *)

Needs(c, do, at) == op[c].do = do /\ op[c].at = at

\* The content is checked before the service is asked; the answer may be an
\* error or a vector that does not fit.
Embed(c) ==
    /\ op[c].at = "embed"
    /\ \/ Return(c)
       \/ /\ op[c].do = "recall" \/ op[c].v.text # ""
          /\ Goto(c, "write")
    /\ Kept /\ Reset /\ UNCHANGED <<rows, fresh, gone>>

\* Other calls' view of what ForgetAll set out to remove: a key written since
\* is theirs no longer, and Redis pages move under an overwrite or a removal.
Seen(k, moved) ==
    [d \in Clients |-> [op[d] EXCEPT !.seen = IF moved /\ backend = "redis" THEN {} ELSE @ \ {k}]]

Put(c, k, rs) ==
    /\ rows' = rs
    /\ gone' = gone \ {k}
    /\ op' = [Seen(k, k \in Keys(rows)) EXCEPT ![c] = Idle]
    /\ Kept /\ Reset

\* A Redis update that has passed its ownership check writes all the same.
Overtaken(k) ==
    \E d \in Clients : op[d].do = "update" /\ op[d].key = k /\ op[d].at # "check" /\ backend = "redis"

Removed(c, K, rs) ==
    /\ rows' = rs
    /\ gone' = gone \cup {k \in K : ~ Overtaken(k)}
    /\ op' = [d \in Clients |->
                 IF d = c THEN Idle
                 ELSE [op[d] EXCEPT !.seen = IF backend = "redis" THEN {} ELSE @ \ K]]
    /\ Kept /\ Reset /\ UNCHANGED fresh

-----------------------------------------------------------------------------
(* Remember.                                                                 *)

NewID(v) == IF v.id = "" THEN Generated[fresh + 1] ELSE v.id
CountID(v) == fresh' = IF v.id = "" THEN fresh + 1 ELSE fresh

RememberMemory(c) ==
    /\ backend = "memory" /\ Needs(c, "remember", "write")
    /\ LET r == Row(op[c].owner, NewID(op[c].v), op[c].v)
       IN Put(c, r.key, Append(rows, r)) /\ CountID(op[c].v)

\* INSERT fails on a primary key that any identity has used.
RememberPostgres(c) ==
    /\ backend = "postgres" /\ Needs(c, "remember", "write")
    /\ LET r == Row(op[c].owner, NewID(op[c].v), op[c].v)
       IN IF \E i \in DOMAIN rows : rows[i].id = r.id
          THEN Return(c) /\ Kept /\ Reset /\ UNCHANGED <<rows, fresh, gone>>
          ELSE Put(c, r.key, Append(rows, r)) /\ CountID(op[c].v)

\* HSET overwrites the hash of the same identity and key.
HSet(rs, r) == Append(Without(rs, {r.key}), r)

AllEncodable(v) == \A n \in Data : Encodable(Struct[n], Given(v)[n])

RememberRedis(c) ==
    /\ backend = "redis" /\ Needs(c, "remember", "write")
    /\ LET r == Row(op[c].owner, NewID(op[c].v), op[c].v)
       IN IF AllEncodable(op[c].v)
          THEN Put(c, r.key, HSet(rows, r)) /\ CountID(op[c].v)
          ELSE Return(c) /\ Kept /\ Reset /\ UNCHANGED <<rows, fresh, gone>>

-----------------------------------------------------------------------------
(* Update.                                                                   *)

\* Entries that a caller of this identity reaches by an ID: its own. Redis IDs
\* are whole keys, the others' primary keys.
Reaches(c, r) ==
    /\ r.owner = op[c].owner
    /\ IF backend = "redis" THEN r.key = op[c].key ELSE r.id = op[c].key[2]

First(c) == {i \in DOMAIN rows : Reaches(c, rows[i]) /\ \A j \in 1..(i - 1) : ~ Reaches(c, rows[j])}

Replaced(c, rs) ==
    /\ rows' = rs
    /\ op' = [Seen(op[c].key, TRUE) EXCEPT ![c] = Idle]
    /\ Kept /\ Reset /\ UNCHANGED <<fresh, gone>>

NotFound(c) == Return(c) /\ Kept /\ Reset /\ UNCHANGED <<rows, fresh, gone>>

UpdateMemory(c) ==
    /\ backend = "memory" /\ Needs(c, "update", "write")
    /\ IF First(c) = {}
       THEN NotFound(c)
       ELSE \E i \in First(c) :
                Replaced(c, [rows EXCEPT ![i] = Row(op[c].owner, rows[i].id, op[c].v)])

\* Every column but the key and the identifier is set, defaults or not.
UpdatePostgres(c) ==
    /\ backend = "postgres" /\ Needs(c, "update", "write")
    /\ IF First(c) = {}
       THEN NotFound(c)
       ELSE \E i \in First(c) :
                Replaced(c, [rows EXCEPT ![i] =
                    [Row(op[c].owner, rows[i].id, op[c].v) EXCEPT !.f = Given(op[c].v)]])


EntryOwnedBy(c) == \E i \in DOMAIN rows : rows[i].key = op[c].key /\ rows[i].owner = op[c].owner

CheckOwner(c) ==
    /\ backend = "redis" /\ op[c].at = "check"
    /\ IF EntryOwnedBy(c)
       THEN Goto(c, IF op[c].do = "update" THEN "embed" ELSE "write")
       ELSE Return(c)
    /\ Kept /\ Reset /\ UNCHANGED <<rows, fresh, gone>>

UpdateRedis(c) ==
    /\ backend = "redis" /\ Needs(c, "update", "write")
    /\ IF AllEncodable(op[c].v)
       THEN Replaced(c, HSet(rows, [Row(op[c].owner, op[c].key[2], op[c].v) EXCEPT !.key = op[c].key]))
       ELSE NotFound(c)

-----------------------------------------------------------------------------
(* Forget and ForgetAll.                                                     *)

\* One of several entries with the same ID leaves the others.
ForgetMemory(c) ==
    /\ backend = "memory" /\ Needs(c, "forget", "write")
    /\ IF First(c) = {}
       THEN NotFound(c)
       ELSE \E i \in First(c) : Removed(c, {rows[i].key} \ Keys(Drop(rows, i)), Drop(rows, i))

ForgetPostgres(c) ==
    /\ backend = "postgres" /\ Needs(c, "forget", "write")
    /\ IF First(c) = {}
       THEN NotFound(c)
       ELSE \E i \in First(c) : Removed(c, {rows[i].key}, Drop(rows, i))

ForgetRedis(c) ==
    /\ backend = "redis" /\ Needs(c, "forget", "write")
    /\ Removed(c, {op[c].key}, Without(rows, {op[c].key}))

ForgetAllMemory(c) ==
    /\ backend = "memory" /\ Needs(c, "forgetall", "write")
    /\ Removed(c, op[c].seen, SelectSeq(rows, LAMBDA r : r.owner # op[c].owner))

ForgetAllPostgres(c) ==
    /\ backend = "postgres" /\ Needs(c, "forgetall", "write")
    /\ Removed(c, op[c].seen, SelectSeq(rows, LAMBDA r : r.owner # op[c].owner))

\* collectPagedKeys: a short page is the last one.
PageOf(rs, offset) == SubSeq(rs, offset + 1, IF offset + PageSize < Len(rs) THEN offset + PageSize ELSE Len(rs))

\* Fault: only the first page is read.
FirstPageOnly(c) ==
    /\ backend = "redis" /\ Needs(c, "forgetall", "page")
    /\ LET page == PageOf(Of(rows, op[c].owner), 0)
       IN op' = [op EXCEPT ![c].keys = [i \in DOMAIN page |-> page[i].key], ![c].at = "write"]
    /\ Kept /\ Reset /\ UNCHANGED <<rows, fresh, gone>>

CollectPage(c) ==
    /\ backend = "redis" /\ Needs(c, "forgetall", "page")
    /\ LET page == PageOf(Of(rows, op[c].owner), op[c].offset)
       IN op' = [op EXCEPT ![c].keys = @ \o [i \in DOMAIN page |-> page[i].key],
                           ![c].offset = @ + Len(page),
                           ![c].at = IF Len(page) < PageSize THEN "write" ELSE "page"]
    /\ Kept /\ Reset /\ UNCHANGED <<rows, fresh, gone>>

\* DEL of the keys in batches; they fit in one here.
ForgetAllRedis(c) ==
    /\ backend = "redis" /\ Needs(c, "forgetall", "write")
    /\ Removed(c, op[c].seen, Without(rows, {op[c].keys[i] : i \in DOMAIN op[c].keys}))

-----------------------------------------------------------------------------
(* Recall.                                                                   *)

AcceptedBy(b, q) ==
    /\ ValidRecallQuery(q)
    /\ CASE b = "memory" -> q.filters = <<>> /\ q.order = <<>>
         [] b = "postgres" -> /\ \A i \in DOMAIN q.filters : PostgresFilterOK(Struct, q.filters[i])
                              /\ \A i \in DOMAIN q.order : PostgresOrderOK(Struct, q.order[i])
         [] b = "redis" -> /\ \A i \in DOMAIN q.filters : RedisFilterOK(Struct, q.filters[i])
                           /\ RedisOrderOK(Struct, q.order)

\* The tool asks for five entries when the model names no limit. Recalls only
\* read, so one at a time sees all there is to see.
RecallTool(c) ==
    /\ \A d \in Clients : op[d].do # "recall"
    /\ \E q \in Queries[case.ask] :
           LET asked == IF q.limit = 0 /\ q.filters = <<>> /\ q.order = <<>> /\ q.min = 0
                        THEN [q EXCEPT !.limit = 5] ELSE q
           IN /\ AcceptedBy(backend, asked)
              /\ Call(c, "recall", IF backend = "redis" /\ asked.limit = 0 THEN "count" ELSE "embed",
                      [Idle EXCEPT !.q = asked, !.limit = asked.limit])

RejectRecall(c) ==
    /\ MayCall(c)
    /\ \E q \in Queries[case.ask] : ~ AcceptedBy(backend, q)
    /\ calls' = calls + 1
    /\ Reset /\ UNCHANGED <<store, index, opened, rows, op, fresh, gone>>

Answer(c, res) ==
    /\ recalled' = [q |-> op[c].q, op |-> op[c], res |-> res]
    /\ Return(c) /\ Kept /\ UNCHANGED <<rows, fresh, gone>>

Numbered == [i \in DOMAIN rows |-> [of |-> i, owner |-> rows[i].owner, emb |-> rows[i].emb, f |-> rows[i].f]]
Enough(q, r) == q.min = 0 \/ Similarity(r) >= q.min

RecallMemory(c) ==
    /\ backend = "memory" /\ Needs(c, "recall", "write")
    /\ LET q == op[c].q
           found == SelectSeq(Numbered, LAMBDA r : r.owner = op[c].owner /\ Enough(q, r))
       IN Answer(c, Limited(q.limit, Ranked(<<>>, found)))

BuildRecallQuery(q, owner, r) ==
    /\ r.owner = owner
    /\ Enough(q, r)
    /\ \A i \in DOMAIN q.filters :
           Holds(q.filters[i].op, r.f[q.filters[i].field][2], q.filters[i].vals)

RecallPostgres(c) ==
    /\ backend = "postgres" /\ Needs(c, "recall", "write")
    /\ LET q == op[c].q
       IN IF \A i \in DOMAIN q.filters : PostgresTyped(Struct, q.filters[i])
          THEN Answer(c, Limited(q.limit, Ranked(q.order,
                   SelectSeq(Numbered, LAMBDA r : BuildRecallQuery(q, op[c].owner, r)))))
          ELSE NotFound(c)

\* The search sees the fields the index was made with.
BuildRecallFilter(q, owner, r) ==
    /\ index.dim = 1 /\ index.prefix = "typed"
    /\ r.owner = owner
    /\ \A i \in DOMAIN q.filters :
           /\ q.filters[i].field \in DOMAIN index.types
           /\ index.types[q.filters[i].field] = RedisFieldType(Struct[q.filters[i].field])
           /\ Satisfies(CompileFilter(Struct, q.filters[i]), r.f[q.filters[i].field])

Matches(q, owner) == SelectSeq(Numbered, LAMBDA r : BuildRecallFilter(q, owner, r))

RecallMatchCount(c) ==
    /\ backend = "redis" /\ Needs(c, "recall", "count")
    /\ LET count == Len(Matches(op[c].q, op[c].owner))
       IN IF count = 0
          THEN Answer(c, <<>>)
          ELSE /\ op' = [op EXCEPT ![c].limit = count, ![c].at = "embed"]
               /\ Kept /\ Reset /\ UNCHANGED <<rows, fresh, gone>>

\* KNN keeps the nearest; SORTBY orders those; the threshold comes last.
KNN(o) == Limited(o.limit, Ranked(<<>>, Matches(o.q, o.owner)))

ScanEntry(r) == [r EXCEPT !.f = [n \in Data |-> DecodeField(Struct[n], r.f[n])]]

RecallRedis(c) ==
    /\ backend = "redis" /\ Needs(c, "recall", "write")
    /\ LET q == op[c].q
           near == KNN(op[c])
           sorted == Ranked(q.order, near)
           kept == SelectSeq(sorted, LAMBDA r : Enough(q, r))
       IN IF \A i \in DOMAIN near, n \in Data : Decodable(Struct[n], near[i].f[n])
          THEN Answer(c, [i \in DOMAIN kept |-> ScanEntry(kept[i])])
          ELSE NotFound(c)

-----------------------------------------------------------------------------
Next ==
    \/ OpenMemory \/ OpenPostgres \/ OpenRedis
    \/ \E c \in Clients :
           \/ RememberTool(c) \/ UpdateTool(c) \/ ForgetTool(c) \/ CallForgetAll(c)
           \/ RecallTool(c) \/ RejectRecall(c) \/ Embed(c)
           \/ RememberMemory(c) \/ RememberPostgres(c) \/ RememberRedis(c)
           \/ UpdateMemory(c) \/ UpdatePostgres(c) \/ CheckOwner(c) \/ UpdateRedis(c)
           \/ ForgetMemory(c) \/ ForgetPostgres(c) \/ ForgetRedis(c)
           \/ ForgetAllMemory(c) \/ ForgetAllPostgres(c) \/ CollectPage(c) \/ ForgetAllRedis(c)
           \/ RecallMemory(c) \/ RecallPostgres(c) \/ RecallMatchCount(c) \/ RecallRedis(c)

-----------------------------------------------------------------------------
(* Properties.                                                               *)

Entitled(o) == IF o.scope = "" THEN o.ctx.identity ELSE o.ctx.project


\* Once Forget or ForgetAll has returned, what it removed stays removed until
\* it is remembered again: no update, page boundary or late step brings it
\* back. (A Redis update already past its ownership check does, and an
\* overlapping removal shifts ForgetAll's pages: both are left out.)
ForgottenStaysForgotten == gone \cap Keys(rows) = {}

\* Times that Redis rounds down to the second take part in the query.
Rounded(q) ==
    /\ backend = "redis" /\ Struct["at"].kind = "time"
    /\ \/ \E i \in DOMAIN q.filters : q.filters[i].field = "at"
       \/ \E i \in DOMAIN q.order : q.order[i].field = "at"
    /\ \/ \E i \in DOMAIN rows : rows[i].given["at"][2] % Tick # 0
       \/ \E i \in DOMAIN q.filters : \E k \in DOMAIN q.filters[i].vals :
              q.filters[i].vals[k][1] = "time" /\ q.filters[i].vals[k][2] % Tick # 0

\* Redis counted other matches than it then searched, or cut before it sorted.
Approximate(o) ==
    /\ backend = "redis"
    /\ \/ o.limit # o.q.limit /\ o.limit # Len(Matches(o.q, o.owner))
       \/ o.q.order # <<>> /\ o.q.limit > 0

\* The entries a query asks for, and their ranking, by the values as given.
Meant(q, owner) ==
    {i \in DOMAIN rows :
        /\ rows[i].owner = owner
        /\ Enough(q, rows[i])
        /\ \A k \in DOMAIN q.filters :
               Holds(q.filters[k].op, rows[i].given[q.filters[k].field][2], q.filters[k].vals)}
Ahead(q, i, j) ==
    Before(q.order, [rows[i] EXCEPT !.f = rows[i].given], [rows[j] EXCEPT !.f = rows[j].given])

\* A value comes back as it was given: to the second from Redis, and but for
\* the columns that PostgreSQL fills in itself.
ComesBack(n, given, got) ==
    \/ got = given
    \/ backend = "redis" /\ given[1] = "time" /\ got = <<"time", (given[2] \div Tick) * Tick>>
    \/ backend = "postgres" /\ given[2] = 0 /\ "noinput" \in Struct[n].mods

\* Every store that accepts a query answers with the entries it asks for, all
\* of them or the first Limit in the ranking asked for, and with the values
\* that were stored: compiled filters mean what the portable operators mean,
\* an accepted field round-trips, and an index that does not fit is refused
\* (memory/memory.go:48-85). Left out are the queries Redis answers from
\* rounded times, a stale count or its nearest entries only.
RecallFaithful ==
    LET q == recalled.q
        res == recalled.res
        meant == Meant(q, recalled.op.owner)
        got == {res[i].of : i \in DOMAIN res}
    IN recalled # NoRecall /\ ~ Rounded(q) /\ ~ Approximate(recalled.op) =>
           /\ got \subseteq meant
           /\ Cardinality(got) = Len(res)
           /\ Len(res) = IF q.limit > 0 /\ q.limit < Cardinality(meant) THEN q.limit ELSE Cardinality(meant)
           /\ \A i, j \in DOMAIN res : i < j => ~ Ahead(q, res[j].of, res[i].of)
           /\ \A m \in meant \ got, i \in DOMAIN res : ~ Ahead(q, m, res[i].of)
           /\ \A i \in DOMAIN res, n \in Data : ComesBack(n, rows[res[i].of].given[n], res[i].f[n])
=============================================================================
