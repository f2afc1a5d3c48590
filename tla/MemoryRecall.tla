--------------------------- MODULE MemoryRecall -----------------------------
(***************************************************************************)
(* What a memory store makes of a struct's `db` tags, of its values and of *)
(* a RecallQuery (memory/, memory/redis, memory/postgres). A field is its  *)
(* Go kind and its set of tag modifiers; a value of a field is a pair      *)
(* <<kind, number>>, where the number stands for the value in its order;   *)
(* a time counts ticks, Tick of them to the second. A filter is            *)
(* [field, op, vals], an order [field, dir], and a query                   *)
(* [text, limit, min, filters, order].                                     *)
(***************************************************************************)
EXTENDS Integers, Sequences, FiniteSets, TLC

CONSTANTS Tick,     \* ticks of the clock to a second
          Score,    \* similarity of each content to the query, 1..MaxScore
          MaxScore  \* the similarity 1.0

Roles == {"pk", "identifier", "content"}
Storage == {"jsonb", "tag", "numeric"}
Kinds == {"string", "bool", "int", "float", "time", "pointer", "struct"}

\* A float that is not finite, and the ends of a RediSearch range.
Inf == 99

-----------------------------------------------------------------------------
(* Redis: the index type of a field, and the declarations that are refused. *)

InferRedisFieldType(kind) ==
    IF kind \in {"int", "float", "time", "pointer"} THEN "NUMERIC" ELSE "TAG"

RedisFieldType(f) ==
    CASE f.mods \cap {"content", "jsonb"} # {} -> "TEXT"
      [] f.mods \cap {"identifier", "tag"} # {} -> "TAG"
      [] "numeric" \in f.mods -> "NUMERIC"
      [] OTHER -> InferRedisFieldType(f.kind)

\* Contradictory modifiers: two roles, two storages, or a role stored otherwise.
ConflictingTags(f) ==
    LET roles == f.mods \cap Roles
        stored == f.mods \cap Storage
    IN \/ Cardinality(roles) > 1
       \/ Cardinality(stored) > 1
       \/ roles # {} /\ "jsonb" \in stored
       \/ "content" \in roles /\ stored # {}
       \/ "identifier" \in roles /\ ~ stored \subseteq {"tag"}

\* Kinds that would not come back from a HASH field as they went in.
UnsupportedKind(f) ==
    CASE f.mods \cap {"identifier", "content"} # {} /\ f.kind # "string" -> TRUE
      [] "jsonb" \in f.mods -> FALSE
      [] f.kind = "time" -> RedisFieldType(f) # "NUMERIC"
      [] f.kind \in {"int", "float"} -> FALSE
      [] f.kind \in {"string", "bool"} -> RedisFieldType(f) = "NUMERIC"
      [] OTHER -> TRUE

\* A struct is a function from field names to fields.
Tagged(t, role) == {n \in DOMAIN t : role \in t[n].mods}

RedisSchemaOK(t) ==
    /\ \A n \in DOMAIN t : ~ ConflictingTags(t[n]) /\ ~ UnsupportedKind(t[n])
    /\ \A role \in Roles : Cardinality(Tagged(t, role)) <= 1
    /\ Tagged(t, "identifier") # {} /\ Tagged(t, "content") # {}

\* The other two stores only ask for the roles they need.
PostgresSchemaOK(t) == Tagged(t, "identifier") # {} /\ Tagged(t, "content") # {}
MemorySchemaOK(t) == Tagged(t, "identifier") # {} /\ Tagged(t, "content") # {}

\* The fields a model may fill in through a tool.
InputFields(t) ==
    {n \in DOMAIN t : t[n].mods \cap {"pk", "identifier", "noinput"} = {}}

\* An index that is already there serves a schema only if it has every field,
\* with its type, and vectors of the same dimension under the same prefix.
IndexOf(t, dim, prefix) ==
    [prefix |-> prefix, dim |-> dim, types |-> [n \in DOMAIN t |-> RedisFieldType(t[n])]]

\* Fault: the fields of an index found on opening are not compared.
CompatibleShape(index, t, dim, prefix) == index.prefix = prefix /\ index.dim = dim

CompatibleIndex(index, t, dim, prefix) ==
    /\ index.prefix = prefix
    /\ \A n \in DOMAIN t :
           n \in DOMAIN index.types /\ index.types[n] = RedisFieldType(t[n])
    /\ index.dim = dim

-----------------------------------------------------------------------------
(* Values. A HASH keeps text: json, a decimal integer, a decimal fraction,   *)
(* the string itself, or Go's %v of anything else, which nothing reads back. *)

Encodable(f, v) == ~ (f.kind = "float" /\ v[2] = Inf)

EncodeField(f, v) ==
    CASE "jsonb" \in f.mods -> <<"json", v[2]>>
      [] f.kind = "time" -> <<"decimal", v[2] \div Tick>>
      [] f.kind \in {"int", "float"} -> <<"decimal", v[2]>>
      [] f.kind \in {"string", "bool"} -> <<"text", v[2]>>
      [] OTHER -> <<"printed", 0>>

Decodable(f, raw) ==
    CASE "jsonb" \in f.mods -> raw[1] = "json"
      [] f.kind \in {"time", "int", "float"} -> raw[1] = "decimal"
      [] f.kind \in {"string", "bool"} -> raw[1] = "text"
      [] OTHER -> FALSE

DecodeField(f, raw) ==
    IF f.kind = "time" /\ "jsonb" \notin f.mods
    THEN <<f.kind, raw[2] * Tick>>
    ELSE <<f.kind, raw[2]>>

\* PostgreSQL fills a zero key or noinput column from the column's default.
InsertedValue(f, v) ==
    IF f.mods \cap {"pk", "noinput"} # {} /\ v[2] = 0 THEN <<f.kind, 1>> ELSE v

-----------------------------------------------------------------------------
(* Queries.                                                                  *)

ValidRecallQuery(q) == q.text # "" /\ q.limit >= 0 /\ q.min \in 0..MaxScore

\* The portable meaning of the operators.
Holds(op, x, vals) ==
    CASE op = "eq" -> x = vals[1][2]
      [] op = "ne" -> x # vals[1][2]
      [] op = "gt" -> x > vals[1][2]
      [] op = "gte" -> x >= vals[1][2]
      [] op = "lt" -> x < vals[1][2]
      [] op = "lte" -> x <= vals[1][2]
      [] op = "in" -> \E i \in DOMAIN vals : x = vals[i][2]

Operators == {"eq", "ne", "gt", "gte", "lt", "lte", "in"}

\* PostgreSQL: any schema column and operator; scalars, or a list for IN.
PostgresFilterOK(t, flt) ==
    /\ flt.field \in DOMAIN t
    /\ flt.op \in Operators
    /\ \A i \in DOMAIN flt.vals : flt.vals[i][1] # "struct"
    /\ flt.op # "in" => Len(flt.vals) = 1

PostgresOrderOK(t, ord) == ord.field \in DOMAIN t /\ ord.dir \in {"asc", "desc"}

\* The server refuses to compare a column with a value of another type.
PostgresTyped(t, flt) ==
    \A i \in DOMAIN flt.vals : flt.vals[i][1] = t[flt.field].kind

\* Redis: the text an argument is written as, when the field can take it.
TagLiteral(v) == v[2]
TagValue(v) == v[1] = "string"
NumericLiteral(v) == IF v[1] = "time" THEN v[2] \div Tick ELSE v[2]
NumericValue(v) == v[1] \in {"int", "float", "time"} /\ v[2] # Inf

FilterValuesOK(flt) ==
    /\ flt.op = "in" => flt.vals # <<>>
    /\ flt.op # "in" => Len(flt.vals) = 1

RedisFilterOK(t, flt) ==
    /\ flt.field \in DOMAIN t
    /\ FilterValuesOK(flt)
    /\ CASE RedisFieldType(t[flt.field]) = "TAG" ->
              flt.op \in {"eq", "ne", "in"} /\ \A i \in DOMAIN flt.vals : TagValue(flt.vals[i])
         [] RedisFieldType(t[flt.field]) = "NUMERIC" ->
              flt.op \in Operators /\ \A i \in DOMAIN flt.vals : NumericValue(flt.vals[i])
         [] OTHER -> FALSE

\* A clause is [not, any]: the union of its ranges, negated for "ne". The ends
\* of a range are included unless it says so.
Range(lo, hi) == [lo |-> lo, hi |-> hi, above |-> FALSE, below |-> FALSE]

CompileTagFilter(flt) ==
    [not |-> flt.op = "ne",
     any |-> {Range(TagLiteral(flt.vals[i]), TagLiteral(flt.vals[i])) : i \in DOMAIN flt.vals}]

CompileNumericFilter(flt) ==
    LET n == NumericLiteral(flt.vals[1])
    IN CASE flt.op = "in" ->
              [not |-> FALSE,
               any |-> {Range(NumericLiteral(flt.vals[i]), NumericLiteral(flt.vals[i])) :
                            i \in DOMAIN flt.vals}]
         [] flt.op = "eq" -> [not |-> FALSE, any |-> {Range(n, n)}]
         [] flt.op = "ne" -> [not |-> TRUE, any |-> {Range(n, n)}]
         [] flt.op = "gt" -> [not |-> FALSE, any |-> {[Range(n, Inf) EXCEPT !.above = TRUE]}]
         [] flt.op = "gte" -> [not |-> FALSE, any |-> {Range(n, Inf)}]
         [] flt.op = "lt" -> [not |-> FALSE, any |-> {[Range(-Inf, n) EXCEPT !.below = TRUE]}]
         [] flt.op = "lte" -> [not |-> FALSE, any |-> {Range(-Inf, n)}]

CompileFilter(t, flt) ==
    IF RedisFieldType(t[flt.field]) = "TAG"
    THEN CompileTagFilter(flt)
    ELSE CompileNumericFilter(flt)

\* RediSearch: whether an indexed value satisfies a clause.
Satisfies(clause, raw) ==
    LET inside(r) == /\ IF r.above THEN raw[2] > r.lo ELSE raw[2] >= r.lo
                     /\ IF r.below THEN raw[2] < r.hi ELSE raw[2] <= r.hi
    IN clause.not # (\E r \in clause.any : inside(r))

RedisOrderOK(t, order) ==
    \/ order = <<>>
    \/ /\ Len(order) = 1
       /\ order[1].field \in DOMAIN t
       /\ RedisFieldType(t[order[1].field]) = "NUMERIC"
       /\ order[1].dir \in {"asc", "desc"}

-----------------------------------------------------------------------------
(* Rankings of rows. A row is [owner, id, emb, f], f the stored fields.      *)

Similarity(r) == Score[r.emb]
Nearer(a, b) == Similarity(a) > Similarity(b)
ByField(ord, a, b) ==
    IF ord.dir = "asc"
    THEN a.f[ord.field][2] < b.f[ord.field][2]
    ELSE a.f[ord.field][2] > b.f[ord.field][2]

\* Earlier orders take precedence; no order means nearest first.
Before(order, a, b) ==
    IF order = <<>>
    THEN Nearer(a, b)
    ELSE \E i \in DOMAIN order :
             /\ ByField(order[i], a, b)
             /\ \A j \in 1..(i - 1) : ~ ByField(order[j], a, b) /\ ~ ByField(order[j], b, a)

Ranked(order, rs) == SortSeq(rs, LAMBDA a, b : Before(order, a, b))
Limited(n, rs) == IF n > 0 /\ n < Len(rs) THEN SubSeq(rs, 1, n) ELSE rs
=============================================================================
