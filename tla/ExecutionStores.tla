-------------------------- MODULE ExecutionStores ---------------------------
(***************************************************************************)
(* The four ExecutionStore backends (execution/memory.go,                  *)
(* execution/postgres, execution/redis, execution/dynamodb) under clients  *)
(* that create, load and save one execution record. Every operation is one *)
(* command, statement or script of its backend; its reply may be lost, the *)
(* DynamoDB client sends a write again when it is, and Redis records       *)
(* expire. DurableExecution.tla takes the resulting record for granted.    *)
(***************************************************************************)
EXTENDS Naturals, Sequences

CONSTANTS Holders,       \* processes that hold a copy of the record
          MaxCalls,      \* bound: operations in all
          MaxExpiries    \* bound: expirations of a Redis record

VARIABLES store,   \* the backend
          rec,     \* the stored record: version (0: absent) and payload
          held,    \* the copy each holder last got back, or Nothing
          calls,   \* operations issued
          lives,   \* expirations so far
          writes,  \* payloads written in this life, in order
          told     \* <<holder, version>> of acknowledged writes

xvars == <<store, rec, held, calls, lives, writes, told>>

\* Marshal clears the version: the backend owns it. The payload that matters
\* is whose change it carries.
Nothing == [version |-> 0, payload |-> <<>>]

XInit ==
    /\ store \in {"memory", "postgres", "redis", "dynamodb"}
    /\ rec = Nothing /\ held = [c \in Holders |-> Nothing]
    /\ calls = 0 /\ lives = 0 /\ writes = <<>> /\ told = {}

Issue == calls < MaxCalls /\ calls' = calls + 1

\* The reply is the payload stamped with the durable version, or it is lost.
Put(c, version) ==
    /\ rec' = [version |-> version, payload |-> <<c>>]
    /\ writes' = Append(writes, c)
    /\ \/ held' = [held EXCEPT ![c] = rec'] /\ told' = told \cup {<<c, version>>}
       \/ store # "memory" /\ UNCHANGED <<held, told>>
    /\ UNCHANGED <<store, lives>>

\* ErrExecutionConflict, ErrExecutionNotFound: the holder keeps its copy.
Refuse == UNCHANGED <<store, rec, held, lives, writes, told>>

Create(c) ==
    /\ Issue
    /\ IF rec.version = 0 THEN Put(c, 1) ELSE Refuse

\* DynamoDB reads are strongly consistent, as those of the others are.
LoadRecord(c) ==
    /\ Issue
    /\ IF rec.version = 0 THEN Refuse
       ELSE held' = [held EXCEPT ![c] = rec] /\ UNCHANGED <<store, rec, lives, writes, told>>

\* CheckExpected: versions start at 1.
Current(c) == held[c].version # 0 /\ rec.version = held[c].version

SaveMemory(c) ==
    /\ store = "memory" /\ Issue
    /\ IF Current(c) THEN Put(c, held[c].version + 1) ELSE Refuse

\* Fault: UPDATE without AND version = $2.
SaveAnyVersion(c) ==
    /\ store = "postgres" /\ Issue
    /\ IF rec.version # 0 THEN Put(c, rec.version + 1) ELSE Refuse

\* UPDATE ... SET version = version + 1 WHERE ... AND version = $2
SavePostgres(c) ==
    /\ store = "postgres" /\ Issue
    /\ IF Current(c) THEN Put(c, rec.version + 1) ELSE Refuse

SaveRedis(c) ==
    /\ store = "redis" /\ Issue
    /\ IF Current(c) THEN Put(c, rec.version + 1) ELSE Refuse

\* The item carries the version the client computed. When the reply is lost
\* the request is sent again: it finds its own item and fails its condition.
SaveDynamo(c) ==
    /\ store = "dynamodb" /\ Issue
    /\ IF Current(c) THEN Put(c, held[c].version + 1) ELSE Refuse

ExpireRecord ==
    /\ store = "redis" /\ lives < MaxExpiries /\ rec.version # 0
    /\ rec' = Nothing /\ lives' = lives + 1 /\ writes' = <<>> /\ told' = {}
    /\ UNCHANGED <<store, held, calls>>

XNext ==
    \/ \E c \in Holders :
          \/ Create(c) \/ LoadRecord(c)
          \/ SaveMemory(c) \/ SavePostgres(c) \/ SaveRedis(c) \/ SaveDynamo(c)
    \/ ExpireRecord

XSpec == XInit /\ [][XNext]_xvars

Record == INSTANCE VersionedLog
             WITH Writers <- Holders, Entries <- Holders,
                  log <- writes, rev <- rec.version, acks <- told

\* Whoever saves from a copy saves over that copy and nothing newer: in every
\* backend a version is acknowledged to one holder and replaced once, however
\* many replies are lost or requests repeated. A record that expired and was
\* created again counts its versions anew, and only then may an old copy fit.
RecordContract ==
    /\ Record!VSpec
    /\ [][\A c \in Holders : rec' # rec /\ rec'.payload = <<c>> /\ rec.version # 0 /\ lives = 0
            => held[c] = rec]_xvars
=============================================================================
