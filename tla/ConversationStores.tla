------------------------ MODULE ConversationStores --------------------------
(***************************************************************************)
(* One conversation, kept by each of the four ConversationStore backends   *)
(* (conversation/, conversation/redis, conversation/postgres,              *)
(* conversation/sqlite), and the agents that take turns in it through a    *)
(* context manager (contextmanager/). A turn is prepareTurnMessages,       *)
(* modelTurnMessages and saveConversation of engine.go: the boundary of    *)
(* the history, LoadAfter, Prepare, then Append under the revision read.   *)
(* Every call is one step for each command or transaction that other       *)
(* processes can see between, so loads made of two statements are torn,    *)
(* PostgreSQL's FOR UPDATE locks nothing when the row is missing and       *)
(* SQLite's deferred transactions write against the snapshot they read.    *)
(***************************************************************************)
EXTENDS Naturals, Sequences

CONSTANTS Clients,     \* processes (agents) that share the conversation
          Configs,     \* sequence of deployments Init chooses from, records
                       \*   [backend, manager, separate, start, legacy, removals]
          MaxTurns,    \* bound: turns taken in all
          MaxLog,      \* bound: messages appended in all
          WindowCount, \* Window: messages kept
          Preserve     \* RollingSummary: messages never summarised

Backends == {"memory", "redis", "postgres", "sqlite"}
Managers == {"none", "window", "rolling"}

VARIABLES conf,    \* the chosen deployment, an index of Configs
          row,     \* the conversation's metadata row, hash or map entry
          msgs,    \* its message rows, as stored, by sequence
          legacy,  \* the snapshot column of the layout before message rows
          state,   \* the row that holds the rolling summary's state
          loc,     \* each client's progress through its turn
          stale,   \* SQLite: clients whose open snapshot is out of date
          used,    \* turns taken
          epoch,   \* 1 + removals of the conversation
          won,     \* <<client, revision>> of acknowledged appends
          saved    \* <<client, revision>> of acknowledged state saves

vars == <<conf, row, msgs, legacy, state, loc, stale, used, epoch, won, saved>>

Backend == Configs[conf].backend
Manager == Configs[conf].manager
Separate == Configs[conf].separate

-----------------------------------------------------------------------------
(* Messages. Only whether a message calls a tool, answers a call or does    *)
(* neither matters to the managers; at most one call is open at a time, so  *)
(* call identifiers are left out. "none" is the empty text block that an    *)
(* unknown tag decodes to.                                                  *)

Blocks == {"text", "use", "result", "image", "document", "widget"}

ASSUME ConfigAssumption ==
    /\ WindowCount \in Nat /\ Preserve \in Nat
    /\ \A i \in DOMAIN Configs :
          /\ Configs[i].backend \in Backends /\ Configs[i].manager \in Managers
          /\ Configs[i].start \in Seq(Blocks) /\ Configs[i].legacy \in BOOLEAN
          /\ Configs[i].removals \in Nat

\* The type tag of the JSON envelope each kind of block is written under.
ContentBlockToJSON(b) ==
    CASE b = "text" -> "text"
      [] b = "use" -> "tool_use"
      [] b = "result" -> "tool_result"
      [] b = "image" -> "image"
      [] b = "document" -> "document"
      [] b = "widget" -> "widget"
      [] OTHER -> "unknown"

JSONToContentBlock(tag) ==
    CASE tag = "text" -> "text"
      [] tag = "tool_use" -> "use"
      [] tag = "tool_result" -> "result"
      [] tag = "image" -> "image"
      [] tag = "document" -> "document"
      [] tag = "widget" -> "widget"
      [] OTHER -> "none"

MarshalMessages(ms) == [i \in DOMAIN ms |-> ContentBlockToJSON(ms[i])]
UnmarshalMessages(raw) == [i \in DOMAIN raw |-> JSONToContentBlock(raw[i])]

\* The in-memory store keeps deep copies of the messages themselves.
Encode(ms) == IF Backend = "memory" THEN ms ELSE MarshalMessages(ms)
Decode(raw) == IF Backend = "memory" THEN raw ELSE UnmarshalMessages(raw)

\* Message rows with a sequence beyond after, decoded.
Range(after) ==
    IF after >= Len(msgs) THEN <<>> ELSE Decode(SubSeq(msgs, after + 1, Len(msgs)))

\* A result whose call is not among the messages before it.
HasOrphanedToolResult(ms) ==
    \E i \in DOMAIN ms : ms[i] = "result" /\ \A j \in 1 .. (i - 1) : ms[j] # "use"

\* A call whose result is not among the messages after it.
HasUnresolved(ms) ==
    \E i \in DOMAIN ms : ms[i] = "use" /\ \A j \in (i + 1) .. Len(ms) : ms[j] # "result"

-----------------------------------------------------------------------------
(* Rows and clients.                                                        *)

NoRow == [exists |-> FALSE, rev |-> 0, last |-> 0]

\* The rolling state: the messages folded into the summary text, in order,
\* how far it says it covers, and its revision.
NoState == [folded |-> <<>>, covered |-> 0, rev |-> 0]

Idle == [pc |-> "idle", ep |-> 0, boundary |-> 0, rev |-> 0, seen |-> 0,
         recent |-> <<>>, sum |-> NoState, batch |-> <<>>]

\* The canonical transcript, wherever its messages are.
Log == IF legacy # <<>> /\ row.last = 0 THEN UnmarshalMessages(legacy) ELSE Decode(msgs)

\* Whether the row that context state is kept in exists.
StateRow == IF Separate THEN state.rev > 0 ELSE row.exists

Init ==
    /\ conf \in DOMAIN Configs
    /\ LET start == Configs[conf].start
           old == Configs[conf].legacy
       IN /\ row = IF start = <<>> THEN NoRow
                   ELSE [exists |-> TRUE, rev |-> IF old THEN 0 ELSE 1,
                         last |-> IF old THEN 0 ELSE Len(start)]
          /\ legacy = IF old THEN MarshalMessages(start) ELSE <<>>
          /\ msgs = IF old THEN <<>> ELSE Encode(start)
          /\ loc = [c \in Clients |-> [Idle EXCEPT !.pc = IF old THEN "new" ELSE "idle"]]
    /\ state = NoState
    /\ stale = {} /\ used = 0 /\ epoch = 1 /\ won = {} /\ saved = {}

Become(c, l) == loc' = [loc EXCEPT ![c] = l]
Goto(c, pc) == Become(c, [loc[c] EXCEPT !.pc = pc])
Fail(c) == Become(c, Idle)

Data == <<conf, row, msgs, legacy, state, used, epoch, won, saved>>

\* SQLite: a transaction reads one snapshot; a commit by another connection
\* leaves it out of date, and its first write then returns SQLITE_BUSY.
InSnapshot == {"liteAppend", "liteState", "liteMigrate"}
OpenSnapshot(c) == stale' = stale \ {c}
Commit(c) == stale' = {d \in Clients \ {c} : loc[d].pc \in InSnapshot}

-----------------------------------------------------------------------------
(* New: SQL stores move snapshots of the old layout to message rows in one  *)
(* transaction. The old column stays; last_sequence says it was moved.      *)

NeedsMigration == legacy # <<>> /\ row.last = 0

Migrated ==
    /\ msgs' = MarshalMessages(UnmarshalMessages(legacy))
    /\ row' = [row EXCEPT !.last = Len(legacy)]

MigratePostgres(c) ==
    /\ Backend = "postgres" /\ loc[c].pc = "new"
    /\ IF NeedsMigration THEN Migrated ELSE UNCHANGED <<row, msgs>>
    /\ Goto(c, "idle")
    /\ UNCHANGED <<conf, legacy, state, stale, used, epoch, won, saved>>

ScanLegacySqlite(c) ==
    /\ Backend = "sqlite" /\ loc[c].pc = "new"
    /\ Goto(c, IF NeedsMigration THEN "liteMigrate" ELSE "idle")
    /\ OpenSnapshot(c)
    /\ UNCHANGED Data

\* A stale snapshot fails New; the process is started again.
MigrateSqlite(c) ==
    /\ loc[c].pc = "liteMigrate"
    /\ \/ /\ c \notin stale
          /\ Migrated /\ Goto(c, "idle") /\ Commit(c)
       \/ /\ c \in stale
          /\ Goto(c, "new") /\ OpenSnapshot(c) /\ UNCHANGED <<row, msgs>>
    /\ UNCHANGED <<conf, legacy, state, used, epoch, won, saved>>

-----------------------------------------------------------------------------
(* The boundary of the history a turn loads.                                *)

StartTurn(c) ==
    /\ loc[c].pc = "idle" /\ used < MaxTurns
    /\ Become(c, [Idle EXCEPT !.ep = epoch,
                    !.pc = CASE Manager = "none" -> "meta"
                             [] Manager = "window" -> "window"
                             [] Manager = "rolling" -> "bound"])
    /\ used' = used + 1
    /\ UNCHANGED <<conf, row, msgs, legacy, state, stale, epoch, won, saved>>

\* Window.HistoryBoundary asks for the last sequence only ...
WindowMeta(c) ==
    /\ loc[c].pc = "window"
    /\ Become(c, IF row.last <= WindowCount
                 THEN [loc[c] EXCEPT !.pc = "meta", !.seen = row.last]
                 ELSE [loc[c] EXCEPT !.pc = "tail", !.seen = row.last,
                                     !.boundary = row.last - WindowCount])
    /\ UNCHANGED <<Data, stale>>

\* ... and moves back until the tail answers no call before it.
WindowTail(c) ==
    /\ loc[c].pc = "tail"
    /\ Become(c, IF ~HasOrphanedToolResult(Range(loc[c].boundary)) \/ loc[c].boundary = 0
                 THEN [loc[c] EXCEPT !.pc = "meta"]
                 ELSE [loc[c] EXCEPT !.boundary = @ - 1])
    /\ UNCHANGED <<Data, stale>>

RollingBoundary(c) ==
    /\ loc[c].pc = "bound"
    /\ Become(c, [loc[c] EXCEPT !.pc = "meta", !.boundary = state.covered])
    /\ UNCHANGED <<Data, stale>>

-----------------------------------------------------------------------------
(* LoadAfter. Three of the stores read the revision and the messages with   *)
(* two commands.                                                            *)

LoadMemory(c) ==
    /\ Backend = "memory" /\ loc[c].pc = "meta"
    /\ Become(c, [loc[c] EXCEPT !.pc = "prepare", !.rev = row.rev,
                                !.recent = Range(loc[c].boundary)])
    /\ UNCHANGED <<Data, stale>>

\* A conversation with no row, or with context state only, loads empty.
LoadMeta(c) ==
    /\ Backend # "memory" /\ loc[c].pc = "meta"
    /\ Become(c, IF row.rev = 0 /\ row.last = 0
                 THEN [loc[c] EXCEPT !.pc = "prepare"]
                 ELSE [loc[c] EXCEPT !.pc = "range", !.rev = row.rev])
    /\ UNCHANGED <<Data, stale>>

LoadRange(c) ==
    /\ loc[c].pc = "range"
    /\ Become(c, [loc[c] EXCEPT !.pc = "prepare", !.recent = Range(loc[c].boundary)])
    /\ UNCHANGED <<Data, stale>>

-----------------------------------------------------------------------------
(* Prepare. The rolling summary loads its state afresh: another process may *)
(* have covered more since the boundary was read.                           *)

\* How many loaded messages a state covers already.
Skip(s, l) == IF s.covered > l.boundary THEN s.covered - l.boundary ELSE 0


\* The longest prefix of recent, short of the preserved tail, with no call
\* left open.
Cut(recent) ==
    LET ends == {0} \cup {n \in 1 .. Len(recent) :
                    n + Preserve <= Len(recent) /\ ~HasUnresolved(SubSeq(recent, 1, n))}
    IN CHOOSE n \in ends : \A m \in ends : m <= n


\* The state after folding what may be folded of the messages not covered.
Folded(s, l) ==
    LET rest == SubSeq(l.recent, Skip(s, l) + 1, Len(l.recent))
        n == Cut(rest)
    IN [s EXCEPT !.folded = @ \o SubSeq(rest, 1, n),
                 !.covered = l.boundary + Skip(s, l) + n]

Passthrough(c) ==
    /\ Manager # "rolling" /\ loc[c].pc = "prepare"
    /\ Goto(c, "model")
    /\ UNCHANGED <<Data, stale>>

\* The estimate is over the budget or not; the summarizer answers or fails.
PrepareRolling(c) ==
    /\ Manager = "rolling" /\ loc[c].pc = "prepare"
    /\ LET l == loc[c]
           rest == Len(l.recent) - Skip(state, l)
       IN IF Skip(state, l) > Len(l.recent) THEN Fail(c)
          ELSE \/ Become(c, [l EXCEPT !.pc = "model", !.sum = state])
               \/ /\ rest > Preserve
                  /\ Cut(SubSeq(l.recent, Skip(state, l) + 1, Len(l.recent))) > 0
                  /\ Become(c, [l EXCEPT !.pc = "save", !.sum = Folded(state, l)]) \/ Fail(c)
    /\ UNCHANGED <<Data, stale>>

-----------------------------------------------------------------------------
(* SaveContextState under the revision that Prepare loaded.                 *)

NewState(c) == [loc[c].sum EXCEPT !.rev = @ + 1]

\* The save is acknowledged and the turn goes on, or the reply is lost and
\* the turn fails; a mutex or a script in the same process cannot lose it.
StateSaved(c) ==
    /\ state' = NewState(c)
    /\ row' = IF Separate THEN row ELSE [row EXCEPT !.exists = TRUE]
    /\ \/ /\ Become(c, [loc[c] EXCEPT !.pc = "model", !.sum = NewState(c)])
          /\ saved' = saved \cup {<<c, NewState(c).rev>>}
       \/ Backend # "memory" /\ Fail(c) /\ saved' = saved
    /\ Commit(c)
    /\ UNCHANGED <<conf, msgs, legacy, used, epoch, won>>

StateConflict(c) == Fail(c) /\ UNCHANGED <<Data, stale>>

\* The in-memory map under its mutex and the Redis script.
SaveState(c) ==
    /\ Backend \in {"memory", "redis"} /\ loc[c].pc = "save"
    /\ IF state.rev = loc[c].sum.rev THEN StateSaved(c) ELSE StateConflict(c)

\* Fault: the revision is compared with a row read without a lock.
SaveStateUnlocked(c) ==
    /\ Backend = "postgres" /\ loc[c].pc = "save"
    /\ IF state.rev = loc[c].sum.rev
       THEN Goto(c, "pgState") /\ UNCHANGED <<Data, stale>>
       ELSE StateConflict(c)

\* SELECT ... FOR UPDATE: an existing row stays locked until the commit, so
\* the rest of the transaction is one step with it; a missing row is not.
SaveStatePostgres(c) ==
    /\ Backend = "postgres" /\ loc[c].pc = "save"
    /\ IF (IF StateRow THEN state.rev ELSE 0) # loc[c].sum.rev THEN StateConflict(c)
       ELSE IF StateRow THEN StateSaved(c)
       ELSE Goto(c, "pgState") /\ UNCHANGED <<Data, stale>>

\* INSERT ... ON CONFLICT DO UPDATE writes over a row made meanwhile.
InsertStatePostgres(c) == loc[c].pc = "pgState" /\ StateSaved(c)

SelectStateSqlite(c) ==
    /\ Backend = "sqlite" /\ loc[c].pc = "save"
    /\ IF state.rev # loc[c].sum.rev THEN StateConflict(c)
       ELSE Goto(c, "liteState") /\ OpenSnapshot(c) /\ UNCHANGED Data

WriteStateSqlite(c) ==
    /\ loc[c].pc = "liteState"
    /\ IF c \in stale THEN Fail(c) /\ OpenSnapshot(c) /\ UNCHANGED Data ELSE StateSaved(c)

-----------------------------------------------------------------------------
(* The model answers or calls a tool; an open call gets its result.         *)

ModelReturns(c) ==
    /\ loc[c].pc = "model"
    /\ \/ \E b \in IF HasUnresolved(loc[c].recent) THEN {"result"} ELSE {"text", "use"} :
            /\ Len(Log) < MaxLog
            /\ Become(c, [loc[c] EXCEPT !.pc = "append", !.batch = <<b>>])
       \/ Fail(c)
    /\ UNCHANGED <<Data, stale>>

\* saveConversation moves the cursor on: a call is followed by its result, a
\* result by the next model call of the loop, an answer ends the turn.
AfterAppend(c) ==
    LET l == [loc[c] EXCEPT !.rev = @ + 1, !.recent = @ \o loc[c].batch]
    IN CASE loc[c].batch = <<"use">> -> [l EXCEPT !.batch = <<"result">>, !.pc = "append"]
         [] loc[c].batch = <<"result">> -> [l EXCEPT !.batch = <<>>, !.pc = "prepare"]
         [] OTHER -> Idle

\* Fault: the messages are written and the revision is not.
AppendedSameRevision(c) ==
    /\ row' = [exists |-> TRUE, rev |-> row.rev, last |-> row.last + Len(loc[c].batch)]
    /\ msgs' = msgs \o Encode(loc[c].batch)
    /\ Become(c, AfterAppend(c)) /\ won' = won \cup {<<c, row.rev + 1>>}
    /\ Commit(c)
    /\ UNCHANGED <<conf, legacy, state, used, epoch, saved>>

\* The batch and the metadata, in one commit; its reply may be lost.
Appended(c) ==
    /\ row' = [exists |-> TRUE, rev |-> row.rev + 1, last |-> row.last + Len(loc[c].batch)]
    /\ msgs' = msgs \o Encode(loc[c].batch)
    /\ \/ Become(c, AfterAppend(c)) /\ won' = won \cup {<<c, row.rev + 1>>}
       \/ Backend # "memory" /\ Fail(c) /\ won' = won
    /\ Commit(c)
    /\ UNCHANGED <<conf, legacy, state, used, epoch, saved>>

Conflict(c) == Fail(c) /\ UNCHANGED <<Data, stale>>

AppendMemory(c) ==
    /\ Backend = "memory" /\ loc[c].pc = "append"
    /\ IF row.rev = loc[c].rev THEN Appended(c) ELSE Conflict(c)

AppendRedis(c) ==
    /\ Backend = "redis" /\ loc[c].pc = "append"
    /\ IF row.rev = loc[c].rev THEN Appended(c) ELSE Conflict(c)

\* SELECT ... FOR UPDATE and the comparison; an existing row stays locked.
AppendPostgres(c) ==
    /\ Backend = "postgres" /\ loc[c].pc = "append"
    /\ IF row.rev # loc[c].rev THEN Conflict(c)
       ELSE IF row.exists THEN Appended(c)
       ELSE Goto(c, "pgInsert") /\ UNCHANGED <<Data, stale>>

\* INSERT ... ON CONFLICT DO NOTHING: a row of our own is exclusive until the
\* commit; a row made meanwhile is neither locked nor read again.
InsertRowPostgres(c) ==
    /\ loc[c].pc = "pgInsert"
    /\ IF row.exists THEN Goto(c, "pgRows") /\ UNCHANGED <<Data, stale>> ELSE Appended(c)

\* Fault: message rows overwrite, and the update drops its
\* WHERE revision = ...
InsertMessagesUnchecked(c) ==
    /\ loc[c].pc = "pgRows"
    /\ IF row.exists THEN Appended(c) ELSE Conflict(c)

\* Sequences start at 1: the primary key refuses rows that exist, the foreign
\* key a row removed meanwhile, the update a revision that moved.
InsertMessagesPostgres(c) ==
    /\ loc[c].pc = "pgRows"
    /\ IF row.exists /\ msgs = <<>> /\ row.rev = 0 THEN Appended(c) ELSE Conflict(c)

SelectSqlite(c) ==
    /\ Backend = "sqlite" /\ loc[c].pc = "append"
    /\ IF row.rev # loc[c].rev THEN Conflict(c)
       ELSE Goto(c, "liteAppend") /\ OpenSnapshot(c) /\ UNCHANGED Data

WriteSqlite(c) ==
    /\ loc[c].pc = "liteAppend"
    /\ IF c \in stale THEN Fail(c) /\ OpenSnapshot(c) /\ UNCHANGED Data ELSE Appended(c)

-----------------------------------------------------------------------------
(* Removal: Delete takes the context state of the same backend with it; a   *)
(* Redis conversation with a TTL expires whole, its keys refreshed together.*)

Removed ==
    /\ epoch <= Configs[conf].removals
    /\ row' = NoRow /\ msgs' = <<>> /\ legacy' = <<>> /\ won' = {}
    /\ IF Separate THEN UNCHANGED <<state, saved>> ELSE state' = NoState /\ saved' = {}
    /\ epoch' = epoch + 1
    /\ UNCHANGED <<conf, loc, used>>

Delete(c) == loc[c].pc = "idle" /\ row.exists /\ Removed /\ Commit(c)

Expire == Backend = "redis" /\ row.exists /\ Removed /\ UNCHANGED stale

Done == used = MaxTurns /\ (\A c \in Clients : loc[c].pc = "idle") /\ UNCHANGED vars

Step(c) ==
    \/ MigratePostgres(c) \/ ScanLegacySqlite(c) \/ MigrateSqlite(c)
    \/ StartTurn(c) \/ WindowMeta(c) \/ WindowTail(c) \/ RollingBoundary(c)
    \/ LoadMemory(c) \/ LoadMeta(c) \/ LoadRange(c)
    \/ Passthrough(c) \/ PrepareRolling(c)
    \/ SaveState(c) \/ SaveStatePostgres(c) \/ InsertStatePostgres(c)
    \/ SelectStateSqlite(c) \/ WriteStateSqlite(c)
    \/ ModelReturns(c)
    \/ AppendMemory(c) \/ AppendRedis(c)
    \/ AppendPostgres(c) \/ InsertRowPostgres(c) \/ InsertMessagesPostgres(c)
    \/ SelectSqlite(c) \/ WriteSqlite(c)
    \/ Delete(c)

Next == (\E c \in Clients : Step(c)) \/ Expire \/ Done

Spec == Init /\ [][Next]_vars

-----------------------------------------------------------------------------
(* Properties.                                                              *)

Transcript == INSTANCE VersionedLog
                 WITH Writers <- Clients, Entries <- Blocks,
                      log <- Log, rev <- row.rev, acks <- won

Summary == INSTANCE VersionedLog
              WITH Writers <- Clients, Entries <- Blocks,
                   log <- state.folded, rev <- state.rev, acks <- saved

\* ConversationStore's contract (conversation.go): in every backend a batch
\* enters the transcript whole, under one new revision that is acknowledged
\* to one writer at most; migration and loads change nothing. The backends,
\* statement by statement, implement the versioned log.
TranscriptContract == Transcript!VSpec

\* The same of the rolling summary kept as context state: a save that was
\* acknowledged is never overwritten by one that had not read it.
SummaryContract == Summary!VSpec


\* What the manager shows the model: history after the boundary, behind the
\* summary when there is one.
Rest(l) == SubSeq(l.recent, Skip(l.sum, l) + 1, Len(l.recent))
Shown(l) == (IF Manager = "rolling" THEN l.sum.folded ELSE SubSeq(Log, 1, l.boundary)) \o Rest(l)

\* saveConversation extends exactly the history its turn loaded: a revision
\* read with one command and messages read with the next never let an Append
\* through on top of messages the turn has not seen, unless the conversation
\* was removed and begun again meanwhile.
AppendExtendsRead ==
    [][\A c \in Clients :
        loc'[c] # loc[c] /\ row'.rev > row.rev /\ loc[c].ep = epoch
            => Log' = SubSeq(Log, 1, loc[c].boundary) \o loc[c].recent \o loc[c].batch]_vars

=============================================================================
