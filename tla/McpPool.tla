------------------------------ MODULE McpPool -------------------------------
(***************************************************************************)
(* The connection pool of an MCP stdio server (agent/mcp/pool.go): tool    *)
(* calls that lease one session each, start sessions lazily up to MaxSize, *)
(* wait on a condition variable when all are busy, and give the session    *)
(* back or discard it; cancellation of a caller's context; and Close.      *)
(*                                                                         *)
(* Every section between p.mu.Lock and p.mu.Unlock is one step.  The two   *)
(* things done without the mutex, starting a session and closing one, are  *)
(* steps of their own.  A closed session's name is used again, so Sessions *)
(* bounds the sessions alive at one time and not those ever started, and   *)
(* the lowest free name is taken, because names are interchangeable.       *)
(***************************************************************************)
EXTENDS Naturals, FiniteSets

CONSTANTS Callers,    \* goroutines that call pooled tools
          Sessions,   \* names of server subprocesses
          None,       \* no session
          MaxSize,    \* WithPoolSize
          MaxCalls    \* bound: tool calls made

ASSUME PoolAssumption == /\ MaxSize \in Nat \ {0} /\ MaxCalls \in Nat
                         /\ IsFiniteSet(Callers) /\ IsFiniteSet(Sessions)
                         /\ None \notin Sessions /\ Sessions \subseteq Nat

VARIABLES size,       \* p.size: slots taken
          closed,     \* p.closed
          idle,       \* p.sessions, the buffered channel
          live,       \* sessions started and not yet closed
          draining,   \* sessions Close took out of the channel
          pc,         \* where each caller is
          held,       \* the session each caller works with
          cancelled,  \* is the caller's context done?
          watcher,    \* does a goroutine watch that context?
          calls       \* tool calls made

vars == <<size, closed, idle, live, draining, pc, held, cancelled, watcher, calls>>

Place == {"out", "acquire", "waiting", "connecting", "leased", "closing"}

TypeOK == /\ size \in Nat /\ closed \in BOOLEAN
          /\ idle \in SUBSET Sessions /\ live \in SUBSET Sessions
          /\ draining \in SUBSET Sessions
          /\ pc \in [Callers -> Place]
          /\ held \in [Callers -> Sessions \cup {None}]
          /\ cancelled \in [Callers -> BOOLEAN]
          /\ watcher \in [Callers -> BOOLEAN]
          /\ calls \in Nat

(* NewPool leaves one idle session behind.                                 *)
Init == /\ \E s \in Sessions : /\ \A t \in Sessions : s <= t
                              /\ idle = {s} /\ live = {s}
        /\ size = 1 /\ closed = FALSE /\ draining = {}
        /\ pc = [c \in Callers |-> "out"]
        /\ held = [c \in Callers |-> None]
        /\ cancelled = [c \in Callers |-> FALSE]
        /\ watcher = [c \in Callers |-> FALSE]
        /\ calls = 0

-----------------------------------------------------------------------------
(* The condition variable.                                                 *)

Waiting == {c \in Callers : pc[c] = "waiting"}

(* Caller c moves to place p, and every waiter of W is woken: it loops.    *)
Move(c, p, W) ==
  pc' = [d \in Callers |-> IF d = c THEN p ELSE IF d \in W THEN "acquire" ELSE pc[d]]

(* p.cond.Signal wakes one waiter, if there is one.                        *)
Signalled == IF Waiting = {} THEN {{}} ELSE {{d} : d \in Waiting}

-----------------------------------------------------------------------------
(* acquire.  A caller that was woken closes `cancelled` and loops; its     *)
(* watcher ends, unless it has already seen the context end.               *)

StopWatching(c) ==
  \/ watcher' = [watcher EXCEPT ![c] = FALSE]
  \/ watcher[c] /\ cancelled[c] /\ UNCHANGED watcher

(* The handler of a wrapped tool is called with a fresh context.           *)
StartCall(c) ==
  /\ pc[c] = "out" /\ calls < MaxCalls
  /\ calls' = calls + 1
  /\ cancelled' = [cancelled EXCEPT ![c] = FALSE]
  /\ watcher' = [watcher EXCEPT ![c] = FALSE]
  /\ Move(c, "acquire", {})
  /\ UNCHANGED <<size, closed, idle, live, draining, held>>

AcquireClosed(c) ==
  /\ pc[c] = "acquire" /\ closed
  /\ Move(c, "out", {}) /\ StopWatching(c)
  /\ UNCHANGED <<size, closed, idle, live, draining, held, cancelled, calls>>

(* Fault: the session stays in the channel.                                *)
AcquireIdleShared(c) ==
  /\ pc[c] = "acquire" /\ ~closed
  /\ \E s \in idle : held' = [held EXCEPT ![c] = s]
  /\ Move(c, "leased", {}) /\ StopWatching(c)
  /\ UNCHANGED <<size, closed, idle, live, draining, cancelled, calls>>

AcquireIdle(c) ==
  /\ pc[c] = "acquire" /\ ~closed
  /\ \E s \in idle : /\ idle' = idle \ {s}
                     /\ held' = [held EXCEPT ![c] = s]
  /\ Move(c, "leased", {}) /\ StopWatching(c)
  /\ UNCHANGED <<size, closed, live, draining, cancelled, calls>>

(* Capacity is reserved before the mutex is released for connect.          *)
AcquireReserve(c) ==
  /\ pc[c] = "acquire" /\ ~closed /\ idle = {} /\ size < MaxSize
  /\ size' = size + 1
  /\ Move(c, "connecting", {}) /\ StopWatching(c)
  /\ UNCHANGED <<closed, idle, live, draining, held, cancelled, calls>>

AtCapacity(c) == pc[c] = "acquire" /\ ~closed /\ idle = {} /\ size >= MaxSize

AcquireCancelled(c) ==
  /\ AtCapacity(c) /\ cancelled[c]
  /\ Move(c, "out", {}) /\ StopWatching(c)
  /\ UNCHANGED <<size, closed, idle, live, draining, held, cancelled, calls>>

AcquireWait(c) ==
  /\ AtCapacity(c) /\ ~cancelled[c]
  /\ Move(c, "waiting", {})
  /\ watcher' = [watcher EXCEPT ![c] = TRUE]
  /\ UNCHANGED <<size, closed, idle, live, draining, held, cancelled, calls>>

(* Fault: a failed connect frees its slot and tells nobody.                *)
ConnectFailsQuietly(c) ==
  /\ pc[c] = "connecting"
  /\ size' = size - 1
  /\ Move(c, "out", {})
  /\ UNCHANGED <<closed, idle, live, draining, held, cancelled, watcher, calls>>

ConnectFails(c) ==
  /\ pc[c] = "connecting"
  /\ size' = size - 1
  /\ Move(c, "out", Waiting)
  /\ UNCHANGED <<closed, idle, live, draining, held, cancelled, watcher, calls>>

(* A new session; the pool may have been closed in the meantime.           *)
Connected(c) ==
  /\ pc[c] = "connecting"
  /\ \E s \in Sessions \ live : /\ \A t \in Sessions \ live : s <= t
                                /\ live' = live \cup {s}
                                /\ held' = [held EXCEPT ![c] = s]
  /\ IF closed THEN size' = size - 1 /\ Move(c, "closing", Waiting)
               ELSE size' = size /\ Move(c, "leased", {})
  /\ UNCHANGED <<closed, idle, draining, cancelled, watcher, calls>>

-----------------------------------------------------------------------------
(* CallTool returns; the handler gives the session up.                     *)

(* Fault: release does not look at closed.                                 *)
ReleaseUnchecked(c) ==
  /\ pc[c] = "leased"
  /\ Cardinality(idle) < MaxSize
  /\ idle' = idle \cup {held[c]} /\ size' = size
  /\ held' = [held EXCEPT ![c] = None]
  /\ \E W \in Signalled : Move(c, "out", W)
  /\ UNCHANGED <<closed, live, draining, cancelled, watcher, calls>>

(* The send on the channel needs room: it would block with the mutex held. *)
Release(c) ==
  /\ pc[c] = "leased"
  /\ IF closed
     THEN /\ size' = size - 1 /\ Move(c, "closing", Waiting)
          /\ UNCHANGED <<idle, held>>
     ELSE /\ Cardinality(idle) < MaxSize
          /\ idle' = idle \cup {held[c]} /\ size' = size
          /\ held' = [held EXCEPT ![c] = None]
          /\ \E W \in Signalled : Move(c, "out", W)
  /\ UNCHANGED <<closed, live, draining, cancelled, watcher, calls>>

(* Fault: the slot of a discarded session is not freed.                    *)
DiscardKeepsSlot(c) ==
  /\ pc[c] = "leased"
  /\ Move(c, "closing", Waiting)
  /\ UNCHANGED <<size, closed, idle, live, draining, held, cancelled, watcher, calls>>

Discard(c) ==
  /\ pc[c] = "leased"
  /\ size' = size - 1
  /\ Move(c, "closing", Waiting)
  /\ UNCHANGED <<closed, idle, live, draining, held, cancelled, watcher, calls>>

(* A session is fit for another call after no error, or after an error the *)
(* server answered; not after a transport error, cancellation or timeout.  *)
Reusable(err) == err \in {"nil", "rpc"}

CallTool(c) ==
  \E err \in {"nil", "rpc", "transport"} : IF Reusable(err) THEN Release(c) ELSE Discard(c)

(* session.Close, after the mutex was released.                            *)
CloseSession(c) ==
  /\ pc[c] = "closing"
  /\ live' = live \ {held[c]}
  /\ held' = [held EXCEPT ![c] = None]
  /\ Move(c, "out", {})
  /\ UNCHANGED <<size, closed, idle, draining, cancelled, watcher, calls>>

-----------------------------------------------------------------------------
(* Cancellation and Close.                                                 *)

Cancel(c) ==
  /\ pc[c] # "out" /\ ~cancelled[c]
  /\ cancelled' = [cancelled EXCEPT ![c] = TRUE]
  /\ UNCHANGED <<size, closed, idle, live, draining, pc, held, watcher, calls>>

(* The watching goroutine takes the mutex and broadcasts.                  *)
WatcherFires(c) ==
  /\ watcher[c] /\ cancelled[c]
  /\ watcher' = [watcher EXCEPT ![c] = FALSE]
  /\ pc' = [d \in Callers |-> IF d \in Waiting THEN "acquire" ELSE pc[d]]
  /\ UNCHANGED <<size, closed, idle, live, draining, held, cancelled, calls>>

Close ==
  /\ ~closed /\ closed' = TRUE
  /\ draining' = idle /\ idle' = {}
  /\ size' = size - Cardinality(idle)
  /\ pc' = [d \in Callers |-> IF d \in Waiting THEN "acquire" ELSE pc[d]]
  /\ UNCHANGED <<live, held, cancelled, watcher, calls>>

CloseIdleSession ==
  /\ \E s \in draining : /\ draining' = draining \ {s}
                         /\ live' = live \ {s}
  /\ UNCHANGED <<size, closed, idle, pc, held, cancelled, watcher, calls>>

-----------------------------------------------------------------------------
Acquire(c) == \/ AcquireClosed(c) \/ AcquireIdle(c) \/ AcquireReserve(c)
              \/ AcquireCancelled(c) \/ AcquireWait(c)
Return(c) == \/ ConnectFails(c) \/ Connected(c)
             \/ CallTool(c) \/ CloseSession(c)

Next == \/ \E c \in Callers : \/ StartCall(c) \/ Acquire(c) \/ Return(c)
                              \/ Cancel(c) \/ WatcherFires(c)
        \/ Close \/ CloseIdleSession

Spec == Init /\ [][Next]_vars

(* A caller that can run runs; connect and CallTool return, with a session *)
(* or an answer, or with an error.  Nothing makes anyone cancel or Close.  *)
FairSpec == /\ Spec
            /\ \A c \in Callers : WF_vars(Acquire(c)) /\ WF_vars(Return(c))
                                  /\ WF_vars(WatcherFires(c))
            /\ WF_vars(CloseIdleSession)

-----------------------------------------------------------------------------
Leased == {c \in Callers : pc[c] = "leased"}
Connecting == {c \in Callers : pc[c] = "connecting"}

(* p.size counts the idle, leased and connecting slots, whatever the order *)
(* of releases, discards, failed connects and Close, and never passes      *)
(* maxSize; so release always finds room in the channel.                   *)
SlotsAccounted ==
  /\ size = Cardinality(idle) + Cardinality(Leased) + Cardinality(Connecting)
  /\ size <= MaxSize

(* A session is leased to one call at a time, a leased session is alive,   *)
(* and neither Close nor another caller's discard closes it.               *)
OneLease ==
  \A c \in Callers : pc[c] \in {"leased", "closing"} =>
     /\ held[c] \in live \ (idle \cup draining)
     /\ \A d \in Callers : pc[d] \in {"leased", "closing"} /\ held[c] = held[d] => c = d

(* When Close and all calls are over no subprocess is left behind, also    *)
(* for the calls that were connecting or holding a lease when it ran.      *)
NoSessionLeak ==
  closed /\ draining = {} /\ (\A c \in Callers : pc[c] = "out") => live = {} /\ size = 0

(* Every pooled tool call ends: no wake-up of the condition variable is    *)
(* lost between release, discard, failed connects, cancellation and Close. *)
CallsEnd == \A c \in Callers : pc[c] # "out" ~> pc[c] = "out"
=============================================================================
