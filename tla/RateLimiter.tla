---------------------------- MODULE RateLimiter ----------------------------
(***************************************************************************)
(* agent/ratelimit and its use by callProvider in agent/engine.go.  One     *)
(* attempt is one physical provider call: it takes a slot of its key's      *)
(* concurrency semaphore, reserves every counter of the configuration in    *)
(* the store, calls the provider and settles the lease (Commit with the     *)
(* confirmed usage, Release with the reserved estimate).                    *)
(*                                                                          *)
(* The store is the process-local MemoryStore (sliding or fixed windows) or *)
(* the Redis store (two Lua scripts, sliding windows).  Time is discrete    *)
(* and relative: the model keeps the age of every event, and Tick makes all *)
(* of them older, up to a cap beyond which the code tells no two ages apart.*)
(***************************************************************************)
EXTENDS Integers, FiniteSets, Sequences, FiniteSetsExt, Functions

CONSTANTS
  Attempts,   \* the provider attempts, one callProvider each
  Key,        \* the bucket key WithRateLimitKey selects for an attempt
  Chars,      \* the size of an attempt's request, in characters
  MaxOutput,  \* its MaxTokens, 0 when the request sets none
  Cancellable,\* the attempts whose caller may give up
  Usage,      \* the usage totals its provider may report
  Configs     \* a sequence of limiter configurations

Keys == {Key[a] : a \in Attempts}
Never == -1

\* What NewRateLimiter accepts: every limit and window is positive, and at
\* least one limit is set (concurrent = 0: MaxConcurrent was not given).
Accepted(c) ==
  /\ \A k \in {"requests", "tokens"} : \A i \in DOMAIN c[k] :
       c[k][i].limit > 0 /\ c[k][i].window > 0
  /\ c.concurrent >= 0 /\ c.fallback >= 0
  /\ c.concurrent > 0 \/ c.requests # <<>> \/ c.tokens # <<>>

ASSUME LimiterAssumption ==
  /\ IsFiniteSet(Attempts)
  /\ Chars \in [Attempts -> Nat] /\ MaxOutput \in [Attempts -> Nat]
  /\ Usage \in [Attempts -> SUBSET Nat]
  /\ \A i \in DOMAIN Configs : Accepted(Configs[i])

VARIABLES
  config,     \* which configuration the limiter and its store have
  counters,   \* the store's request ("r") and token ("t") counters
  ledger,     \* the store's lease records
  slots,      \* slots taken in the semaphore of a key
  holds,      \* attempts whose lease still has to free its slot
  pc, out,    \* where an attempt is, and what its call returned
  usage,      \* the usage its provider reported, -1 for a failure
  cancelled,  \* attempts whose context is cancelled
  hist        \* what was really admitted and charged, kept for the properties

vars == <<config, counters, ledger, slots, holds, pc, out, usage, cancelled, hist>>

-----------------------------------------------------------------------------
(* Reservations.                                                            *)

conf == Configs[config]

\* CharEstimator.EstimateTokens: four characters to a token, rounded up.
EstimateTokens(chars) == (chars + 3) \div 4

\* RateLimiter.reservation: the estimate charged to every token counter, and
\* the request counters and then the token counters, per key before global,
\* in the order in which the store checks them.
Reservation(c, a) ==
  LET amount == c.fallback + MaxOutput[a] +
        (IF c.estimating /\ c.tokens # <<>> THEN EstimateTokens(Chars[a]) ELSE 0)
      of(kind, cs) ==
        [i \in DOMAIN cs |->
           [name |-> <<kind, IF cs[i].scope = "key" THEN Key[a] ELSE "global">>,
            limit |-> cs[i].limit, window |-> cs[i].window]]
      demands == of("r", c.requests) \o of("t", c.tokens)
  IN [amount |-> amount, demands |-> demands,
      tokens |-> {demands[i] : i \in (Len(c.requests) + 1)..Len(demands)}]

\* All of them, so that they are computed once.
Reservations == [i \in DOMAIN Configs |-> [a \in Attempts |-> Reservation(Configs[i], a)]]

Estimate(a) == Reservations[config][a].amount
Demands(a) == Reservations[config][a].demands
TokenDemands(a) == Reservations[config][a].tokens
IsToken(d) == d.name[1] = "t"
Names == {"r", "t"} \X (Keys \cup {"global"})

\* reservationWindow: the longest window of a reservation, 0 without counters;
\* pendingTTL, terminalTTL, effectivePending and effectiveTerminal.
LongestWindow(c) ==
  Max({0} \cup {c.requests[i].window : i \in DOMAIN c.requests}
          \cup {c.tokens[i].window : i \in DOMAIN c.tokens})
TTLs == [i \in DOMAIN Configs |->
           LET c == Configs[i] w == LongestWindow(c)
           IN [window |-> w, pending |-> Max({2 * w, c.pendingTTL}),
               terminal |-> Max({w, c.terminalTTL})]]
Window == TTLs[config].window
PendingTTL == TTLs[config].pending
TerminalTTL == TTLs[config].terminal

\* A larger age, up to a cap past which the code tells no two ages apart.
Older(age, cap) == IF age = Never \/ age >= cap THEN age ELSE age + 1

\* The window of a counter: every attempt that uses the counter agrees on it.
CounterWindows ==
  [i \in DOMAIN Configs |->
     [n \in Names |->
        Max({0} \cup UNION {{d.window : d \in {e \in Range(Reservations[i][a].demands) : e.name = n}}
                              : a \in Attempts})]]
WindowOf(n) == CounterWindows[config][n]

-----------------------------------------------------------------------------
(* Counters.  events are the requests or settled tokens of a sliding window *)
(* (in Redis the zset and the hash of a counter, which share their expiry); *)
(* reserved is what pending leases hold; started and used belong to a fixed *)
(* window; total, idle and kept are Redis's running sum, the time since the *)
(* keys' last PEXPIRE, and whether the sum has lost its expiry to a SET.    *)

Fresh == [events |-> {}, reserved |-> 0, started |-> Never, used |-> 0,
          total |-> 0, idle |-> 0, kept |-> FALSE]

Total(events) == MapThenSumSet(LAMBDA e : e.n, events)
AtLeast0(n) == IF n < 0 THEN 0 ELSE n
Fixed == conf.strategy = "fixed"
Redis == conf.store = "redis"

\* memoryCounter.prune, and in Redis the ZREMRANGEBYSCORE of a request counter
\* or the prune function of a token counter, whose SET drops the sum's expiry.
Prune(cs, n, w) ==
  LET c == cs[n]
      kept == {e \in c.events : e.age <= w}
  IN IF Fixed
     THEN IF c.started = Never \/ c.started >= w
          THEN [c EXCEPT !.started = 0, !.used = 0, !.reserved = 0] ELSE c
     ELSE IF Redis /\ n[1] = "t"
     THEN [c EXCEPT !.events = kept, !.kept = TRUE,
                    !.total = AtLeast0(@ - Total(c.events \ kept))]
     ELSE [c EXCEPT !.events = kept]

\* requestCount, tokenCount, ZCARD and the sum that Redis's prune returns.
Count(c, kind) ==
  IF Fixed THEN c.used
  ELSE IF Redis /\ kind = "t" THEN c.total ELSE Total(c.events)

\* Fault: a limit checked one too late.
DeniesLate(d, c, a) ==
  IF IsToken(d) THEN Count(c, "t") + c.reserved + Estimate(a) > d.limit
  ELSE Count(c, "r") > d.limit

\* The admission test of one counter, the counter already pruned.
Denies(d, c, a) ==
  IF IsToken(d) THEN Count(c, "t") + c.reserved + Estimate(a) > d.limit
  ELSE Count(c, "r") >= d.limit

\* addRequest, addTokens: n <= 0 tokens leave no event.
Add(c, a, n) ==
  IF n <= 0 THEN c
  ELSE IF Fixed THEN [c EXCEPT !.used = @ + n]
  ELSE [c EXCEPT !.events = @ \cup {[id |-> a, age |-> 0, n |-> n]}]

\* What a granted reservation does to one counter it demands.
Charge(c, kind, a) ==
  IF Redis
  THEN [c EXCEPT !.events = @ \cup {[id |-> a, age |-> 0,
                                     n |-> IF kind = "t" THEN Estimate(a) ELSE 1]},
                 !.total = IF kind = "t" THEN @ + Estimate(a) ELSE @,
                 !.idle = 0, !.kept = FALSE]
  ELSE IF kind = "t" THEN [c EXCEPT !.reserved = @ + Estimate(a)]
  ELSE Add(c, a, 1)

\* The index of the first counter that denies the attempt, past the last one
\* when all admit it: the checks stop there and prune no later counter.
FirstDenial(cs, a) ==
  LET ds == Demands(a)
  IN Min({i \in DOMAIN ds : Denies(ds[i], Prune(cs, ds[i].name, ds[i].window), a)}
           \cup {Len(ds) + 1})

Admitted(cs, a) == FirstDenial(cs, a) > Len(Demands(a))

\* The counters after MemoryStore.Reserve or the reserve script.
Reserved(cs, a) ==
  LET ds == Demands(a)
      checked == {i \in DOMAIN ds : i <= FirstDenial(cs, a)}
  IN [n \in Names |->
        IF \E i \in checked : ds[i].name = n
        THEN LET i == CHOOSE j \in checked : ds[j].name = n
                 c == Prune(cs, n, ds[i].window)
             IN IF Admitted(cs, a) THEN Charge(c, n[1], a) ELSE c
        ELSE cs[n]]

\* Fault: a settlement that gives the reservation back and records no usage.
SettleRefunds(cs, S, bill) ==
  [n \in Names |->
     LET mine == {a \in S : \E d \in TokenDemands(a) : d.name = n}
         c == Prune(cs, n, WindowOf(n))
     IN IF mine = {} THEN cs[n]
        ELSE [c EXCEPT !.reserved = AtLeast0(@ - MapThenSumSet(Estimate, mine))]]

\* Fault: a settlement that records the usage and leaves the reservation in place.
SettleKeepsReserved(cs, S, bill) ==
  [n \in Names |->
     LET mine == {a \in S : \E d \in TokenDemands(a) : d.name = n}
         spent == {[id |-> a, age |-> 0, n |-> bill[a]] : a \in {b \in mine : bill[b] > 0}}
     IN [cs[n] EXCEPT !.events = @ \cup spent]]

\* MemoryStore.settle for the leases S at once, lease a billed bill[a] tokens;
\* a negative bill stands for the reserved amount.
Settle(cs, S, bill) ==
  [n \in Names |->
     LET mine == {a \in S : \E d \in TokenDemands(a) : d.name = n}
         c == Prune(cs, n, WindowOf(n))
         n1(a) == IF bill[a] < 0 THEN Estimate(a) ELSE bill[a]
         spent == {[id |-> a, age |-> 0, n |-> n1(a)] : a \in {b \in mine : n1(b) > 0}}
         back == [c EXCEPT !.reserved = AtLeast0(@ - MapThenSumSet(Estimate, mine))]
     IN IF mine = {} THEN cs[n]
        ELSE IF Fixed THEN [back EXCEPT !.used = @ + Total(spent)]
        ELSE [back EXCEPT !.events = @ \cup spent]]

\* The terminal script: the lease's entry is replaced and stamped with the
\* server's time, and every key of the counter gets a new expiry.
ScriptSettle(a, bill) ==
  [n \in Names |->
     LET c == counters[n]
         mine == {e \in c.events : e.id = a}
         spent == IF bill < 0 THEN Total(mine) ELSE bill
     IN IF \E d \in TokenDemands(a) : d.name = n
        THEN [c EXCEPT !.events = (@ \ mine) \cup {[id |-> a, age |-> 0, n |-> spent]},
                       !.total = AtLeast0(@ - Total(mine) + spent),
                       !.idle = 0, !.kept = FALSE]
        ELSE c]

-----------------------------------------------------------------------------
(* Leases.                                                                  *)

NoLease == [state |-> "none", age |-> 0]
In(state) == [state |-> state, age |-> 0]

\* MemoryStore.cleanup, first half: the pending leases that are overdue.
Overdue == {a \in Attempts : ledger[a].state = "pending" /\ ledger[a].age >= PendingTTL}

\* MemoryStore.cleanup: overdue leases are settled at their estimate and kept
\* as expired, unless their retention is already over; old records go.
CleanCounters == Settle(counters, Overdue, [a \in Attempts |-> -1])

CleanLedger ==
  [a \in Attempts |->
     IF a \in Overdue
     THEN IF TerminalTTL = 0 THEN NoLease ELSE In("expired")
     ELSE IF ledger[a].state \notin {"none", "pending"} /\ ledger[a].age >= TerminalTTL
     THEN NoLease ELSE ledger[a]]

\* terminalError, and the early returns of the Redis terminal operation.
TerminalError(state, wanted) ==
  IF state = "none" THEN "unknown"
  ELSE IF state = "expired" THEN "expired"
  ELSE IF state = wanted THEN "terminal" ELSE "crossTerminal"

\* isTerminal and the condition under which Commit and Release free the slot.
FreesSlot(err) == err \in {"ok", "terminal", "crossTerminal", "expired"}

-----------------------------------------------------------------------------
(* History: the age of an attempt's admission, and what it was really       *)
(* charged, when, and whether its window had passed before it was settled.  *)

NoClaim == [asked |-> Never, n |-> 0, age |-> 0, late |-> FALSE, open |-> FALSE]

Ask(a) == [asked |-> 0, n |-> Estimate(a), age |-> 0, late |-> FALSE, open |-> TRUE]

SettledLate(a) ==
  \E d \in TokenDemands(a) :
     IF Fixed THEN hist[a].asked > Prune(counters, d.name, d.window).started
     ELSE Redis /\ hist[a].asked > d.window

Settled(a, n) ==
  [hist[a] EXCEPT !.n = IF n < 0 \/ n > Estimate(a) THEN Estimate(a) ELSE n,
                  !.age = 0, !.late = SettledLate(a), !.open = FALSE]

CleanHist == [a \in Attempts |-> IF a \in Overdue THEN Settled(a, -1) ELSE hist[a]]

-----------------------------------------------------------------------------
Init ==
  /\ config \in DOMAIN Configs
  /\ counters = [n \in Names |-> Fresh]
  /\ ledger = [a \in Attempts |-> NoLease]
  /\ slots = [k \in Keys |-> 0]
  /\ holds = {}
  /\ pc = [a \in Attempts |-> "idle"]
  /\ out = [a \in Attempts |-> "none"]
  /\ usage = [a \in Attempts |-> -1]
  /\ cancelled = {}
  /\ hist = [a \in Attempts |-> NoClaim]

Goto(a, l) == pc' = [pc EXCEPT ![a] = l]
Return(a, result) == Goto(a, "done") /\ out' = [out EXCEPT ![a] = result]

\* lease.free: a sync.Once around the receive from the slot channel.
Free(a) ==
  IF a \in holds
  THEN /\ slots' = [slots EXCEPT ![Key[a]] = @ - 1]
       /\ holds' = holds \ {a}
  ELSE UNCHANGED <<slots, holds>>

Stay == UNCHANGED <<config, usage, cancelled>>

\* callProvider calls RateLimiter.Reserve: the context check, and the lease.
StartReserve(a) ==
  /\ pc[a] = "idle"
  /\ IF a \in cancelled THEN Return(a, "cancelled")
     ELSE /\ Goto(a, IF conf.concurrent > 0 THEN "take" ELSE "reserve")
          /\ UNCHANGED out
  /\ Stay /\ UNCHANGED <<counters, ledger, slots, holds, hist>>

\* concurrencySem.take with a free slot.
TakeSlot(a) ==
  /\ pc[a] = "take" /\ a \notin cancelled
  /\ slots[Key[a]] < conf.concurrent
  /\ slots' = [slots EXCEPT ![Key[a]] = @ + 1]
  /\ holds' = holds \cup {a}
  /\ Goto(a, "reserve")
  /\ Stay /\ UNCHANGED <<counters, ledger, out, hist>>

\* concurrencySem.take without one: fail fast, or wait until cancelled.  (A
\* waiter that is both cancelled and offered a slot gives the slot back.)
NoSlot(a) ==
  /\ pc[a] = "take"
  /\ \/ a \in cancelled /\ Return(a, "cancelled")
     \/ /\ conf.overflow = "failFast" /\ slots[Key[a]] = conf.concurrent
        /\ Return(a, "limited")
  /\ Stay /\ UNCHANGED <<counters, ledger, slots, holds, hist>>

\* Fault: a denied reservation keeps its slot when the limiter fails fast.
DeniedKeepsSlot(a) ==
  IF conf.overflow = "failFast"
  THEN Return(a, "limited") /\ UNCHANGED <<slots, holds>>
  ELSE UNCHANGED <<pc, out, slots, holds>>

\* RateLimiter.Reserve after a denial: fail fast, or poll again.
Denied(a) ==
  IF conf.overflow = "failFast"
  THEN Return(a, "limited") /\ Free(a)
  ELSE UNCHANGED <<pc, out, slots, holds>>

\* MemoryStore.Reserve, cleanup included, and the loop around it.
ReserveMemory(a) ==
  /\ pc[a] = "reserve" /\ conf.store = "memory"
  /\ IF a \in cancelled
     THEN /\ Return(a, "cancelled") /\ Free(a)
          /\ UNCHANGED <<counters, ledger, hist>>
     ELSE /\ counters' = Reserved(CleanCounters, a)
          /\ IF Admitted(CleanCounters, a)
             THEN /\ ledger' = [CleanLedger EXCEPT ![a] = In("pending")]
                  /\ hist' = [CleanHist EXCEPT ![a] = Ask(a)]
                  /\ Goto(a, "call")
                  /\ UNCHANGED <<out, slots, holds>>
             ELSE ledger' = CleanLedger /\ hist' = CleanHist /\ Denied(a)
  /\ Stay

\* Store.Reserve of the Redis backend: its argument checks, the script, and a
\* client error before the script ran or after its reply was lost.
ReserveRedis(a) ==
  /\ pc[a] = "reserve" /\ Redis
  /\ \/ /\ Fixed \/ Demands(a) = <<>> \/ a \in cancelled \/ conf.storeFails
        /\ Return(a, "failed") /\ Free(a)
        /\ UNCHANGED <<counters, ledger, hist>>
     \/ /\ conf.storeFails /\ ~Fixed /\ Demands(a) # <<>> /\ Admitted(counters, a)
        /\ counters' = Reserved(counters, a)
        /\ ledger' = [ledger EXCEPT ![a] = In("pending")]
        /\ hist' = [hist EXCEPT ![a] = Ask(a)]
        /\ Return(a, "failed") /\ Free(a)
     \/ /\ ~Fixed /\ Demands(a) # <<>> /\ a \notin cancelled
        /\ counters' = Reserved(counters, a)
        /\ IF Admitted(counters, a)
           THEN /\ ledger' = [ledger EXCEPT ![a] = In("pending")]
                /\ hist' = [hist EXCEPT ![a] = Ask(a)]
                /\ Goto(a, "call")
                /\ UNCHANGED <<out, slots, holds>>
           ELSE UNCHANGED <<ledger, hist>> /\ Denied(a)
  /\ Stay

\* RateLimiter.Reserve polls in block mode, and gives up with its context.
StopWaiting(a) ==
  /\ pc[a] = "reserve" /\ conf.overflow = "block" /\ a \in cancelled
  /\ Return(a, "cancelled") /\ Free(a)
  /\ Stay /\ UNCHANGED <<counters, ledger, hist>>

\* provider.Stream returns: usage n when it succeeded, -1 when it did not.
ProviderReturns(a, n) ==
  /\ pc[a] = "call"
  /\ Goto(a, "settle") /\ usage' = [usage EXCEPT ![a] = n]
  /\ UNCHANGED <<config, counters, ledger, slots, holds, out, cancelled, hist>>

Wanted(a) == IF usage[a] = -1 THEN "released" ELSE "committed"

\* RateLimiter.Commit and Release after the store answered err.
Finish(a, err) ==
  /\ Return(a, IF err # "ok" THEN err ELSE IF usage[a] = -1 THEN "failed" ELSE "ok")
  /\ IF FreesSlot(err) THEN Free(a) ELSE UNCHANGED <<slots, holds>>
  /\ usage' = [usage EXCEPT ![a] = -1]

\* MemoryStore.Commit and MemoryStore.Release.
SettleMemory(a) ==
  /\ pc[a] = "settle" /\ conf.store = "memory"
  /\ IF CleanLedger[a].state = "pending"
     THEN /\ counters' = Settle(CleanCounters, {a}, usage)
          /\ ledger' = [CleanLedger EXCEPT ![a] = In(Wanted(a))]
          /\ hist' = [CleanHist EXCEPT ![a] = Settled(a, usage[a])]
          /\ Finish(a, "ok")
     ELSE /\ counters' = CleanCounters /\ ledger' = CleanLedger /\ hist' = CleanHist
          /\ Finish(a, TerminalError(CleanLedger[a].state, Wanted(a)))
  /\ UNCHANGED <<config, cancelled>>

\* Store.terminal of the Redis backend: the HGETALL that finds the counters.
ReadLease(a) ==
  /\ pc[a] = "settle" /\ Redis
  /\ \/ /\ ledger[a].state = "pending"
        /\ Goto(a, "script") /\ UNCHANGED <<out, usage, slots, holds>>
     \/ /\ ledger[a].state # "pending"
        /\ Finish(a, TerminalError(ledger[a].state, Wanted(a)))
     \/ conf.storeFails /\ Finish(a, "storeError")
  /\ UNCHANGED <<config, cancelled, counters, ledger, hist>>

\* Store.terminal of the Redis backend: the terminal script, which expires a
\* lease that is settled too late and charges its estimate.
SettleScript(a) ==
  /\ pc[a] = "script"
  /\ LET overdue == ledger[a].age >= PendingTTL
         bill == IF overdue THEN -1 ELSE usage[a]
     IN IF ledger[a].state = "pending"
        THEN /\ counters' = ScriptSettle(a, bill)
             /\ ledger' = [ledger EXCEPT ![a] = In(IF overdue THEN "expired" ELSE Wanted(a))]
             /\ hist' = [hist EXCEPT ![a] = Settled(a, bill)]
             /\ Finish(a, IF overdue THEN "expired" ELSE "ok")
        ELSE /\ Finish(a, TerminalError(ledger[a].state, Wanted(a)))
             /\ UNCHANGED <<counters, ledger, hist>>
  /\ UNCHANGED <<config, cancelled>>

Cancel(a) ==
  /\ pc[a] \in {"idle", "take", "reserve"} /\ a \in Cancellable \ cancelled
  /\ cancelled' = cancelled \cup {a}
  /\ UNCHANGED <<config, counters, ledger, slots, holds, pc, out, usage, hist>>

\* One unit of time passes; Redis drops what has expired.
Tick ==
  /\ counters' =
       [n \in Names |->
          LET c == counters[n]
              gone == Redis /\ Older(c.idle, Window + 1) > WindowOf(n)
          IN [c EXCEPT !.events = IF gone THEN {} ELSE {[e EXCEPT !.age = Older(@, Window + 1)] : e \in @},
                       !.total = IF gone /\ ~c.kept THEN 0 ELSE @,
                       !.started = Older(@, Window + 1),
                       !.idle = IF Redis THEN Older(@, Window + 1) ELSE 0]]
  /\ ledger' =
       [a \in Attempts |->
          LET l == [ledger[a] EXCEPT !.age = IF ledger[a].state = "none" THEN 0
                                                ELSE Older(@, PendingTTL + TerminalTTL + 1)]
              kept == TerminalTTL + IF l.state = "pending" THEN PendingTTL ELSE 0
          IN IF Redis /\ l.age > kept THEN NoLease ELSE l]
  /\ hist' = [a \in Attempts |->
                IF hist[a].asked = Never \/ (hist[a].age > Window /\ ~hist[a].open) THEN NoClaim
                ELSE [hist[a] EXCEPT !.asked = Older(@, Window + 2), !.age = Older(@, Window + 2)]]
  /\ UNCHANGED <<config, slots, holds, pc, out, usage, cancelled>>

Step(a) ==
  \/ StartReserve(a) \/ TakeSlot(a) \/ NoSlot(a)
  \/ ReserveMemory(a) \/ ReserveRedis(a) \/ StopWaiting(a)
  \/ \E n \in Usage[a] \cup {-1} : ProviderReturns(a, n)
  \/ SettleMemory(a) \/ ReadLease(a) \/ SettleScript(a)

Next == (\E a \in Attempts : Step(a) \/ Cancel(a)) \/ Tick

Spec == Init /\ [][Next]_vars

-----------------------------------------------------------------------------
\* No window holds more admitted attempts than its request limit allows, in
\* either store: in any window's length of a sliding window, and between two
\* resets of a fixed one (MemoryStore.Reserve, reserveScript).
RequestsWithinLimit ==
  \A d \in UNION {Range(Demands(a)) : a \in Attempts} :
    ~IsToken(d) =>
      LET span == IF Fixed THEN counters[d.name].started ELSE d.window
      IN Quantify(Attempts, LAMBDA a :
           /\ d \in Range(Demands(a))
           /\ hist[a].asked \in 0..span) <= d.limit

\* No window is promised to more tokens than its limit: estimates of calls in
\* flight and charges of settled ones, as far as usage stays within its
\* estimate.  In the MemoryStore's sliding window a call counts until it is
\* settled, however long it takes.  Redis forgets a reservation with its
\* window, and a fixed window forgets the reservations of the last one, so
\* there the calls that outlive their window are left out.
TokensWithinLimit ==
  \A d \in UNION {TokenDemands(a) : a \in Attempts} :
    LET mine == {a \in Attempts : hist[a].asked # Never /\ d \in TokenDemands(a)}
        started == counters[d.name].started
        in == IF Fixed THEN {a \in mine : hist[a].age <= started}
              ELSE IF Redis THEN {a \in mine : hist[a].age <= d.window /\ ~hist[a].late}
              ELSE {a \in mine : hist[a].open \/ hist[a].age <= d.window}
    IN \/ MapThenSumSet(LAMBDA a : hist[a].n, in) <= d.limit
       \/ Fixed /\ \E a \in in : hist[a].late

\* The slots taken are those of the calls in progress, and of the calls whose
\* settlement the store did not know or did not answer: no other path of
\* Reserve, Commit or Release loses a slot or frees one twice.
SlotsOfCalls ==
  \A k \in Keys :
    slots[k] = Quantify({a \in Attempts : Key[a] = k}, LAMBDA a :
                 \/ conf.concurrent > 0 /\ pc[a] \in {"reserve", "call", "settle", "script"}
                 \/ a \in holds /\ pc[a] = "done" /\ out[a] \in {"unknown", "storeError"})

\* "Commit records actual confirmed provider usage and terminally frees the
\* lease" (limiter.go): a call that settled its lease holds no slot.
SettlingFreesSlot == \A a \in Attempts : pc[a] = "done" => a \notin holds

\* The Redis sum of a token counter outlived the entries it sums.
Stranded ==
  Redis /\ \E n \in Names : n[1] = "t" /\ counters[n].total > Total(counters[n].events)

\* Capacity comes back: a waiting call whose estimate fits the limits is
\* admitted by its next poll once every other call has settled and its charges
\* have left the longest window, unless a Redis sum is stranded.
CapacityReturns ==
  \A a \in Attempts :
    LET others == Attempts \ {a}
        cs == IF Redis THEN counters ELSE CleanCounters
    IN (/\ pc[a] = "reserve" /\ ~Stranded
        /\ \A d \in TokenDemands(a) : Estimate(a) <= d.limit
        /\ \A b \in others : /\ pc[b] \notin {"call", "settle", "script"}
                             /\ hist[b].asked # Never => hist[b].age > Window)
         => Admitted(cs, a)
=============================================================================
