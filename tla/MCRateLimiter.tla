--------------------------- MODULE MCRateLimiter ---------------------------
(* Three attempts on two keys, and a small set of limiter configurations.   *)
EXTENDS RateLimiter, TLC

CONSTANTS a1, a2, a3

MCKey == a1 :> "k" @@ a2 :> "k" @@ a3 :> "j"
MCChars == a1 :> 4 @@ a2 :> 5 @@ a3 :> 0
MCMaxOutput == a1 :> 0 @@ a2 :> 0 @@ a3 :> 1
MCUsage == a1 :> {3} @@ a2 :> {1} @@ a3 :> {0}

Limit(scope, limit, window) == [scope |-> scope, limit |-> limit, window |-> window]

Base == [store |-> "memory", strategy |-> "sliding", overflow |-> "block",
         concurrent |-> 0, requests |-> <<>>, tokens |-> <<>>, fallback |-> 0,
         estimating |-> TRUE, pendingTTL |-> 0, terminalTTL |-> 0, storeFails |-> FALSE]

\* Sliding and fixed windows in memory, Redis healthy and failing, Redis asked
\* for what it rejects, slots alone, and everything with explicit TTLs.
MCConfigs ==
  LET requests == <<Limit("key", 1, 1), Limit("global", 2, 1)>>
      redis == [Base EXCEPT !.store = "redis", !.tokens = <<Limit("global", 2, 1)>>]
  IN << [Base EXCEPT !.tokens = <<Limit("key", 2, 1), Limit("global", 3, 1)>>],
        [Base EXCEPT !.tokens = <<Limit("global", 3, 1)>>, !.strategy = "fixed",
                     !.requests = <<Limit("global", 2, 1)>>, !.overflow = "failFast"],
        [redis EXCEPT !.requests = requests],
        [redis EXCEPT !.concurrent = 1, !.storeFails = TRUE, !.overflow = "failFast"],
        [redis EXCEPT !.strategy = "fixed", !.overflow = "failFast"],
        [Base EXCEPT !.concurrent = 1],
        [Base EXCEPT !.concurrent = 1, !.overflow = "failFast", !.store = "redis"],
        [Base EXCEPT !.requests = <<Limit("key", 2, 1)>>, !.concurrent = 1,
                     !.tokens = <<Limit("key", 2, 1)>>, !.fallback = 1,
                     !.estimating = FALSE, !.pendingTTL = 3, !.terminalTTL = 2] >>

\* A limiter with MaxConcurrent and no rate.
SlotsOnly == << [Base EXCEPT !.concurrent = 1] >>
=============================================================================
