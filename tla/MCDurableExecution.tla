------------------------- MODULE MCDurableExecution -------------------------
(* Constants for model checking DurableExecution.                          *)
EXTENDS DurableExecution, TLC

CONSTANTS w1, w2, a, b

TwoProcesses == w1 :> "p1" @@ w2 :> "p2"
OneWorker == w1 :> "p1"
OneProcess == w1 :> "p1" @@ w2 :> "p1"
=============================================================================
