----------------------------- MODULE MCEventBus -----------------------------
(* Two events of different priority, a synchronous handler that stops the  *)
(* bus when it gets the first of them, and a coroutine handler.            *)
EXTENDS EventBus, TLC

CONSTANTS e1, e2, hSync, hAsync

mcPriority == (e1 :> 10) @@ (e2 :> 1)
mcStopping == {<<e1, hSync>>}
=============================================================================
