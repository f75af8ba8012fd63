-------------------------- MODULE MCToolWorkerPool --------------------------
(* Two turns that share a pool of two or three workers. *)
EXTENDS ToolWorkerPool, TLC

CONSTANTS b1, b2, a1, a2, a3, c1, c2
TwoBatches == {b1, b2}
TheirCalls == (b1 :> <<a1, a2, a3>>) @@ (b2 :> <<c1, c2>>)
TheirMain == {a2, c1}

OneBatch == {b1}
ItsCalls == (b1 :> <<a1, a2>>)
=============================================================================
