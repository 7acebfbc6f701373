----------------------------- MODULE MCTurnLoop -----------------------------
(* TurnLoop for TLC: two attempts, a submission with a call beside it.             *)
EXTENDS TurnLoop

SomeBatches == {<<"submit", "tool">>}
=============================================================================
