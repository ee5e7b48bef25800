----------------------------- MODULE MCRetryWait -----------------------------
(* A timeout that is no multiple of the wait, a clock set by more than a wait. *)
EXTENDS RetryWait

MCRetryCounts == -1 .. 3
MCJumps == {-3, -1, 2}
=============================================================================
