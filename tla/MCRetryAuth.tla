----------------------------- MODULE MCRetryAuth -----------------------------
(* Callers for TLC to check RetryAuth with.                                *)
EXTENDS RetryAuth, TLC

CONSTANTS k1, k2
=============================================================================
