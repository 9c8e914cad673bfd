---------------------------- MODULE MCNodePlugin ----------------------------
(***************************************************************************)
(* Small instances of NodePlugin.  Sym may be used by the runs that check  *)
(* no liveness: no definition distinguishes two invocations, two device    *)
(* numbers or two target paths.                                            *)
(***************************************************************************)
EXTENDS NodePlugin, TLC

CONSTANTS v1, v2, t1, t2, d0, d1, c1, c2

Sym == Permutations(Call) \cup Permutations(DevId) \cup Permutations(Target)
=============================================================================
