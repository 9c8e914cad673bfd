---------------------------- MODULE MCNodeServer ----------------------------
(***************************************************************************)
(* Small instances of NodeServer.  The values are given by the .cfg files; *)
(* Sym may be used by the runs that check no liveness: no definition       *)
(* distinguishes two invocations or two device numbers.                    *)
(***************************************************************************)
EXTENDS NodeServer, TLC

CONSTANTS v1, v2, t1, d0, d1, c1, c2

Sym == Permutations(Call) \cup Permutations(DevId)
=============================================================================
