---------------------------- MODULE MCCallSites ----------------------------
(***************************************************************************)
(* CallSites with two addresses that share a chain, sites that are called  *)
(* by name, and sites of one key of which all but one can be given up; the *)
(* locations have none, one and two operations.                            *)
(***************************************************************************)
EXTENDS CallSites, TLC

CONSTANTS t1, t2, n1, r1, r2

MCBucket == t1 :> 0 @@ t2 :> 0 @@ n1 :> 1
MCExprs == {<<>>, <<r1>>, <<r1, r1>>, <<r1, r2>>}
=============================================================================
