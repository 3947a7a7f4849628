----------------------------- MODULE MCStatic -----------------------------
(***************************************************************************)
(* GuavaStatic with two connections and a few descriptors: enough to use   *)
(* the number of a closed socket again, for a socket and for a file, and   *)
(* to run out of them.                                                     *)
(***************************************************************************)
EXTENDS GuavaStatic, TLC

ConnSymmetry == Permutations(Conns)
============================================================================
