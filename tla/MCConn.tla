------------------------------ MODULE MCConn ------------------------------
(* GuavaConn and its mapping to HttpServing on small instances. *)
EXTENDS GuavaConnServing, TLC

ConnSymmetry == Permutations(Conns)
============================================================================
