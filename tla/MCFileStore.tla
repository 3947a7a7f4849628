---------------------------- MODULE MCFileStore ----------------------------
(* GuavaFileStore with two processes and two ids. *)
EXTENDS GuavaFileStore, TLC

\* Nothing distinguishes processes, ids, files, or contents that can be
\* marshalled, and no property of the run is about liveness.
StoreSymmetry ==
    Permutations(Procs) \cup Permutations(Sids) \cup Permutations(Inodes)
        \cup Permutations(Contents \ Odd)
============================================================================
