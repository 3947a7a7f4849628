----------------------------- MODULE MCSession -----------------------------
(***************************************************************************)
(* GuavaSession for TLC: one store, two routers, two clients, three ids,   *)
(* and one that no request of this run has made.                           *)
(***************************************************************************)
EXTENDS GuavaSession, TLC

Symmetric ==
    Permutations(Stores) \cup Permutations(Routers) \cup Permutations(Clients)
        \cup Permutations(Ids \ Strange)

\* Nobody has a session yet.
Quiet == made = Strange /\ \A d \in Dicts : dicts[d] = Empty

\* The server of the examples: one router with a store, given to add_router.
Plain ==
    \E s \in Stores, r \in Routers :
        /\ started /\ memory[s] = "live" /\ storeHeld[s]
        /\ given[r] = s /\ listed[r] /\ routerHeld[r] /\ added[r]
        /\ \A q \in Routers \ {r} : life[q] = "unmade"

\* At most one file is no session, and a file of a strange name is that or none;
\* with all three ids made there is no such file and nobody sends its name.
OneBadFile ==
    /\ \A i, l \in Ids : files[i] = Unreadable /\ files[l] = Unreadable => i = l
    /\ \A i \in Strange : files[i] \in {NoFile, Unreadable}
    /\ made = Ids => cookie \notin Strange /\ \A i \in Ids : files[i] # Unreadable

\* Bound: lifetimes are explored without sessions, and sessions on the plain
\* server until an id is made twice; every state one step beyond is checked too.
Bound == (Quiet \/ (Plain /\ ~ reused)) /\ OneBadFile
============================================================================
