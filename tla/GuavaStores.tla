---------------------------- MODULE GuavaStores ----------------------------
(***************************************************************************)
(* The life of session stores and of the routers that use them.  A         *)
(* SessionStore is a Python object that owns a guava_session_store_t.  A   *)
(* router that is given one keeps the bare pointer to that structure: its  *)
(* constructor takes a reference to the Python object that is never given  *)
(* back, and its destructor frees the structure.  The server's list holds  *)
(* references to routers, the handler of a request a bare pointer to one.  *)
(***************************************************************************)
EXTENDS Naturals, FiniteSets

CONSTANTS
    Stores,        \* SessionStore objects the application may make
    Routers,       \* the routers it may make
    NoStore,       \* NULL as a session store
    Stray,         \* what is found where Py_None would have a store
    NoRouter       \* no request is being dispatched

ASSUME StoresAssumption ==
    /\ NoStore \notin Stores /\ Stray \notin Stores /\ NoStore # Stray
    /\ NoRouter \notin Routers

VARIABLES
    process,       \* "up", or "undefined" after a use of freed memory
    started,       \* the server runs: Python code is only run by a request
    serving,       \* handler->router of the request being dispatched
    loaded,        \* its controller has loaded SESSION
    kind,          \* of each store: "unmade", "mem", "file", "custom"
    memory,        \* its guava_session_store_t: "none", "live", "freed"
    storeRefs,     \* references to the Python object
    storeHeld,     \* the application has one of them
    life,          \* of each router: "unmade", "live", "freed"
    store,         \* router->session_store
    routerRefs,    \* references to the Python object
    routerHeld,    \* the application has one of them
    listed,        \* the server's list has one
    \* History:
    given,         \* the SessionStore its constructor was given
    added          \* it has gone through add_router

storesOnly == <<kind, storeRefs, storeHeld>>
routersOnly == <<life, store, routerRefs, routerHeld, listed, given, added>>
request == <<started, serving, loaded>>
lifeVars == <<process, memory, storesOnly, routersOnly, request>>

LifeInit ==
    /\ process = "up" /\ started = FALSE /\ serving = NoRouter /\ loaded = FALSE
    /\ kind = [s \in Stores |-> "unmade"] /\ memory = [s \in Stores |-> "none"]
    /\ storeRefs = [s \in Stores |-> 0] /\ storeHeld = [s \in Stores |-> FALSE]
    /\ life = [r \in Routers |-> "unmade"] /\ store = [r \in Routers |-> NoStore]
    /\ routerRefs = [r \in Routers |-> 0] /\ routerHeld = [r \in Routers |-> FALSE]
    /\ listed = [r \in Routers |-> FALSE]
    /\ given = [r \in Routers |-> NoStore] /\ added = [r \in Routers |-> FALSE]

\* Python code runs before the server does, and in the dispatch of a request.
AppRuns == process = "up" /\ (started => serving # NoRouter)

----------------------------------------------------------------------------
(* Stores. *)

\* SessionStore(type=k); a class of the application's own, derived from
\* SessionStore, has no structure.
NewStore(s, k) ==
    /\ AppRuns /\ kind[s] = "unmade"
    /\ kind' = [kind EXCEPT ![s] = k]
    /\ memory' = [memory EXCEPT ![s] = IF k = "custom" THEN "none" ELSE "live"]
    /\ storeRefs' = [storeRefs EXCEPT ![s] = 1]
    /\ storeHeld' = [storeHeld EXCEPT ![s] = TRUE]
    /\ UNCHANGED <<process, routersOnly, request>>

\* guava_session_store_free
StoreFree(x) ==
    /\ process' = IF x \in Stores /\ memory[x] = "live" THEN process ELSE "undefined"
    /\ memory' = IF x \in Stores THEN [memory EXCEPT ![x] = "freed"] ELSE memory

\* The application lets go of a store; the last reference takes the structure
\* with it.
DropStore(s) ==
    /\ AppRuns /\ storeHeld[s]
    /\ storeHeld' = [storeHeld EXCEPT ![s] = FALSE]
    /\ storeRefs' = [storeRefs EXCEPT ![s] = @ - 1]
    /\ IF storeRefs[s] = 1 /\ kind[s] # "custom"
         THEN StoreFree(s)
         ELSE UNCHANGED <<process, memory>>
    /\ UNCHANGED <<kind, routersOnly, request>>

----------------------------------------------------------------------------
(* Routers. *)

Construct(r, arg, pointer) ==
    /\ AppRuns /\ life[r] = "unmade"
    /\ life' = [life EXCEPT ![r] = "live"]
    /\ store' = [store EXCEPT ![r] = pointer]
    /\ given' = [given EXCEPT ![r] = arg]
    /\ routerRefs' = [routerRefs EXCEPT ![r] = 1]
    /\ routerHeld' = [routerHeld EXCEPT ![r] = TRUE]
    /\ UNCHANGED <<process, memory, kind, storeHeld, listed, added, request>>

\* A router made without a session store, or with session_store=None, whose
\* store field is read all the same.
NewPlainRouter(r) ==
    /\ \E pointer \in {NoStore, Stray} : Construct(r, NoStore, pointer)
    /\ UNCHANGED storeRefs

\* Variant for the mutation checks: no reference to the store is taken.
BorrowStore(r, s) ==
    /\ storeHeld[s]
    /\ Construct(r, s, IF kind[s] = "custom" THEN NoStore ELSE s)
    /\ UNCHANGED storeRefs

\* A router made with a session store.
NewRouter(r, s) ==
    /\ storeHeld[s]
    /\ Construct(r, s, IF kind[s] = "custom" THEN NoStore ELSE s)
    /\ storeRefs' = [storeRefs EXCEPT ![s] = @ + 1]

\* Variant: the list's reference only.
AddRouterOnce(r) ==
    /\ AppRuns /\ routerHeld[r] /\ ~ listed[r] /\ ~ added[r]
    /\ listed' = [listed EXCEPT ![r] = TRUE] /\ added' = [added EXCEPT ![r] = TRUE]
    /\ routerRefs' = [routerRefs EXCEPT ![r] = @ + 1]
    /\ UNCHANGED <<process, memory, storesOnly, life, store, routerHeld, given, request>>

\* Server.add_router: a reference for the list and one that nobody gives back.
\* Bound: once for each router.
AddRouter(r) ==
    /\ AppRuns /\ routerHeld[r] /\ ~ listed[r] /\ ~ added[r]
    /\ listed' = [listed EXCEPT ![r] = TRUE] /\ added' = [added EXCEPT ![r] = TRUE]
    /\ routerRefs' = [routerRefs EXCEPT ![r] = @ + 2]
    /\ UNCHANGED <<process, memory, storesOnly, life, store, routerHeld, given, request>>

\* server.routers.append, once the server has a list.  Bound: a router is in
\* the list once.
AppendRouter(r) ==
    /\ AppRuns /\ routerHeld[r] /\ ~ listed[r] /\ \E q \in Routers : added[q]
    /\ listed' = [listed EXCEPT ![r] = TRUE]
    /\ routerRefs' = [routerRefs EXCEPT ![r] = @ + 1]
    /\ UNCHANGED <<process, memory, storesOnly, life, store, routerHeld, given, added, request>>

\* A reference is given back; with the last one the destructor frees the
\* router and its store.
Release(r) ==
    /\ routerRefs' = [routerRefs EXCEPT ![r] = @ - 1]
    /\ IF routerRefs[r] = 1
         THEN /\ life' = [life EXCEPT ![r] = "freed"]
              /\ IF store[r] # NoStore THEN StoreFree(store[r]) ELSE UNCHANGED <<process, memory>>
         ELSE UNCHANGED <<life, process, memory>>

DropRouter(r) ==
    /\ AppRuns /\ routerHeld[r]
    /\ routerHeld' = [routerHeld EXCEPT ![r] = FALSE]
    /\ Release(r)
    /\ UNCHANGED <<storesOnly, store, listed, given, added, request>>

\* server.routers.remove
RemoveRouter(r) ==
    /\ AppRuns /\ listed[r]
    /\ listed' = [listed EXCEPT ![r] = FALSE]
    /\ Release(r)
    /\ UNCHANGED <<storesOnly, store, routerHeld, given, added, request>>

----------------------------------------------------------------------------
(* Requests. *)

Start ==
    /\ process = "up" /\ ~ started
    /\ started' = TRUE
    /\ UNCHANGED <<process, memory, storesOnly, routersOnly, serving, loaded>>

\* A request has been routed to a router of the list.
Begin(r) ==
    /\ process = "up" /\ started /\ serving = NoRouter /\ listed[r]
    /\ serving' = r /\ loaded' = FALSE
    /\ UNCHANGED <<process, memory, storesOnly, routersOnly, started>>

\* The store of the request's router can be used.
Usable == life[serving] = "live" /\ store[serving] \in Stores /\ memory[store[serving]] = "live"

\* Controller.SESSION for the first time; without a store it raises, with a
\* pointer that is none or that was freed anything may happen.
LoadSession ==
    /\ process = "up" /\ serving # NoRouter /\ ~ loaded
    /\ life[serving] = "live" => store[serving] # NoStore
    /\ process' = IF Usable THEN process ELSE "undefined"
    /\ loaded' = TRUE
    /\ UNCHANGED <<memory, storesOnly, routersOnly, started, serving>>

\* A method of the Python object, which looks into the structure.
UseStore(s) ==
    /\ AppRuns /\ storeHeld[s] /\ memory[s] # "none"
    /\ process' = IF memory[s] = "live" THEN process ELSE "undefined"
    /\ UNCHANGED <<memory, storesOnly, routersOnly, request>>

\* The actions have returned: handler->router->session_store is looked at, and
\* used if SESSION was loaded.
EndWell ==
    /\ process = "up" /\ serving # NoRouter
    /\ process' = IF life[serving] = "live" /\ (loaded => Usable) THEN process ELSE "undefined"
    /\ serving' = NoRouter /\ loaded' = FALSE
    /\ UNCHANGED <<memory, storesOnly, routersOnly, started>>

\* One of them has raised.
EndBadly ==
    /\ process = "up" /\ serving # NoRouter
    /\ serving' = NoRouter /\ loaded' = FALSE
    /\ UNCHANGED <<process, memory, storesOnly, routersOnly, started>>

\* What the application does about lifetimes, and to stores.
LifeChange ==
    \/ \E s \in Stores :
          \/ \E k \in {"mem", "file", "custom"} : NewStore(s, k)
          \/ DropStore(s) \/ UseStore(s)
          \/ \E r \in Routers : NewRouter(r, s)
    \/ \E r \in Routers :
          NewPlainRouter(r) \/ AddRouter(r) \/ AppendRouter(r) \/ DropRouter(r) \/ RemoveRouter(r)
    \/ Start

LifeNext ==
    \/ LifeChange
    \/ \E r \in Routers : Begin(r)
    \/ LoadSession \/ EndWell \/ EndBadly

LifeSpec == LifeInit /\ [][LifeNext]_lifeVars

----------------------------------------------------------------------------
(* Properties. *)

\* A router in the server's list can lose its session store in one way only:
\* another router that was given the same store has been destroyed.  That the
\* application lets go of the store does no harm.
ListedStoreLives ==
    \A r \in Routers : listed[r] /\ store[r] \in Stores =>
        \/ memory[store[r]] = "live"
        \/ \E q \in Routers \ {r} : life[q] = "freed" /\ store[q] = store[r]

\* The reference add_router loses keeps a router alive for ever, in the list or
\* not: a request that is being served by it can never see it freed.
AddedRoutersLive == \A r \in Routers : added[r] => life[r] = "live"

\* No freed memory is used, and none freed twice, while no router has been
\* destroyed and none was made with a session store that is not one; in
\* particular never a store's structure by its router and its Python object.
UndefinedNeedsDeadRouter ==
    process = "undefined" => \E r \in Routers : life[r] = "freed" \/ store[r] = Stray
============================================================================
