------------------------ MODULE GuavaSessionProofs ------------------------
(***************************************************************************)
(* Proofs about GuavaStores and GuavaSession for every set of stores,      *)
(* routers, clients, ids and contents: about the life of stores, the ids   *)
(* and errors of sessions, and what clients read.                          *)
(***************************************************************************)
EXTENDS GuavaSession, TLAPS

(* Lives. *)

B(b) == IF b THEN 1 ELSE 0

LifeTypeOK ==
    /\ process \in {"up", "undefined"}
    /\ started \in BOOLEAN /\ loaded \in BOOLEAN
    /\ serving \in Routers \cup {NoRouter}
    /\ kind \in [Stores -> {"unmade", "mem", "file", "custom"}]
    /\ memory \in [Stores -> {"none", "live", "freed"}]
    /\ storeRefs \in [Stores -> Nat] /\ storeHeld \in [Stores -> BOOLEAN]
    /\ life \in [Routers -> {"unmade", "live", "freed"}]
    /\ store \in [Routers -> Stores \cup {NoStore, Stray}]
    /\ routerRefs \in [Routers -> Nat] /\ routerHeld \in [Routers -> BOOLEAN]
    /\ listed \in [Routers -> BOOLEAN]
    /\ given \in [Routers -> Stores \cup {NoStore}] /\ added \in [Routers -> BOOLEAN]

\* A destroyed router had the store.
Lost(s) == \E q \in Routers : life[q] = "freed" /\ store[q] = s

\* The references to a router are the application's, the list's and the one
\* add_router loses; it lives as long as there are any.
RouterInv(r) ==
    /\ routerRefs[r] = B(routerHeld[r]) + B(listed[r]) + B(added[r])
    /\ life[r] = "live" <=> routerRefs[r] > 0
    /\ life[r] = "unmade" => store[r] = NoStore /\ given[r] = NoStore
    /\ store[r] \in Stores => given[r] = store[r] /\ kind[store[r]] \in {"mem", "file"}

\* The references to a store are at least the application's and one of the
\* routers that were given it; while there are any, the structure lives or a
\* router has taken it along.
StoreInv(s) ==
    /\ storeHeld[s] => storeRefs[s] > 0
    /\ kind[s] = "unmade" => storeRefs[s] = 0
    /\ \A r \in Routers : given[r] = s => storeRefs[s] > B(storeHeld[s])
    /\ kind[s] \in {"unmade", "custom"} <=> memory[s] = "none"
    /\ kind[s] \in {"mem", "file"} /\ storeRefs[s] > 0 => memory[s] = "live" \/ Lost(s)

\* The router of the request was live when it was found, and had a store, or
\* what was taken for one, when SESSION was loaded.
RequestInv ==
    serving # NoRouter =>
        /\ life[serving] # "unmade"
        /\ loaded => life[serving] = "freed" \/ store[serving] # NoStore

LifeInv ==
    /\ LifeTypeOK
    /\ \A r \in Routers : RouterInv(r)
    /\ \A s \in Stores : StoreInv(s)
    /\ RequestInv
    /\ UndefinedNeedsDeadRouter
----------------------------------------------------------------------------
(* The initial state. *)

LEMMA LifeInitInv ==
    ASSUME LifeInit
    PROVE  LifeInv
  <1> USE DEF LifeInit
  <1>1. LifeTypeOK
    BY DEF LifeTypeOK
  <1>2. ASSUME NEW r \in Routers PROVE RouterInv(r)
    BY StoresAssumption DEF RouterInv, B
  <1>3. ASSUME NEW s \in Stores PROVE StoreInv(s)
    BY StoresAssumption DEF StoreInv, Lost, B
  <1>4. RequestInv /\ UndefinedNeedsDeadRouter
    BY DEF RequestInv, UndefinedNeedsDeadRouter
  <1> QED
    BY <1>1, <1>2, <1>3, <1>4 DEF LifeInv
----------------------------------------------------------------------------
(* Steps about stores. *)

LEMMA NewStoreInv ==
    ASSUME LifeInv, NEW s \in Stores, NEW k \in {"mem", "file", "custom"}, NewStore(s, k)
    PROVE  LifeInv'
  <1> USE DEF NewStore, LifeInv, LifeTypeOK, routersOnly, request
  <1>1. LifeTypeOK'
    OBVIOUS
  <1>2. ASSUME NEW r \in Routers PROVE RouterInv(r)'
    BY DEF RouterInv, B
  <1>3. ASSUME NEW x \in Stores PROVE StoreInv(x)'
    <2>1. CASE x # s
      BY <2>1 DEF StoreInv, Lost, B
    <2>2. CASE x = s
      BY <2>2 DEF StoreInv, Lost, B
    <2> QED
      BY <2>1, <2>2
  <1>4. RequestInv'
    BY StoresAssumption DEF RequestInv
  <1>5. UndefinedNeedsDeadRouter'
    BY DEF UndefinedNeedsDeadRouter
  <1> QED
    BY <1>1, <1>2, <1>3, <1>4, <1>5

LEMMA DropStoreInv ==
    ASSUME LifeInv, NEW s \in Stores, DropStore(s)
    PROVE  LifeInv'
  <1> USE DEF DropStore, LifeInv, LifeTypeOK, routersOnly, request, StoreFree
  <1>1. LifeTypeOK'
    BY DEF StoreInv
  <1>2. ASSUME NEW r \in Routers PROVE RouterInv(r)'
    BY DEF RouterInv, B
  <1>3. ASSUME NEW x \in Stores PROVE StoreInv(x)'
    <2>1. CASE x # s
      BY <2>1 DEF StoreInv, Lost, B
    <2>2. CASE x = s
      BY <2>2 DEF StoreInv, Lost, B
    <2> QED
      BY <2>1, <2>2
  <1>4. RequestInv'
    BY StoresAssumption DEF RequestInv
  <1>5. UndefinedNeedsDeadRouter'
    BY DEF UndefinedNeedsDeadRouter, StoreInv, Lost
  <1> QED
    BY <1>1, <1>2, <1>3, <1>4, <1>5

LEMMA UseStoreInv ==
    ASSUME LifeInv, NEW s \in Stores, UseStore(s)
    PROVE  LifeInv'
  <1> USE DEF UseStore, LifeInv, LifeTypeOK, storesOnly, routersOnly, request
  <1>1. LifeTypeOK'
    OBVIOUS
  <1>2. ASSUME NEW r \in Routers PROVE RouterInv(r)'
    BY DEF RouterInv, B
  <1>3. ASSUME NEW x \in Stores PROVE StoreInv(x)'
    BY DEF StoreInv, Lost, B
  <1>4. RequestInv'
    BY DEF RequestInv
  <1>5. UndefinedNeedsDeadRouter'
    BY DEF UndefinedNeedsDeadRouter, StoreInv, Lost
  <1> QED
    BY <1>1, <1>2, <1>3, <1>4, <1>5
----------------------------------------------------------------------------
(* Steps about routers. *)

LEMMA NewPlainRouterInv ==
    ASSUME LifeInv, NEW r \in Routers, NewPlainRouter(r)
    PROVE  LifeInv'
  <1> USE StoresAssumption DEF NewPlainRouter, Construct, LifeInv, LifeTypeOK, request
  <1>1. LifeTypeOK'
    OBVIOUS
  <1>2. ASSUME NEW q \in Routers PROVE RouterInv(q)'
    <2>1. CASE q # r
      BY <2>1 DEF RouterInv, B
    <2>2. CASE q = r
      BY <2>2 DEF RouterInv, B
    <2> QED
      BY <2>1, <2>2
  <1>3. ASSUME NEW x \in Stores PROVE StoreInv(x)'
    BY DEF StoreInv, Lost, B
  <1>4. RequestInv'
    BY DEF RequestInv
  <1>5. UndefinedNeedsDeadRouter'
    <2>1. ASSUME NEW q \in Routers, life[q] = "freed" \/ store[q] = Stray
          PROVE  life'[q] = "freed" \/ store'[q] = Stray
      BY <2>1 DEF RouterInv
    <2> QED
      BY <2>1 DEF UndefinedNeedsDeadRouter
  <1> QED
    BY <1>1, <1>2, <1>3, <1>4, <1>5

LEMMA NewRouterInv ==
    ASSUME LifeInv, NEW r \in Routers, NEW s \in Stores, NewRouter(r, s)
    PROVE  LifeInv'
  <1> USE StoresAssumption DEF NewRouter, Construct, LifeInv, LifeTypeOK, request
  <1>1. LifeTypeOK'
    OBVIOUS
  <1>2. ASSUME NEW q \in Routers PROVE RouterInv(q)'
    <2>1. CASE q # r
      BY <2>1 DEF RouterInv, B
    <2>2. CASE q = r
      BY <2>2 DEF RouterInv, StoreInv, B
    <2> QED
      BY <2>1, <2>2
  <1>3. ASSUME NEW x \in Stores PROVE StoreInv(x)'
    BY DEF StoreInv, Lost, B
  <1>4. RequestInv'
    BY DEF RequestInv
  <1>5. UndefinedNeedsDeadRouter'
    <2>1. ASSUME NEW q \in Routers, life[q] = "freed" \/ store[q] = Stray
          PROVE  life'[q] = "freed" \/ store'[q] = Stray
      BY <2>1 DEF RouterInv
    <2> QED
      BY <2>1 DEF UndefinedNeedsDeadRouter
  <1> QED
    BY <1>1, <1>2, <1>3, <1>4, <1>5

LEMMA AddRouterInv ==
    ASSUME LifeInv, NEW r \in Routers, AddRouter(r)
    PROVE  LifeInv'
  <1> USE DEF AddRouter, LifeInv, LifeTypeOK, storesOnly, request
  <1>1. LifeTypeOK'
    OBVIOUS
  <1>2. ASSUME NEW q \in Routers PROVE RouterInv(q)'
    <2>1. CASE q # r
      BY <2>1 DEF RouterInv, B
    <2>2. CASE q = r
      BY <2>2 DEF RouterInv, B
    <2> QED
      BY <2>1, <2>2
  <1>3. ASSUME NEW x \in Stores PROVE StoreInv(x)'
    BY DEF StoreInv, Lost, B
  <1>4. RequestInv'
    BY DEF RequestInv
  <1>5. UndefinedNeedsDeadRouter'
    BY DEF UndefinedNeedsDeadRouter
  <1> QED
    BY <1>1, <1>2, <1>3, <1>4, <1>5

LEMMA AppendRouterInv ==
    ASSUME LifeInv, NEW r \in Routers, AppendRouter(r)
    PROVE  LifeInv'
  <1> USE DEF AppendRouter, LifeInv, LifeTypeOK, storesOnly, request
  <1>1. LifeTypeOK'
    OBVIOUS
  <1>2. ASSUME NEW q \in Routers PROVE RouterInv(q)'
    <2>1. CASE q # r
      BY <2>1 DEF RouterInv, B
    <2>2. CASE q = r
      BY <2>2 DEF RouterInv, B
    <2> QED
      BY <2>1, <2>2
  <1>3. ASSUME NEW x \in Stores PROVE StoreInv(x)'
    BY DEF StoreInv, Lost, B
  <1>4. RequestInv'
    BY DEF RequestInv
  <1>5. UndefinedNeedsDeadRouter'
    BY DEF UndefinedNeedsDeadRouter
  <1> QED
    BY <1>1, <1>2, <1>3, <1>4, <1>5

\* A router dies with its last reference, and takes its store along.
LEMMA ReleaseInv ==
    ASSUME LifeInv, NEW r \in Routers, routerHeld[r] \/ listed[r],
           DropRouter(r) \/ RemoveRouter(r)
    PROVE  LifeInv'
  <1> USE StoresAssumption DEF DropRouter, RemoveRouter, Release, StoreFree, LifeInv, LifeTypeOK,
          storesOnly, request
  <1>0. /\ \A q \in Routers : life[q] = "freed" => life'[q] = "freed"
        /\ store' = store /\ given' = given /\ storeRefs' = storeRefs /\ storeHeld' = storeHeld
        /\ kind' = kind
    BY DEF RouterInv, B
  <1>1. LifeTypeOK'
    <2>1. routerRefs[r] - 1 \in Nat
      BY DEF RouterInv, B
    <2>2. routerRefs' \in [Routers -> Nat]
      BY <2>1
    <2>3. /\ routerHeld' \in [Routers -> BOOLEAN] /\ listed' \in [Routers -> BOOLEAN]
          /\ life' \in [Routers -> {"unmade", "live", "freed"}]
      OBVIOUS
    <2>4. process' \in {"up", "undefined"} /\ memory' \in [Stores -> {"none", "live", "freed"}]
      OBVIOUS
    <2> QED
      BY <1>0, <2>2, <2>3, <2>4
  <1>2. ASSUME NEW q \in Routers PROVE RouterInv(q)'
    <2>1. CASE q # r
      BY <2>1 DEF RouterInv, B
    <2>2. CASE q = r
      BY <2>2 DEF RouterInv, B
    <2> QED
      BY <2>1, <2>2
  <1>3. ASSUME NEW x \in Stores PROVE StoreInv(x)'
    <2>1. Lost(x) => Lost(x)'
      BY <1>0 DEF Lost
    <2>2. memory'[x] = memory[x] \/ (memory'[x] = "freed" /\ memory[x] # "none" /\ Lost(x)')
      BY <1>0 DEF Lost, RouterInv, StoreInv
    <2> QED
      BY <1>0, <2>1, <2>2 DEF StoreInv
  <1>4. RequestInv'
    BY <1>0 DEF RequestInv, RouterInv
  <1>5. UndefinedNeedsDeadRouter'
    BY <1>0 DEF UndefinedNeedsDeadRouter
  <1> QED
    BY <1>1, <1>2, <1>3, <1>4, <1>5
----------------------------------------------------------------------------
(* Steps of requests. *)

LEMMA BeginInv ==
    ASSUME LifeInv, NEW r \in Routers, Begin(r)
    PROVE  LifeInv'
  <1> USE DEF Begin, LifeInv, LifeTypeOK, storesOnly, routersOnly
  <1>1. LifeTypeOK'
    OBVIOUS
  <1>2. ASSUME NEW q \in Routers PROVE RouterInv(q)'
    BY DEF RouterInv, B
  <1>3. ASSUME NEW x \in Stores PROVE StoreInv(x)'
    BY DEF StoreInv, Lost, B
  <1>4. RequestInv'
    BY DEF RequestInv, RouterInv, B
  <1>5. UndefinedNeedsDeadRouter'
    BY DEF UndefinedNeedsDeadRouter
  <1> QED
    BY <1>1, <1>2, <1>3, <1>4, <1>5

\* A store that cannot be used has been lost, or is not one.
LEMMA UnusableNeedsDeadRouter ==
    ASSUME LifeInv, serving # NoRouter, ~ Usable,
           life[serving] = "live" => store[serving] # NoStore
    PROVE  \E r \in Routers : life[r] = "freed" \/ store[r] = Stray
  <1> USE DEF LifeInv, LifeTypeOK
  <1>1. CASE life[serving] # "live"
    BY <1>1 DEF RequestInv
  <1>2. CASE store[serving] \in Stores /\ memory[store[serving]] # "live"
    BY <1>2 DEF StoreInv, RouterInv, Lost, B
  <1> QED
    BY <1>1, <1>2 DEF Usable

LEMMA RequestStepInv ==
    ASSUME LifeInv, LoadSession \/ EndWell \/ EndBadly \/ Start
    PROVE  LifeInv'
  <1> USE DEF LoadSession, EndWell, EndBadly, Start, LifeInv, LifeTypeOK, storesOnly, routersOnly
  <1>1. LifeTypeOK'
    OBVIOUS
  <1>2. ASSUME NEW q \in Routers PROVE RouterInv(q)'
    BY DEF RouterInv, B
  <1>3. ASSUME NEW x \in Stores PROVE StoreInv(x)'
    BY DEF StoreInv, Lost, B
  <1>4. RequestInv'
    BY DEF RequestInv
  <1>5. UndefinedNeedsDeadRouter'
    BY UnusableNeedsDeadRouter DEF UndefinedNeedsDeadRouter, RequestInv
  <1> QED
    BY <1>1, <1>2, <1>3, <1>4, <1>5
----------------------------------------------------------------------------
(* The invariant and the properties. *)

LEMMA LifeNextInv ==
    ASSUME LifeInv, [LifeNext]_lifeVars
    PROVE  LifeInv'
  <1>1. CASE UNCHANGED lifeVars
    BY <1>1 DEF lifeVars, storesOnly, routersOnly, request, LifeInv, LifeTypeOK, RouterInv, StoreInv,
       Lost, RequestInv, UndefinedNeedsDeadRouter, B
  <1>2. ASSUME NEW s \in Stores, NEW k \in {"mem", "file", "custom"}, NewStore(s, k) PROVE LifeInv'
    BY <1>2, NewStoreInv
  <1>3. ASSUME NEW s \in Stores, DropStore(s) PROVE LifeInv'
    BY <1>3, DropStoreInv
  <1>4. ASSUME NEW s \in Stores, UseStore(s) PROVE LifeInv'
    BY <1>4, UseStoreInv
  <1>5. ASSUME NEW s \in Stores, NEW r \in Routers, NewRouter(r, s) PROVE LifeInv'
    BY <1>5, NewRouterInv
  <1>6. ASSUME NEW r \in Routers, NewPlainRouter(r) PROVE LifeInv'
    BY <1>6, NewPlainRouterInv
  <1>7. ASSUME NEW r \in Routers, AddRouter(r) \/ AppendRouter(r) PROVE LifeInv'
    BY <1>7, AddRouterInv, AppendRouterInv
  <1>8. ASSUME NEW r \in Routers, DropRouter(r) \/ RemoveRouter(r) PROVE LifeInv'
    BY <1>8, ReleaseInv DEF DropRouter, RemoveRouter
  <1>9. ASSUME NEW r \in Routers, Begin(r) PROVE LifeInv'
    BY <1>9, BeginInv
  <1>10. ASSUME LoadSession \/ EndWell \/ EndBadly \/ Start PROVE LifeInv'
    BY <1>10, RequestStepInv
  <1> QED
    BY <1>1, <1>2, <1>3, <1>4, <1>5, <1>6, <1>7, <1>8, <1>9, <1>10 DEF LifeNext, LifeChange

LEMMA LifeInvImplies ==
    ASSUME LifeInv
    PROVE  ListedStoreLives /\ AddedRoutersLive /\ UndefinedNeedsDeadRouter
  <1> USE DEF LifeInv, LifeTypeOK
  <1>1. ListedStoreLives
    <2>1. SUFFICES ASSUME NEW r \in Routers, listed[r], store[r] \in Stores, memory[store[r]] # "live"
                   PROVE  \E q \in Routers \ {r} : life[q] = "freed" /\ store[q] = store[r]
      BY DEF ListedStoreLives
    <2>2. life[r] = "live" /\ Lost(store[r])
      BY <2>1 DEF RouterInv, StoreInv, B
    <2> QED
      BY <2>2 DEF Lost
  <1>2. AddedRoutersLive
    BY DEF AddedRoutersLive, RouterInv, B
  <1> QED
    BY <1>1, <1>2

\* The lifetimes of a session run are those GuavaStores allows.
LEMMA SessionStep ==
    ASSUME [Next]_vars
    PROVE  [LifeNext]_lifeVars
  <1>1. CASE LifeStep
    BY <1>1 DEF LifeStep, LifeNext
  <1>2. ASSUME NEW c \in Clients, NEW r \in Routers, Arrive(c, r) \/ \E id \in Strange : ArriveAs(c, r, id)
        PROVE  LifeNext
    BY <1>2 DEF Arrive, ArriveAs, LifeNext
  <1>3. CASE Load
    BY <1>3 DEF Load, LifeNext
  <1>4. CASE Finish
    BY <1>4 DEF Finish, LifeNext
  <1>5. CASE Fail
    BY <1>5 DEF Fail, LifeNext
  <1>6. ASSUME ClearError \/ (\E id \in Ids : CutShort(id)) \/ \E x \in Contents : Modify(x)
        PROVE  UNCHANGED lifeVars
    BY <1>6 DEF ClearError, CutShort, Modify
  <1>7. ASSUME NEW s \in Stores, Call(s) PROVE LifeNext
    BY <1>7 DEF Call, LifeNext, LifeChange
  <1>8. ASSUME NEW s \in Stores, Clear(s) \/ Delete(s) PROVE LifeNext
    BY <1>7, <1>8 DEF Clear, Delete
  <1>9. ASSUME NEW s \in Stores, NEW id \in Ids, Rotate(s, id) \/ \E x \in Contents : Login(s, id, x)
        PROVE  LifeNext
    BY <1>7, <1>9 DEF Rotate, Login
  <1>10. CASE UNCHANGED vars
    BY <1>10 DEF vars
  <1> QED
    BY <1>1, <1>2, <1>3, <1>4, <1>5, <1>6, <1>8, <1>9, <1>10 DEF Next

\* Whatever the application does with stores and routers, and whatever its
\* actions do with sessions, lifetimes follow GuavaStores.
THEOREM SessionsFollowLives == Spec => LifeSpec
  <1>1. Init => LifeInit
    BY DEF Init
  <1> QED
    BY <1>1, SessionStep, PTL DEF Spec, LifeSpec

LEMMA LifeInvariant == LifeSpec => []LifeInv
  <1>1. LifeInit => LifeInv
    BY LifeInitInv
  <1>2. LifeInv /\ [LifeNext]_lifeVars => LifeInv'
    BY LifeNextInv
  <1> QED
    BY <1>1, <1>2, PTL DEF LifeSpec

\* A listed router loses its store only to a router destroyed before, however
\* many stores and routers there are.
THEOREM ListedStoresLive == Spec => []ListedStoreLives
  <1>1. LifeInv => ListedStoreLives
    BY LifeInvImplies
  <1> QED
    BY <1>1, SessionsFollowLives, LifeInvariant, PTL

\* A router that went through add_router is never destroyed.
THEOREM AddedRoutersStay == Spec => []AddedRoutersLive
  <1>1. LifeInv => AddedRoutersLive
    BY LifeInvImplies
  <1> QED
    BY <1>1, SessionsFollowLives, LifeInvariant, PTL

\* No freed memory is used before a router dies or a None is taken for a store.
THEOREM FreedMemoryUnused == Spec => []UndefinedNeedsDeadRouter
  <1>1. LifeInv => UndefinedNeedsDeadRouter
    BY LifeInvImplies
  <1> QED
    BY <1>1, SessionsFollowLives, LifeInvariant, PTL
----------------------------------------------------------------------------
(* Ids. *)

\* Cookies and saved sessions have ids that were made, and none in common
\* while each was made once.
IdInv ==
    /\ jar \in [Clients -> Ids \cup {NoId}]
    /\ \A c \in Clients : jar[c] \in made \cup {NoId}
    /\ orphans \subseteq made /\ made \subseteq Ids /\ Strange \subseteq made
    /\ ~ reused => \A c \in Clients : jar[c] \notin Strange
    /\ SavedWhereNobodyLooks

LEMMA IdStep ==
    ASSUME IdInv, [Next]_vars
    PROVE  IdInv'
  <1> USE DEF IdInv, SavedWhereNobodyLooks
  <1>1. CASE UNCHANGED <<jar, made, reused, orphans>>
    BY <1>1
  <1>2. ASSUME NEW s \in Stores, NEW id \in Ids, NEW x \in Contents, Login(s, id, x) PROVE IdInv'
    BY <1>2, SessionAssumption DEF Login, MakeId
  <1>3. ASSUME NEW s \in Stores, NEW id \in Ids, Rotate(s, id) PROVE IdInv'
    BY <1>3, SessionAssumption DEF Rotate, MakeId
  <1>4. CASE Finish
    <2>1. CASE loaded /\ Usable
      BY <1>4, <2>1, SessionAssumption DEF Finish, Save, MakeId, answer
    <2>2. CASE ~ (loaded /\ Usable)
      BY <1>4, <2>2, <1>1 DEF Finish, Save, answer, ids
    <2> QED
      BY <2>1, <2>2
  <1>5. ASSUME \/ LifeStep \/ \E c \in Clients, r \in Routers : Arrive(c, r) \/ \E id \in Strange : ArriveAs(c, r, id)
               \/ (\E id \in Ids : CutShort(id)) \/ Load \/ Fail \/ ClearError
        PROVE  UNCHANGED <<jar, made, reused, orphans>>
    BY <1>5 DEF LifeStep, sessionVars, answer, ids, Arrive, ArriveAs, CutShort, Load, Fail, ClearError
  <1>6. ASSUME \/ \E x \in Contents : Modify(x)
               \/ \E s \in Stores : Clear(s) \/ Delete(s)
        PROVE  UNCHANGED <<jar, made, reused, orphans>>
    BY <1>6 DEF Modify, Clear, Delete, ids
  <1>7. UNCHANGED vars => UNCHANGED <<jar, made, reused, orphans>>
    BY DEF vars, sessionVars, answer, ids
  <1> QED
    BY <1>1, <1>2, <1>3, <1>4, <1>5, <1>6, <1>7 DEF Next

LEMMA IdInit == Init => IdInv
  BY SessionAssumption DEF Init, IdInv, SavedWhereNobodyLooks

\* While no id is made twice, no client ever has one under which the server
\* saved a session after a request.
THEOREM SavedSessionsUnfound == Spec => []SavedWhereNobodyLooks
  <1>1. Init => IdInv
    BY IdInit
  <1>2. IdInv => SavedWhereNobodyLooks
    BY DEF IdInv
  <1> QED
    BY <1>1, <1>2, IdStep, PTL DEF Spec
----------------------------------------------------------------------------
(* Errors left behind. *)

SessionTypeOK ==
    /\ items \in [Stores -> [Ids -> Dicts \cup {NoDict}]]
    /\ files \in [Ids -> Contents \cup {NoFile, Unreadable}]
    /\ dicts \in [Dicts -> Contents]
    /\ jar \in [Clients -> Ids \cup {NoId}]
    /\ cookie \in Ids \cup {NoId} /\ session \in Dicts \cup {NoDict}
    /\ pending \in BOOLEAN /\ damage \in BOOLEAN

\* A request that has loaded SESSION has a dict; without damage, what cannot be
\* read is at most the file of a strange name, and not that of a request's cookie.
DamageInv ==
    /\ SessionTypeOK
    /\ process = "up" /\ loaded => session \in Dicts
    /\ \A i \in Ids \ Strange : files[i] = Unreadable => damage
    /\ cookie # NoId /\ files[cookie] = Unreadable => damage
    /\ InnocentFailureNeedsDamage

LEMMA FreshIsDict == Unused # {} => FreshDict \in Dicts
  BY DEF Unused, FreshDict

LEMMA HeapType ==
    ASSUME NEW newItems \in [Stores -> [Ids -> Dicts \cup {NoDict}]], NEW newSession \in Dicts \cup {NoDict},
           NEW contents \in [Dicts -> Contents], Heap(newItems, newSession, contents)
    PROVE  /\ items' \in [Stores -> [Ids -> Dicts \cup {NoDict}]]
           /\ dicts' \in [Dicts -> Contents] /\ session' = newSession
  BY SessionAssumption DEF Heap

\* A file is unreadable only if an odd session was put into it.
LEMMA SetFiles ==
    ASSUME SessionTypeOK, NEW s \in Stores, kind[s] \in {"mem", "file"}, NEW id \in Ids, NEW d \in Dicts,
           NEW contents \in [Dicts -> Contents], NEW newSession \in Dicts \cup {NoDict},
           Set(s, id, d, contents, newSession)
    PROVE  /\ items' \in [Stores -> [Ids -> Dicts \cup {NoDict}]] /\ dicts' \in [Dicts -> Contents]
           /\ session' = newSession
           /\ files' \in [Ids -> Contents \cup {NoFile, Unreadable}]
           /\ \A i \in Ids : files'[i] = Unreadable =>
                 files[i] = Unreadable \/ (kind[s] = "file" /\ contents[d] \in Odd)
  <1> USE DEF SessionTypeOK
  <1>1. CASE kind[s] = "mem"
    <2>1. [items EXCEPT ![s][id] = d] \in [Stores -> [Ids -> Dicts \cup {NoDict}]]
      OBVIOUS
    <2> QED
      BY <1>1, <2>1, HeapType DEF Set
  <1>2. CASE kind[s] = "file"
    <2>1. files' = [files EXCEPT ![id] = Marshal(contents[d])] /\ Heap(items, newSession, contents)
      BY <1>2 DEF Set
    <2>2. Marshal(contents[d]) \in Contents \cup {Unreadable}
      BY DEF Marshal
    <2>3. Marshal(contents[d]) = Unreadable => contents[d] \in Odd
      BY SessionAssumption DEF Marshal
    <2> QED
      BY <1>2, <2>1, <2>2, <2>3, HeapType
  <1> QED
    BY <1>1, <1>2

\* What a lifetime step leaves alone.
LEMMA LifeStepDamage ==
    ASSUME DamageInv, LifeStep
    PROVE  DamageInv'
  <1>1. UNCHANGED sessionVars /\ loaded' = loaded /\ (process' = "up" => process = "up")
    BY DEF LifeStep, LifeChange, NewStore, DropStore, UseStore, NewRouter, NewPlainRouter, Construct, AddRouter,
       AppendRouter, DropRouter, RemoveRouter, Release, StoreFree, Start, AppRuns, request
  <1> QED
    BY <1>1 DEF DamageInv, SessionTypeOK, InnocentFailureNeedsDamage, sessionVars, stored, answer, visit, errors

LEMMA ArriveDamage ==
    ASSUME IdInv, DamageInv, NEW c \in Clients, NEW r \in Routers, Arrive(c, r)
    PROVE  DamageInv'
  <1>1. jar[c] \in Ids \cup {NoId} /\ jar[c] \notin Strange
    BY DEF IdInv, Arrive, Followed
  <1> QED
    BY <1>1 DEF DamageInv, SessionTypeOK, InnocentFailureNeedsDamage, Arrive, Begin, stored, answer, errors

LEMMA ArriveAsDamage ==
    ASSUME DamageInv, NEW c \in Clients, NEW r \in Routers, NEW id \in Strange, ArriveAs(c, r, id)
    PROVE  DamageInv'
  <1>1. id \in Ids
    BY SessionAssumption
  <1> QED
    BY <1>1 DEF DamageInv, SessionTypeOK, InnocentFailureNeedsDamage, ArriveAs, Begin, stored, answer

LEMMA CutShortDamage ==
    ASSUME DamageInv, NEW id \in Ids, CutShort(id)
    PROVE  DamageInv'
  <1>1. damage' = TRUE /\ files' = [files EXCEPT ![id] = Unreadable]
        /\ UNCHANGED <<process, loaded, items, dicts, jar, cookie, session, pending>>
    BY DEF CutShort, lifeVars, request, visit
  <1> QED
    BY <1>1 DEF DamageInv, SessionTypeOK, InnocentFailureNeedsDamage

LEMMA LoadDamage ==
    ASSUME LifeInv, DamageInv, Load
    PROVE  DamageInv'
  <1> DEFINE s == store[serving]
  <1> USE DEF DamageInv, SessionTypeOK, answer
  <1>1. FreshDict \in Dicts
    BY FreshIsDict DEF Load
  <1>2. CASE ~ Usable
    BY <1>2 DEF Load, LoadSession, InnocentFailureNeedsDamage
  <1>3. CASE Usable
    <2>1. s \in Stores
      BY <1>3 DEF Usable
    <2>2. Get(s, cookie) \in Contents
      BY <2>1, SessionAssumption DEF Get
    <2>3. /\ items' \in [Stores -> [Ids -> Dicts \cup {NoDict}]]
          /\ dicts' \in [Dicts -> Contents] /\ session' \in Dicts
      <3>1. CASE cookie = NoId \/ kind[s] # "mem" \/ items[s][cookie] = NoDict
        <4>1. Heap(items, FreshDict, [dicts EXCEPT ![FreshDict] = Get(s, cookie)])
          BY <1>3, <3>1 DEF Load
        <4>2. [dicts EXCEPT ![FreshDict] = Get(s, cookie)] \in [Dicts -> Contents]
          BY <1>1, <2>2
        <4> QED
          BY <1>1, <4>1, <4>2, HeapType
      <3>2. CASE ~ (cookie = NoId \/ kind[s] # "mem" \/ items[s][cookie] = NoDict)
        <4>1. Heap(items, items[s][cookie], dicts)
          BY <1>3, <3>2 DEF Load, Take
        <4>2. items[s][cookie] \in Dicts
          BY <2>1, <3>2
        <4> QED
          BY <4>1, <4>2, HeapType
      <3> QED
        BY <3>1, <3>2
    <2>4. pending' \in BOOLEAN /\ (pending' => damage)
      BY <1>3 DEF Load, LeavesError, InnocentFailureNeedsDamage
    <2> QED
      BY <2>3, <2>4 DEF Load, InnocentFailureNeedsDamage
  <1> QED
    BY <1>2, <1>3

LEMMA ModifyDamage ==
    ASSUME DamageInv, NEW x \in Contents, Modify(x)
    PROVE  DamageInv'
  BY DEF DamageInv, SessionTypeOK, InnocentFailureNeedsDamage, Modify, lifeVars, request, visit, errors

\* A store that a request can use holds a structure of one of two kinds.
LEMMA LiveKinds ==
    ASSUME LifeInv, NEW s \in Stores, memory[s] = "live"
    PROVE  kind[s] \in {"mem", "file"}
  BY DEF LifeInv, LifeTypeOK, StoreInv

\* The steps that put a dict into a store.
LEMMA PutDamage ==
    ASSUME LifeInv, DamageInv, NEW s \in Stores, memory[s] = "live", NEW id \in Ids, NEW d \in Dicts,
           NEW contents \in [Dicts -> Contents], NEW newSession \in Dicts \cup {NoDict},
           Set(s, id, d, contents, newSession),
           jar' \in [Clients -> Ids \cup {NoId}], cookie' \in {cookie, NoId}, pending' = pending,
           damage' \in BOOLEAN, damage \/ (kind[s] = "file" /\ contents[d] \in Odd) => damage',
           process' = "up" /\ loaded' => newSession \in Dicts
    PROVE  DamageInv'
  <1>1. kind[s] \in {"mem", "file"}
    BY LiveKinds
  <1>2. /\ items' \in [Stores -> [Ids -> Dicts \cup {NoDict}]] /\ dicts' \in [Dicts -> Contents]
        /\ session' = newSession
        /\ files' \in [Ids -> Contents \cup {NoFile, Unreadable}]
        /\ \A i \in Ids : files'[i] = Unreadable =>
              files[i] = Unreadable \/ (kind[s] = "file" /\ contents[d] \in Odd)
    BY <1>1, SetFiles DEF DamageInv
  <1> QED
    BY <1>2 DEF DamageInv, SessionTypeOK, InnocentFailureNeedsDamage

LEMMA LoginDamage ==
    ASSUME LifeInv, DamageInv, NEW s \in Stores, NEW id \in Ids, NEW x \in Contents, Login(s, id, x)
    PROVE  DamageInv'
  <1>1. FreshDict \in Dicts
    BY FreshIsDict DEF Login
  <1> DEFINE contents == [dicts EXCEPT ![FreshDict] = x]
  <1>2. contents \in [Dicts -> Contents] /\ contents[FreshDict] = x
    BY <1>1 DEF DamageInv, SessionTypeOK
  <1> HIDE DEF contents
  <1>3. Set(s, id, FreshDict, contents, session)
    BY DEF Login, contents
  <1>4. memory[s] = "live" /\ loaded' = loaded /\ (process' = "up" => process = "up")
    BY DEF Login, Call, UseStore, AppRuns, request
  <1>5. /\ jar' \in [Clients -> Ids \cup {NoId}] /\ cookie' = cookie /\ pending' = pending
        /\ damage' = (damage \/ (kind[s] = "file" /\ x \in Odd))
    BY DEF Login, DamageInv, SessionTypeOK
  <1>6. session \in Dicts \cup {NoDict} /\ damage \in BOOLEAN /\ (process = "up" /\ loaded => session \in Dicts)
    BY DEF DamageInv, SessionTypeOK
  <1> QED
    BY <1>1, <1>2, <1>3, <1>4, <1>5, <1>6, PutDamage

LEMMA RotateDamage ==
    ASSUME LifeInv, DamageInv, NEW s \in Stores, NEW id \in Ids, Rotate(s, id)
    PROVE  DamageInv'
  <1>1. session \in Dicts /\ dicts \in [Dicts -> Contents] /\ damage \in BOOLEAN
    BY DEF Rotate, DamageInv, SessionTypeOK
  <1>2. Set(s, id, session, dicts, session)
    BY DEF Rotate
  <1>3. memory[s] = "live"
    BY DEF Rotate, Call
  <1>4. /\ jar' \in [Clients -> Ids \cup {NoId}] /\ cookie' = cookie /\ pending' = pending
        /\ damage' = (damage \/ (kind[s] = "file" /\ dicts[session] \in Odd))
    BY DEF Rotate, DamageInv, SessionTypeOK
  <1> QED
    BY <1>1, <1>2, <1>3, <1>4, PutDamage

LEMMA ClearDamage ==
    ASSUME LifeInv, DamageInv, NEW s \in Stores, Clear(s)
    PROVE  DamageInv'
  <1>1. FreshDict \in Dicts
    BY FreshIsDict DEF Clear
  <1> DEFINE contents == [dicts EXCEPT ![FreshDict] = Empty]
  <1>2. contents \in [Dicts -> Contents] /\ contents[FreshDict] \notin Odd
    BY <1>1, SessionAssumption DEF DamageInv, SessionTypeOK
  <1> HIDE DEF contents
  <1>3. Set(s, cookie, FreshDict, contents, session) /\ cookie \in Ids
    BY DEF Clear, contents, DamageInv, SessionTypeOK
  <1>4. memory[s] = "live" /\ loaded' = loaded /\ (process' = "up" => process = "up")
    BY DEF Clear, Call, UseStore, AppRuns, request
  <1>5. /\ jar' \in [Clients -> Ids \cup {NoId}] /\ cookie' = cookie
        /\ pending' = pending /\ damage' = damage
    BY DEF Clear, DamageInv, SessionTypeOK, errors
  <1>6. session \in Dicts \cup {NoDict} /\ damage \in BOOLEAN /\ (process = "up" /\ loaded => session \in Dicts)
    BY DEF DamageInv, SessionTypeOK
  <1> QED
    BY <1>1, <1>2, <1>3, <1>4, <1>5, <1>6, PutDamage

LEMMA DeleteDamage ==
    ASSUME DamageInv, NEW s \in Stores, Delete(s)
    PROVE  DamageInv'
  <1> USE DEF DamageInv, SessionTypeOK, InnocentFailureNeedsDamage
  <1>1. loaded' = loaded /\ (process' = "up" => process = "up") /\ cookie \in Ids
    BY DEF Delete, Call, UseStore, AppRuns, request
  <1>2. CASE kind[s] = "mem"
    <2>1. [items EXCEPT ![s][cookie] = NoDict] \in [Stores -> [Ids -> Dicts \cup {NoDict}]]
      BY <1>1
    <2>2. Heap([items EXCEPT ![s][cookie] = NoDict], session, dicts)
      BY <1>2 DEF Delete
    <2>3. /\ items' \in [Stores -> [Ids -> Dicts \cup {NoDict}]]
          /\ dicts' \in [Dicts -> Contents] /\ session' = session
      BY <2>1, <2>2, HeapType
    <2> QED
      BY <1>1, <1>2, <2>3 DEF Delete
  <1>3. CASE kind[s] # "mem"
    BY <1>1, <1>3, SessionAssumption DEF Delete
  <1> QED
    BY <1>2, <1>3

LEMMA FinishDamage ==
    ASSUME LifeInv, DamageInv, Finish
    PROVE  DamageInv'
  <1>1. /\ ~ loaded' /\ cookie' = NoId /\ jar' = jar /\ pending' = pending /\ process = "up"
    BY DEF Finish, EndWell, answer
  <1>2. CASE loaded /\ Usable
    <2>1. PICK id \in Ids : Set(store[serving], id, session, dicts, NoDict)
      BY <1>2 DEF Finish, Save
    <2>2. damage' = (damage \/ (kind[store[serving]] = "file" /\ dicts[session] \in Odd))
      BY <1>2 DEF Finish, Save
    <2>3. store[serving] \in Stores /\ memory[store[serving]] = "live"
      BY <1>2 DEF Usable
    <2>4. session \in Dicts /\ dicts \in [Dicts -> Contents] /\ damage \in BOOLEAN
          /\ jar \in [Clients -> Ids \cup {NoId}]
      BY <1>1, <1>2 DEF DamageInv, SessionTypeOK
    <2> QED
      BY <1>1, <2>1, <2>2, <2>3, <2>4, PutDamage
  <1>3. CASE ~ (loaded /\ Usable)
    <2>1. Heap(items, NoDict, dicts) /\ files' = files /\ damage' = damage
      BY <1>3 DEF Finish, Save
    <2> QED
      BY <1>1, <2>1, HeapType DEF DamageInv, SessionTypeOK, InnocentFailureNeedsDamage
  <1> QED
    BY <1>2, <1>3

LEMMA FailDamage ==
    ASSUME DamageInv, Fail
    PROVE  DamageInv'
  <1>1. /\ ~ loaded' /\ Heap(items, NoDict, dicts) /\ jar' = jar
    BY DEF Fail, EndBadly, answer
  <1> QED
    BY <1>1, HeapType DEF Fail, DamageInv, SessionTypeOK, InnocentFailureNeedsDamage

LEMMA DamageStep ==
    ASSUME LifeInv, IdInv, DamageInv, [Next]_vars
    PROVE  DamageInv'
  <1>1. CASE UNCHANGED vars
    BY <1>1 DEF vars, lifeVars, request, sessionVars, stored, answer, visit, errors, DamageInv, SessionTypeOK,
       InnocentFailureNeedsDamage
  <1>2. CASE ClearError
    BY <1>2 DEF ClearError, lifeVars, request, stored, answer, visit, DamageInv, SessionTypeOK,
       InnocentFailureNeedsDamage
  <1> QED
    BY <1>1, <1>2, LifeStepDamage, ArriveDamage, ArriveAsDamage, CutShortDamage, LoadDamage, ModifyDamage,
       LoginDamage, RotateDamage, ClearDamage, DeleteDamage, FinishDamage, FailDamage DEF Next

LEMMA DamageInit == Init => DamageInv
  <1>1. SUFFICES ASSUME Init PROVE DamageInv
    OBVIOUS
  <1>2. SessionTypeOK
    BY <1>1, SessionAssumption DEF Init, SessionTypeOK
  <1>3. ~ loaded /\ ~ pending /\ cookie = NoId /\ \A i \in Ids \ Strange : files[i] # Unreadable
    BY <1>1, SessionAssumption DEF Init, LifeInit
  <1> QED
    BY <1>2, <1>3 DEF DamageInv, InnocentFailureNeedsDamage

\* An error nobody raised comes up only after a session that marshal cannot
\* write was put into a file store, an unknown id deleted from the other kind, a
\* file left empty by a set that got no further, or a request whose cookie named
\* a file that is no session; whatever is in the files of strange names.
THEOREM InnocentFailures == Spec => []InnocentFailureNeedsDamage
  <1>1. Init => DamageInv /\ IdInv
    BY DamageInit, IdInit
  <1>2. DamageInv => InnocentFailureNeedsDamage
    BY DEF DamageInv
  <1> QED
    BY <1>1, <1>2, IdStep, DamageStep, SessionsFollowLives, LifeInvariant, PTL DEF Spec
----------------------------------------------------------------------------
(* What clients read. *)

\* What place p holds for id i is x; what cannot be marshalled is not to be read.
Holds(i, s, x) == x = IF items[s][i] = NoDict THEN Empty ELSE dicts[items[s][i]]
HoldsFile(i, x) == files[i] = Marshal(x) \/ (files[i] = NoFile /\ x = Empty)

\* No two clients have the same id, and no two ids of clients the same dict.
Apart ==
    /\ \A c, e \in Clients : jar[c] = jar[e] /\ jar[c] # NoId => c = e
    /\ \A c, e \in Clients, s, t \in Stores :
          /\ jar[c] # NoId /\ jar[e] # NoId
          /\ items[s][jar[c]] = items[t][jar[e]] /\ items[s][jar[c]] # NoDict
          => s = t /\ c = e

\* An id that is yet to be made is in no store, a strange one in none in memory.
UnmadeUnused ==
    /\ \A i \in Ids \ made : files[i] = NoFile
    /\ \A i \in (Ids \ made) \cup Strange, s \in Stores : items[s][i] = NoDict

\* What is there for a client is what its requests have left.
LeftThere ==
    \A c \in Clients : jar[c] # NoId =>
        /\ \A s \in Stores : Holds(jar[c], s, left[c][s])
        /\ HoldsFile(jar[c], left[c][Tmp])

\* The id a request came with is its client's or was, or is strange and goes to a
\* file store; what has been left behind under it is no other's.
CookieKnown ==
    /\ cookie \in made \cup {NoId}
    /\ cookie \in Strange => store[serving] \in Stores /\ kind[store[serving]] = "file"
    /\ \A e \in Clients : cookie # NoId /\ jar[e] = cookie => e = client
    /\ ~ loaded /\ cookie # NoId /\ cookie # jar[client] =>
          \A s, t \in Stores, e \in Clients :
              jar[e] # NoId /\ items[s][cookie] # NoDict => items[s][cookie] # items[t][jar[e]]

\* SESSION is the dict of a client only if it is that of the request's, and then
\* that is known.
SessionKnown ==
    /\ session # NoDict => loaded
    /\ \A s \in Stores, c \in Clients :
          session # NoDict /\ jar[c] # NoId /\ items[s][jar[c]] = session => c = client /\ attached
    /\ attached =>
          /\ session # NoDict /\ jar[client] # NoId /\ store[serving] \in Stores
          /\ kind[store[serving]] = "mem" /\ items[store[serving]][jar[client]] = session

Between == session = NoDict /\ cookie = NoId /\ attached = FALSE

Kept == Apart /\ UnmadeUnused /\ LeftThere
Known == IF serving = NoRouter THEN Between ELSE client \in Clients /\ CookieKnown /\ SessionKnown

LeftOK == left \in [Clients -> [Stores \cup {Tmp} -> Contents \cup {Unreadable}]]

ClientInv ==
    /\ LeftOK /\ attached \in BOOLEAN
    /\ process = "up" /\ ~ reused => Kept /\ Known

LEMMA LeftType ==
    ASSUME DamageInv, left \in [Clients -> [Stores \cup {Tmp} -> Contents \cup {Unreadable}]], [Next]_vars
    PROVE  left' \in [Clients -> [Stores \cup {Tmp} -> Contents \cup {Unreadable}]]
  <1>1. ASSUME NEW s, NEW x \in Contents, left' = LeftOnly(s, x)
        PROVE  left' \in [Clients -> [Stores \cup {Tmp} -> Contents \cup {Unreadable}]]
    <2>1. [p \in Stores \cup {Tmp} |-> IF p = Place(s) THEN x ELSE Empty] \in [Stores \cup {Tmp} -> Contents \cup {Unreadable}]
      BY SessionAssumption
    <2> QED
      BY <1>1, <2>1 DEF LeftOnly
  <1>2. ASSUME NEW p, NEW x \in Contents, left' = [left EXCEPT ![client][p] = x]
        PROVE  left' \in [Clients -> [Stores \cup {Tmp} -> Contents \cup {Unreadable}]]
    <2>1. [left[client] EXCEPT ![p] = x] \in [Stores \cup {Tmp} -> Contents \cup {Unreadable}] \/ client \notin Clients
      OBVIOUS
    <2> QED
      BY <1>2, <2>1
  <1>3. CASE left' = left
    BY <1>3
  <1>4. ASSUME NEW x \in Contents, Modify(x) PROVE left' \in [Clients -> [Stores \cup {Tmp} -> Contents \cup {Unreadable}]]
    BY <1>2, <1>3, <1>4 DEF Modify
  <1>5. ASSUME NEW s \in Stores, NEW id \in Ids, NEW x \in Contents, Login(s, id, x)
        PROVE  left' \in [Clients -> [Stores \cup {Tmp} -> Contents \cup {Unreadable}]]
    BY <1>1, <1>5 DEF Login
  <1>6. ASSUME NEW s \in Stores, NEW id \in Ids, Rotate(s, id)
        PROVE  left' \in [Clients -> [Stores \cup {Tmp} -> Contents \cup {Unreadable}]]
    <2>1. dicts[session] \in Contents
      BY <1>6 DEF Rotate, DamageInv, SessionTypeOK
    <2> QED
      BY <1>1, <1>6, <2>1 DEF Rotate
  <1>7. ASSUME NEW s \in Stores, Clear(s) \/ Delete(s) PROVE left' \in [Clients -> [Stores \cup {Tmp} -> Contents \cup {Unreadable}]]
    BY <1>2, <1>3, <1>7, SessionAssumption DEF Clear, Delete
  <1>8. CASE \/ LifeStep \/ \E c \in Clients, r \in Routers : Arrive(c, r) \/ \E id \in Strange : ArriveAs(c, r, id)
             \/ Load \/ Finish \/ Fail \/ ClearError \/ UNCHANGED vars
    BY <1>3, <1>8 DEF LifeStep, Arrive, ArriveAs, Load, Finish, Fail, ClearError, vars, sessionVars, answer
  <1>9. ASSUME NEW id \in Ids, CutShort(id)
        PROVE  left' \in [Clients -> [Stores \cup {Tmp} -> Contents \cup {Unreadable}]]
    <2>1. left' = [c \in Clients |-> IF jar[c] = id THEN [left[c] EXCEPT ![Tmp] = Unreadable] ELSE left[c]]
      BY <1>9 DEF CutShort
    <2>2. \A c \in Clients :
              [left[c] EXCEPT ![Tmp] = Unreadable] \in [Stores \cup {Tmp} -> Contents \cup {Unreadable}]
      OBVIOUS
    <2> QED
      BY <2>1, <2>2
  <1> QED
    BY <1>4, <1>5, <1>6, <1>7, <1>8, <1>9 DEF Next

\* What a heap keeps.
LEMMA HeapHolds ==
    ASSUME NEW newItems \in [Stores -> [Ids -> Dicts \cup {NoDict}]], NEW newSession, NEW contents,
           Heap(newItems, newSession, contents)
    PROVE  /\ items' = newItems /\ session' = newSession
           /\ \A t \in Stores, i \in Ids : newItems[t][i] # NoDict => dicts'[newItems[t][i]] = contents[newItems[t][i]]
  <1>1. /\ items' = newItems /\ session' = newSession
        /\ dicts' = [d \in Dicts |-> IF d = newSession \/ \E s \in Stores, i \in Ids : newItems[s][i] = d
                                       THEN contents[d] ELSE Empty]
    BY DEF Heap
  <1>2. ASSUME NEW t \in Stores, NEW i \in Ids, newItems[t][i] # NoDict
        PROVE  dicts'[newItems[t][i]] = contents[newItems[t][i]]
    <2>1. newItems[t][i] \in Dicts
      BY <1>2
    <2> QED
      BY <1>1, <2>1
  <1> QED
    BY <1>1, <1>2

\* What set does.
LEMMA SetSets ==
    ASSUME SessionTypeOK, NEW s \in Stores, kind[s] \in {"mem", "file"}, NEW id \in Ids, NEW d \in Dicts,
           NEW contents, NEW newSession, Set(s, id, d, contents, newSession)
    PROVE  /\ \A t \in Stores, i \in Ids :
                 items'[t][i] = IF kind[s] = "mem" /\ t = s /\ i = id THEN d ELSE items[t][i]
           /\ \A i \in Ids :
                 files'[i] = IF kind[s] = "file" /\ i = id THEN Marshal(contents[d]) ELSE files[i]
           /\ \A t \in Stores, i \in Ids : items'[t][i] # NoDict => dicts'[items'[t][i]] = contents[items'[t][i]]
           /\ session' = newSession
  <1>1. CASE kind[s] = "mem"
    <2> DEFINE newItems == [items EXCEPT ![s][id] = d]
    <2>1. /\ newItems \in [Stores -> [Ids -> Dicts \cup {NoDict}]]
          /\ \A t \in Stores, i \in Ids : newItems[t][i] = IF t = s /\ i = id THEN d ELSE items[t][i]
      BY DEF SessionTypeOK
    <2>2. Heap(newItems, newSession, contents) /\ files' = files
      BY <1>1 DEF Set
    <2> HIDE DEF newItems
    <2>3. /\ items' = newItems /\ session' = newSession
          /\ \A t \in Stores, i \in Ids : newItems[t][i] # NoDict => dicts'[newItems[t][i]] = contents[newItems[t][i]]
      BY <2>1, <2>2, HeapHolds
    <2> QED
      BY <1>1, <2>1, <2>2, <2>3
  <1>2. CASE kind[s] = "file"
    <2>1. Heap(items, newSession, contents) /\ files' = [files EXCEPT ![id] = Marshal(contents[d])]
      BY <1>2 DEF Set
    <2>2. /\ items' = items /\ session' = newSession
          /\ \A t \in Stores, i \in Ids : items[t][i] # NoDict => dicts'[items[t][i]] = contents[items[t][i]]
      BY <2>1, HeapHolds DEF SessionTypeOK
    <2>3. \A i \in Ids : files'[i] = IF i = id THEN Marshal(contents[d]) ELSE files[i]
      BY <2>1 DEF SessionTypeOK
    <2> QED
      BY <1>2, <2>2, <2>3
  <1> QED
    BY <1>1, <1>2

\* FreshDict is nobody's.
LEMMA FreshIsNobodys ==
    Unused # {} => /\ FreshDict \in Dicts /\ FreshDict # session
                   /\ \A s \in Stores, i \in Ids : items[s][i] # FreshDict
  BY DEF Unused, FreshDict

\* What does not concern the ids of clients.
LEMMA OtherIdsKeep ==
    ASSUME IdInv, Kept, LeftOK, UNCHANGED <<jar, left>>, made \subseteq made',
           \A c \in Clients : jar[c] # NoId => files'[jar[c]] = files[jar[c]],
           \A c \in Clients, t \in Stores : jar[c] # NoId =>
               /\ items'[t][jar[c]] = items[t][jar[c]]
               /\ items[t][jar[c]] # NoDict => dicts'[items[t][jar[c]]] = dicts[items[t][jar[c]]],
           \A i \in Ids \ made' : files'[i] = files[i],
           \A i \in (Ids \ made') \cup Strange, t \in Stores : items'[t][i] = items[t][i]
    PROVE  Kept'
  <1> USE DEF Kept
  <1>1. Apart'
    <2>1. \A c, e \in Clients : jar[c] = jar[e] /\ jar[c] # NoId => c = e
      BY DEF Apart
    <2>2. ASSUME NEW c \in Clients, NEW e \in Clients, NEW t \in Stores, NEW u \in Stores,
                 jar[c] # NoId, jar[e] # NoId, items'[t][jar[c]] = items'[u][jar[e]], items'[t][jar[c]] # NoDict
          PROVE  t = u /\ c = e
      <3>1. items'[t][jar[c]] = items[t][jar[c]] /\ items'[u][jar[e]] = items[u][jar[e]]
        BY <2>2
      <3>2. items[t][jar[c]] = items[u][jar[e]] /\ items[t][jar[c]] # NoDict
        BY <2>2, <3>1
      <3> QED
        BY <2>2, <3>2 DEF Apart
    <2> QED
      BY <2>1, <2>2 DEF Apart
  <1>2. UnmadeUnused'
    BY DEF UnmadeUnused
  <1>3. ASSUME NEW c \in Clients, jar[c] # NoId
        PROVE  /\ \A s \in Stores : Holds(jar[c], s, left[c][s])'
               /\ HoldsFile(jar[c], left[c][Tmp])'
    <2>1. /\ \A s \in Stores : Holds(jar[c], s, left[c][s])
          /\ HoldsFile(jar[c], left[c][Tmp])
      BY <1>3 DEF LeftThere
    <2>2. ASSUME NEW s \in Stores PROVE Holds(jar[c], s, left[c][s])'
      <3>1. /\ items'[s][jar[c]] = items[s][jar[c]]
            /\ items[s][jar[c]] # NoDict => dicts'[items[s][jar[c]]] = dicts[items[s][jar[c]]]
        BY <1>3
      <3>2. Holds(jar[c], s, left[c][s])
        BY <2>1
      <3> QED
        BY <3>1, <3>2 DEF Holds
    <2>3. files'[jar[c]] = files[jar[c]]
      BY <1>3
    <2>4. HoldsFile(jar[c], left[c][Tmp])'
      BY <2>1, <2>3 DEF HoldsFile
    <2> QED
      BY <2>2, <2>4
  <1>4. LeftThere'
    BY <1>3 DEF LeftThere
  <1> QED
    BY <1>1, <1>2, <1>4

\* Dict d is no other client's, and contents differs from dicts for d at most.
OwnDict(d, contents) ==
    /\ d \in Dicts /\ \A t \in Stores, e \in Clients : e # client /\ jar[e] # NoId => items[t][jar[e]] # d
    /\ \A t \in Stores, i \in Ids :
          items[t][i] # NoDict /\ items[t][i] # d => contents[items[t][i]] = dicts[items[t][i]]

\* The request's client gets a new id with dict d.
LEMMA NewIdKeeps ==
    ASSUME DamageInv, IdInv, Kept, LeftOK, client \in Clients,
           NEW s \in Stores, kind[s] \in {"mem", "file"}, NEW id \in Ids, id \notin made,
           NEW d, NEW contents, OwnDict(d, contents),
           Set(s, id, d, contents, session),
           jar' = [jar EXCEPT ![client] = id], left' = LeftOnly(s, contents[d]), made' = made \cup {id}
    PROVE  Kept'
  <1> USE DEF Kept, OwnDict
  <1>1. /\ \A t \in Stores, i \in Ids :
              items'[t][i] = IF kind[s] = "mem" /\ t = s /\ i = id THEN d ELSE items[t][i]
        /\ \A i \in Ids : files'[i] = IF kind[s] = "file" /\ i = id THEN Marshal(contents[d]) ELSE files[i]
        /\ \A t \in Stores, i \in Ids : items'[t][i] # NoDict => dicts'[items'[t][i]] = contents[items'[t][i]]
    BY SetSets DEF DamageInv
  <1>2. /\ jar'[client] = id /\ id # NoId
        /\ \A e \in Clients : e # client => jar'[e] = jar[e] /\ jar[e] # id /\ (jar[e] # NoId => jar[e] \in Ids)
    BY SessionAssumption DEF IdInv
  <1>3. \A e \in Clients, t \in Stores : e # client /\ jar[e] # NoId =>
            items'[t][jar[e]] = items[t][jar[e]] /\ files'[jar[e]] = files[jar[e]]
    BY <1>1, <1>2
  <1>4. /\ \A t \in Stores : items'[t][id] = IF kind[s] = "mem" /\ t = s THEN d ELSE NoDict
        /\ files'[id] = IF kind[s] = "file" THEN Marshal(contents[d]) ELSE NoFile
    BY <1>1 DEF UnmadeUnused
  <1>5. Apart'
    <2>1. \A c, e \in Clients : jar'[c] = jar'[e] /\ jar'[c] # NoId => c = e
      BY <1>2 DEF Apart
    <2>2. ASSUME NEW c \in Clients, NEW e \in Clients, NEW t \in Stores, NEW u \in Stores,
                 jar'[c] # NoId, jar'[e] # NoId, items'[t][jar'[c]] = items'[u][jar'[e]], items'[t][jar'[c]] # NoDict
          PROVE  t = u /\ c = e
      <3>1. CASE c = client /\ e = client
        BY <1>2, <1>4, <2>2, <3>1
      <3>2. CASE c = client /\ e # client
        BY <1>2, <1>3, <1>4, <2>2, <3>2
      <3>3. CASE c # client /\ e = client
        BY <1>2, <1>3, <1>4, <2>2, <3>3
      <3>4. CASE c # client /\ e # client
        BY <1>2, <1>3, <2>2, <3>4 DEF Apart
      <3> QED
        BY <3>1, <3>2, <3>3, <3>4
    <2> QED
      BY <2>1, <2>2 DEF Apart
  <1>6. UnmadeUnused'
    <2>1. Strange \subseteq made /\ made \subseteq Ids
      BY DEF IdInv
    <2> QED
      BY <1>1, <2>1 DEF UnmadeUnused
  <1>7. ASSUME NEW c \in Clients, jar'[c] # NoId
        PROVE  /\ \A t \in Stores : Holds(jar[c], t, left[c][t])'
               /\ HoldsFile(jar[c], left[c][Tmp])'
    <2>1. CASE c = client
      <3>1. left'[c] = [p \in Stores \cup {Tmp} |-> IF p = Place(s) THEN contents[d] ELSE Empty]
        BY <2>1 DEF LeftOnly, LeftOK
      <3>2. Place(s) = IF kind[s] = "file" THEN Tmp ELSE s
        BY DEF Place
      <3>3. \A t \in Stores : left'[c][t] = IF kind[s] = "mem" /\ t = s THEN contents[d] ELSE Empty
        BY <3>1, <3>2, SessionAssumption
      <3>4. left'[c][Tmp] = IF kind[s] = "file" THEN contents[d] ELSE Empty
        BY <3>1, <3>2, SessionAssumption
      <3>5. kind[s] = "mem" => dicts'[d] = contents[d] /\ d # NoDict
        BY <1>1, <1>4, SessionAssumption
      <3>6. \A t \in Stores : Holds(jar[c], t, left[c][t])'
        BY <1>2, <1>4, <2>1, <3>3, <3>5 DEF Holds
      <3>7. HoldsFile(jar[c], left[c][Tmp])'
        BY <1>2, <1>4, <2>1, <3>4 DEF HoldsFile, Marshal
      <3> QED
        BY <3>6, <3>7
    <2>2. CASE c # client
      <3>1. /\ \A t \in Stores : Holds(jar[c], t, left[c][t])
            /\ HoldsFile(jar[c], left[c][Tmp]) /\ jar'[c] = jar[c] /\ jar[c] # NoId /\ jar[c] \in Ids
        BY <1>2, <1>7, <2>2 DEF LeftThere
      <3>2. left'[c] = left[c]
        BY <2>2 DEF LeftOnly, LeftOK
      <3>3. \A t \in Stores : items[t][jar[c]] # NoDict => dicts'[items[t][jar[c]]] = dicts[items[t][jar[c]]]
        <4> TAKE t \in Stores
        <4>1. items'[t][jar[c]] = items[t][jar[c]] /\ items[t][jar[c]] # d
          BY <1>3, <2>2, <3>1
        <4> QED
          BY <1>1, <3>1, <4>1
      <3>4. files'[jar[c]] = files[jar[c]] \/ Stores = {}
        BY <1>1, <1>2, <2>2, <3>1
      <3> QED
        BY <1>1, <1>2, <1>3, <2>2, <3>1, <3>2, <3>3 DEF Holds, HoldsFile
    <2> QED
      BY <2>1, <2>2
  <1>8. LeftThere'
    BY <1>7 DEF LeftThere
  <1> QED
    BY <1>5, <1>6, <1>8

\* Store s has a new dict n, or none, under the id the request came with, or y in
\* its file.
Emptied(s, n, y) ==
    /\ \A t \in Stores, i \in Ids :
          items'[t][i] = IF kind[s] = "mem" /\ t = s /\ i = cookie THEN n ELSE items[t][i]
    /\ \A i \in Ids : files'[i] = IF kind[s] = "file" /\ i = cookie THEN y ELSE files[i]
    /\ \A t \in Stores, i \in Ids :
          items'[t][i] # NoDict /\ items'[t][i] # n => dicts'[items'[t][i]] = dicts[items'[t][i]]
    /\ n # NoDict => /\ \A t \in Stores, i \in Ids : items[t][i] # n
                     /\ kind[s] = "mem" => dicts'[n] = Empty

\* The request's client has nothing any more under its id in store s.
LEMMA OwnIdEmptied ==
    ASSUME IdInv, Kept, LeftOK, SessionTypeOK, client \in Clients, cookie = jar[client], cookie \in Ids, ~ reused,
           NEW s \in Stores, kind[s] \in {"mem", "file"}, NEW n, NEW y \in {NoFile, Empty}, Emptied(s, n, y),
           left' = [left EXCEPT ![client][Place(s)] = Empty], UNCHANGED <<jar, made>>
    PROVE  Kept'
  <1> USE DEF Kept, Emptied
  <1>1. \A c \in Clients : jar[c] # NoId => jar[c] \in Ids /\ (c # client => jar[c] # cookie)
    BY DEF IdInv, Apart
  <1>2. Apart'
    <2>1. ASSUME NEW c \in Clients, NEW e \in Clients, NEW t \in Stores, NEW u \in Stores,
                 jar[c] # NoId, jar[e] # NoId, items'[t][jar[c]] = items'[u][jar[e]], items'[t][jar[c]] # NoDict
          PROVE  t = u /\ c = e
      <3>1. CASE items'[t][jar[c]] = items[t][jar[c]] /\ items'[u][jar[e]] = items[u][jar[e]]
        <4>1. items[t][jar[c]] = items[u][jar[e]] /\ items[t][jar[c]] # NoDict
          BY <2>1, <3>1
        <4> QED
          BY <2>1, <4>1 DEF Apart
      <3>2. CASE items'[t][jar[c]] # items[t][jar[c]]
        <4>1. kind[s] = "mem" /\ t = s /\ c = client /\ items'[t][jar[c]] = n
          BY <1>1, <2>1, <3>2
        <4>2. u = s /\ e = client
          BY <1>1, <2>1, <4>1
        <4> QED
          BY <4>1, <4>2
      <3>3. CASE items'[u][jar[e]] # items[u][jar[e]]
        <4>1. kind[s] = "mem" /\ u = s /\ e = client /\ items'[u][jar[e]] = n
          BY <1>1, <2>1, <3>3
        <4>2. t = s /\ c = client
          BY <1>1, <2>1, <4>1
        <4> QED
          BY <4>1, <4>2
      <3> QED
        BY <3>1, <3>2, <3>3
    <2> QED
      BY <2>1 DEF Apart
  <1>3. UnmadeUnused'
    BY <1>1, SessionAssumption DEF UnmadeUnused, IdInv
  <1>4. ASSUME NEW c \in Clients, jar[c] # NoId
        PROVE  /\ \A t \in Stores : Holds(jar[c], t, left[c][t])'
               /\ HoldsFile(jar[c], left[c][Tmp])'
    <2>1. /\ \A t \in Stores : Holds(jar[c], t, left[c][t])
          /\ HoldsFile(jar[c], left[c][Tmp])
      BY <1>4 DEF LeftThere
    <2>2. Place(s) = (IF kind[s] = "file" THEN Tmp ELSE s) /\ Tmp \notin Stores
      BY SessionAssumption DEF Place
    <2>3. \A p \in Stores \cup {Tmp} : left'[c][p] = IF c = client /\ p = Place(s) THEN Empty ELSE left[c][p]
      BY <2>2 DEF LeftOK
    <2>4. ASSUME NEW t \in Stores PROVE Holds(jar[c], t, left[c][t])'
      <3>1. CASE c = client /\ kind[s] = "mem" /\ t = s
        <4>1. items'[t][jar[c]] = n /\ left'[c][t] = Empty
          BY <1>1, <1>4, <2>2, <2>3, <3>1
        <4> QED
          BY <3>1, <4>1 DEF Holds
      <3>2. CASE ~ (c = client /\ kind[s] = "mem" /\ t = s)
        <4>1. items'[t][jar[c]] = items[t][jar[c]] /\ left'[c][t] = left[c][t]
          BY <1>1, <1>4, <2>2, <2>3, <3>2
        <4>2. items[t][jar[c]] # NoDict => dicts'[items[t][jar[c]]] = dicts[items[t][jar[c]]]
          BY <1>1, <1>4, <4>1
        <4> QED
          BY <2>1, <4>1, <4>2 DEF Holds
      <3> QED
        BY <3>1, <3>2
    <2>5. HoldsFile(jar[c], left[c][Tmp])'
      <3>1. CASE c = client /\ kind[s] = "file"
        <4>1. files'[jar[c]] = y /\ left'[c][Tmp] = Empty
          BY <1>1, <1>4, <2>2, <2>3, <3>1
        <4> QED
          BY <4>1, SessionAssumption DEF HoldsFile, Marshal
      <3>2. CASE ~ (c = client /\ kind[s] = "file")
        <4>1. files'[jar[c]] = files[jar[c]] /\ left'[c][Tmp] = left[c][Tmp]
          BY <1>1, <1>4, <2>2, <2>3, <3>2
        <4> QED
          BY <2>1, <4>1 DEF HoldsFile
      <3> QED
        BY <3>1, <3>2
    <2> QED
      BY <2>4, <2>5
  <1>5. LeftThere'
    BY <1>4 DEF LeftThere
  <1> QED
    BY <1>2, <1>3, <1>5


\* A state in which sessions are followed.
Good ==
    /\ LifeInv /\ DamageInv /\ IdInv /\ LeftOK /\ attached \in BOOLEAN
    /\ process = "up" /\ ~ reused /\ Kept /\ Known

LEMMA LifeStepClient ==
    ASSUME Good, LifeStep, process' = "up"
    PROVE  Kept' /\ Known'
  <1>1. UNCHANGED sessionVars /\ LifeChange
    BY DEF LifeStep
  <1>2. serving' = serving /\ loaded' = loaded
    BY <1>1 DEF LifeChange, NewStore, DropStore, UseStore, NewRouter, NewPlainRouter, Construct, AddRouter,
       AppendRouter, DropRouter, RemoveRouter, Release, StoreFree, Start, request
  <1>3. Kept'
    BY <1>1 DEF Good, Kept, Apart, UnmadeUnused, LeftThere, Holds, HoldsFile, sessionVars, stored, answer, ids
  <1>4. CASE serving = NoRouter
    BY <1>1, <1>2, <1>3, <1>4 DEF Good, Known, Between, sessionVars, visit
  <1>5. CASE serving # NoRouter
    <2>1. serving \in Routers /\ life[serving] # "unmade"
      BY <1>5 DEF Good, LifeInv, LifeTypeOK, RequestInv
    <2>2. store'[serving] = store[serving]
      BY <1>1, <2>1 DEF LifeChange, NewStore, DropStore, UseStore, NewRouter, NewPlainRouter, Construct, AddRouter,
         AppendRouter, DropRouter, RemoveRouter, Start, routersOnly, Good, LifeInv, LifeTypeOK
    <2>3. \A s \in Stores : kind[s] \in {"mem", "file"} => kind'[s] = kind[s]
      BY <1>1 DEF LifeChange, NewStore, DropStore, UseStore, NewRouter, NewPlainRouter, Construct, AddRouter,
         AppendRouter, DropRouter, RemoveRouter, Start, storesOnly, Good, LifeInv, LifeTypeOK
    <2>4. client' \in Clients /\ CookieKnown'
      BY <1>1, <1>2, <1>5, <2>2, <2>3 DEF Good, Known, CookieKnown, sessionVars, stored, answer, visit, ids
    <2>5. SessionKnown'
      BY <1>1, <1>2, <1>5, <2>2, <2>3 DEF Good, Known, SessionKnown, sessionVars, stored, answer, visit
    <2> QED
      BY <1>2, <1>3, <1>5, <2>4, <2>5 DEF Known
  <1> QED
    BY <1>4, <1>5

LEMMA ArriveClient ==
    ASSUME Good, NEW c \in Clients, NEW r \in Routers, Arrive(c, r)
    PROVE  Kept' /\ Known'
  <1>1. /\ UNCHANGED <<stored, answer, session, ids>> /\ client' = c /\ cookie' = jar[c] /\ attached' = FALSE
        /\ serving = NoRouter /\ serving' = r /\ loaded' = FALSE
    BY DEF Arrive, Begin
  <1>2. Kept'
    BY <1>1 DEF Good, Kept, Apart, UnmadeUnused, LeftThere, Holds, HoldsFile, stored, answer, ids
  <1>3. session' = NoDict /\ serving' # NoRouter /\ jar' = jar /\ made' = made
    BY <1>1, StoresAssumption DEF Good, Known, Between, answer, ids
  <1>4. CookieKnown'
    <2>1. cookie' \in made' \cup {NoId}
      BY <1>1, <1>3 DEF Good, IdInv
    <2>2. \A e \in Clients : cookie' # NoId /\ jar'[e] = cookie' => e = client'
      BY <1>1, <1>3 DEF Good, Kept, Apart
    <2>3. cookie' = jar'[client'] /\ cookie' \notin Strange
      BY <1>1, <1>3 DEF Good, IdInv
    <2> QED
      BY <2>1, <2>2, <2>3 DEF CookieKnown
  <1>5. SessionKnown'
    BY <1>1, <1>3 DEF SessionKnown
  <1> QED
    BY <1>1, <1>2, <1>3, <1>4, <1>5 DEF Known

LEMMA ArriveAsClient ==
    ASSUME Good, NEW c \in Clients, NEW r \in Routers, NEW id \in Strange, ArriveAs(c, r, id)
    PROVE  Kept' /\ Known'
  <1>1. /\ UNCHANGED <<stored, answer, session, ids, store, kind>>
        /\ client' = c /\ cookie' = id /\ attached' = FALSE
        /\ serving = NoRouter /\ serving' = r /\ loaded' = FALSE
        /\ store[r] \in Stores /\ kind[store[r]] = "file"
    BY DEF ArriveAs, Begin, storesOnly, routersOnly
  <1>2. Kept'
    BY <1>1 DEF Good, Kept, Apart, UnmadeUnused, LeftThere, Holds, HoldsFile, stored, answer, ids
  <1>3. /\ session' = NoDict /\ serving' # NoRouter
        /\ jar' = jar /\ made' = made /\ items' = items
    BY <1>1, StoresAssumption DEF Good, Known, Between, answer, ids, stored
  <1>4. CookieKnown'
    <2>1. id \in made /\ \A e \in Clients : jar[e] # id
      BY DEF Good, IdInv
    <2>2. \A s \in Stores : items[s][id] = NoDict
      BY DEF Good, Kept, UnmadeUnused
    <2> QED
      BY <1>1, <1>3, <2>1, <2>2 DEF CookieKnown
  <1>5. SessionKnown'
    BY <1>1, <1>3 DEF SessionKnown
  <1> QED
    BY <1>1, <1>2, <1>3, <1>4, <1>5 DEF Known

\* A file cut short is what its client's requests have left.
LEMMA CutShortClient ==
    ASSUME Good, NEW id \in Ids, CutShort(id)
    PROVE  Kept' /\ Known'
  <1>1. /\ UNCHANGED <<items, dicts, jar, made, client, cookie, session, attached, serving, loaded, store, kind>>
        /\ id \in made /\ files' = [files EXCEPT ![id] = Unreadable]
        /\ left' = [c \in Clients |-> IF jar[c] = id THEN [left[c] EXCEPT ![Tmp] = Unreadable] ELSE left[c]]
    BY DEF CutShort, lifeVars, storesOnly, routersOnly, request, visit, ids
  <1>2. \A i \in Ids : files'[i] = IF i = id THEN Unreadable ELSE files[i]
    BY <1>1 DEF Good, DamageInv, SessionTypeOK
  <1>3. Apart' /\ UnmadeUnused'
    BY <1>1, <1>2 DEF Good, Kept, Apart, UnmadeUnused
  <1>4. ASSUME NEW c \in Clients, jar[c] # NoId
        PROVE  /\ \A t \in Stores : Holds(jar[c], t, left[c][t])'
               /\ HoldsFile(jar[c], left[c][Tmp])'
    <2>1. /\ \A t \in Stores : Holds(jar[c], t, left[c][t])
          /\ HoldsFile(jar[c], left[c][Tmp]) /\ jar[c] \in Ids
      BY <1>4 DEF Good, Kept, LeftThere, IdInv
    <2>2. \A p \in Stores \cup {Tmp} : left'[c][p] = IF jar[c] = id /\ p = Tmp THEN Unreadable ELSE left[c][p]
      BY <1>1 DEF Good, LeftOK
    <2>3. \A t \in Stores : left'[c][t] = left[c][t]
      BY <2>2, SessionAssumption
    <2>4. \A t \in Stores : Holds(jar[c], t, left[c][t])'
      BY <1>1, <2>1, <2>3 DEF Holds
    <2>5. Marshal(Unreadable) = Unreadable
      BY SessionAssumption DEF Marshal
    <2>6. HoldsFile(jar[c], left[c][Tmp])'
      BY <1>1, <1>2, <2>1, <2>2, <2>5 DEF HoldsFile, Marshal
    <2> QED
      BY <2>4, <2>6
  <1>5. LeftThere'
    BY <1>1, <1>4 DEF LeftThere
  <1>6. Known'
    BY <1>1 DEF Good, Known, Between, CookieKnown, SessionKnown
  <1> QED
    BY <1>3, <1>5, <1>6 DEF Kept

LEMMA SameClient ==
    ASSUME Good, UNCHANGED <<stored, jar, left, client, cookie, session, attached, ids, serving, loaded, store, kind>>
    PROVE  Kept' /\ Known'
  <1>1. Kept'
    BY DEF Good, Kept, Apart, UnmadeUnused, LeftThere, Holds, HoldsFile, stored, ids
  <1>2. Known'
    BY DEF Good, Known, Between, CookieKnown, SessionKnown, stored, ids
  <1> QED
    BY <1>1, <1>2

\* Loading SESSION.
LEMMA LoadClient ==
    ASSUME Good, Load, process' = "up"
    PROVE  Kept' /\ Known'
  <1> DEFINE s == store[serving]
             found == IF cookie = NoId \/ kind[s] # "mem" THEN NoDict ELSE items[s][cookie]
             contents == [dicts EXCEPT ![FreshDict] = Get(s, cookie)]
  <1>1. /\ UNCHANGED <<files, answer, client, cookie, ids, kind, store, serving>> /\ loaded' = TRUE
        /\ serving # NoRouter /\ ~ loaded /\ Usable /\ Unused # {}
    BY DEF Load, LoadSession, storesOnly, routersOnly
  <1>2. s \in Stores /\ client \in Clients /\ CookieKnown /\ SessionKnown /\ cookie \in Ids \cup {NoId}
    BY <1>1 DEF Usable, Good, Known, DamageInv, SessionTypeOK
  <1>3. attached' = (found # NoDict /\ jar[client] = cookie)
    BY <1>1 DEF Load
  <1>4. IF found # NoDict THEN Heap(items, found, dicts) ELSE Heap(items, FreshDict, contents)
    BY <1>1 DEF Load, Take
  <1>5. items \in [Stores -> [Ids -> Dicts \cup {NoDict}]]
    BY DEF Good, DamageInv, SessionTypeOK
  <1>6. found # NoDict => cookie \in Ids /\ kind[s] = "mem" /\ found = items[s][cookie]
    BY <1>2
  <1> HIDE DEF s, found, contents
  <1>7. /\ items' = items /\ session' = IF found # NoDict THEN found ELSE FreshDict
        /\ \A t \in Stores, i \in Ids : items[t][i] # NoDict => dicts'[items[t][i]] = dicts[items[t][i]]
    <2>1. CASE found # NoDict
      BY <1>4, <1>5, <2>1, HeapHolds
    <2>2. CASE found = NoDict
      <3>1. /\ items' = items /\ session' = FreshDict
            /\ \A t \in Stores, i \in Ids : items[t][i] # NoDict => dicts'[items[t][i]] = contents[items[t][i]]
        BY <1>4, <1>5, <2>2, HeapHolds
      <3>2. \A t \in Stores, i \in Ids : items[t][i] # NoDict => contents[items[t][i]] = dicts[items[t][i]]
        BY <1>1, <1>5, FreshIsNobodys DEF Good, DamageInv, SessionTypeOK, contents
      <3> QED
        BY <2>2, <3>1, <3>2
    <2> QED
      BY <2>1, <2>2
  <1>8. \A c \in Clients : jar[c] # NoId => jar[c] \in Ids
    BY DEF Good, IdInv
  <1>9. Kept'
    <2>1. UNCHANGED <<jar, left>> /\ made' = made /\ files' = files
      BY <1>1 DEF answer, ids
    <2> QED
      BY <1>7, <1>8, <2>1, OtherIdsKeep DEF Good
  <1>10. CookieKnown'
    BY <1>1, <1>2 DEF CookieKnown, answer, ids
  <1>11. SessionKnown'
    <2>1. jar' = jar
      BY <1>1 DEF answer
    <2>2. ASSUME NEW t \in Stores, NEW c \in Clients, jar[c] # NoId, items[t][jar[c]] = session', session' # NoDict
          PROVE  c = client /\ attached'
      <3>1. found # NoDict
        BY <1>1, <1>7, <1>8, <2>2, FreshIsNobodys
      <3>2. items[t][jar[c]] = items[s][cookie] /\ cookie \in Ids
        BY <1>6, <1>7, <2>2, <3>1
      <3>3. cookie # NoId
        BY <3>2, SessionAssumption
      <3>4. cookie = jar[client]
        BY <1>1, <1>2, <1>6, <2>2, <3>1, <3>2, <3>3 DEF CookieKnown
      <3>5. c = client
        BY <1>2, <2>2, <3>1, <3>2, <3>3, <3>4, <1>6 DEF Good, Kept, Apart
      <3> QED
        BY <1>3, <3>1, <3>4, <3>5
    <2>3. attached' => /\ session' # NoDict /\ jar[client] # NoId /\ kind[s] = "mem"
                       /\ items[s][jar[client]] = session'
      BY <1>3, <1>6, <1>7, SessionAssumption
    <2> QED
      BY <1>1, <1>2, <1>7, <2>1, <2>2, <2>3 DEF SessionKnown, s
  <1> QED
    BY <1>1, <1>2, <1>9, <1>10, <1>11 DEF Known

\* An action changes the dict.
LEMMA ModifyClient ==
    ASSUME Good, NEW x \in Contents, Modify(x)
    PROVE  Kept' /\ Known'
  <1> DEFINE s == store[serving]
  <1>1. /\ UNCHANGED <<items, files, jar, made, client, cookie, session, attached, serving, loaded, store, kind>>
        /\ session # NoDict /\ dicts' = [dicts EXCEPT ![session] = x]
        /\ left' = IF attached THEN [left EXCEPT ![client][Place(s)] = x] ELSE left
    BY DEF Modify, visit, ids, lifeVars, storesOnly, routersOnly, request
  <1>2. serving # NoRouter /\ client \in Clients /\ CookieKnown /\ SessionKnown
    BY <1>1 DEF Good, Known, Between
  <1>3. /\ session \in Dicts /\ dicts \in [Dicts -> Contents]
        /\ items \in [Stores -> [Ids -> Dicts \cup {NoDict}]]
    BY <1>1 DEF Good, DamageInv, SessionTypeOK
  <1>4. \A c \in Clients : jar[c] # NoId => jar[c] \in Ids
    BY DEF Good, IdInv
  <1>5. Known'
    BY <1>1, <1>2 DEF Known, CookieKnown, SessionKnown
  <1>6. Kept'
    <2>1. Apart' /\ UnmadeUnused'
      BY <1>1 DEF Good, Kept, Apart, UnmadeUnused
    <2>2. ASSUME NEW c \in Clients, jar[c] # NoId
          PROVE  /\ \A t \in Stores : Holds(jar[c], t, left[c][t])'
                 /\ HoldsFile(jar[c], left[c][Tmp])'
      <3>1. /\ \A t \in Stores : Holds(jar[c], t, left[c][t])
            /\ HoldsFile(jar[c], left[c][Tmp])
        BY <2>2 DEF Good, Kept, LeftThere
      <3>2. attached => s \in Stores /\ Place(s) = s /\ items[s][jar[client]] = session /\ jar[client] # NoId
        BY <1>2 DEF SessionKnown, Place
      <3>3. \A p \in Stores \cup {Tmp} : left'[c][p] = IF attached /\ c = client /\ p = s THEN x ELSE left[c][p]
        <4> DEFINE q == Place(s)
        <4>1. CASE attached
          <5>1. left' = [left EXCEPT ![client][q] = x] /\ q = s
            BY <1>1, <3>2, <4>1
          <5> HIDE DEF q
          <5> QED
            BY <1>2, <4>1, <5>1 DEF Good, LeftOK
        <4>2. CASE ~ attached
          BY <1>1, <4>2
        <4> QED
          BY <4>1, <4>2
      <3>4. HoldsFile(jar[c], left[c][Tmp])'
        BY <1>1, <3>1, <3>2, <3>3, SessionAssumption DEF HoldsFile
      <3>5. ASSUME NEW t \in Stores PROVE Holds(jar[c], t, left[c][t])'
        <4>1. Holds(jar[c], t, left[c][t])
          BY <3>1
        <4>2. items[t][jar[c]] \in Dicts \cup {NoDict}
          BY <1>3, <1>4, <2>2
        <4>3. CASE items[t][jar[c]] = session
          <5>1. attached /\ c = client
            BY <1>1, <1>2, <2>2, <4>3 DEF SessionKnown
          <5>2. t = s
            BY <1>1, <1>2, <2>2, <3>2, <4>3, <5>1 DEF Good, Kept, Apart
          <5>3. left'[c][t] = x
            BY <3>3, <5>1, <5>2
          <5>4. dicts'[session] = x /\ jar'[c] = jar[c] /\ items'[t][jar[c]] = session
            BY <1>1, <1>3, <4>3
          <5> QED
            BY <1>1, <5>3, <5>4 DEF Holds
        <4>4. CASE items[t][jar[c]] # session
          <5>1. ~ (attached /\ c = client /\ t = s)
            BY <3>2, <4>4
          <5>2. left'[c][t] = left[c][t]
            BY <3>3, <5>1
          <5>3. items[t][jar[c]] # NoDict => dicts'[items[t][jar[c]]] = dicts[items[t][jar[c]]]
            BY <1>1, <1>3, <4>2, <4>4
          <5> QED
            BY <1>1, <4>1, <5>2, <5>3 DEF Holds
        <4> QED
          BY <4>3, <4>4
      <3> QED
        BY <3>4, <3>5
    <2>3. LeftThere'
      BY <1>1, <2>2 DEF LeftThere
    <2> QED
      BY <2>1, <2>3 DEF Kept
  <1> QED
    BY <1>5, <1>6

\* A login.
LEMMA LoginClient ==
    ASSUME Good, NEW s \in Stores, NEW id \in Ids, NEW x \in Contents, Login(s, id, x), ~ reused'
    PROVE  Kept' /\ Known'
  <1> DEFINE contents == [dicts EXCEPT ![FreshDict] = x]
  <1>1. /\ UNCHANGED <<client, cookie, serving, loaded, store, kind>> /\ attached' = FALSE
        /\ serving # NoRouter /\ Unused # {} /\ memory[s] = "live"
        /\ id \notin made /\ made' = made \cup {id}
        /\ jar' = [jar EXCEPT ![client] = id] /\ left' = LeftOnly(s, x)
    BY DEF Login, Call, UseStore, MakeId, storesOnly, routersOnly, request
  <1>2. client \in Clients /\ CookieKnown /\ SessionKnown
    BY <1>1 DEF Good, Known
  <1>3. kind[s] \in {"mem", "file"}
    BY <1>1, LiveKinds DEF Good
  <1>4. /\ FreshDict \in Dicts /\ FreshDict # session /\ \A t \in Stores, i \in Ids : items[t][i] # FreshDict
    BY <1>1, FreshIsNobodys
  <1>5. /\ contents[FreshDict] = x
        /\ \A t \in Stores, i \in Ids : items[t][i] # NoDict => contents[items[t][i]] = dicts[items[t][i]]
    BY <1>4 DEF Good, DamageInv, SessionTypeOK
  <1>6. Set(s, id, FreshDict, contents, session)
    BY DEF Login
  <1> HIDE DEF contents
  <1>7. \A c \in Clients : jar[c] # NoId => jar[c] \in Ids
    BY DEF Good, IdInv
  <1>8. Kept'
    <2>1. PICK d, cs : d = FreshDict /\ cs = contents
      OBVIOUS
    <2>2. OwnDict(d, cs)
      BY <1>4, <1>5, <1>7, <2>1 DEF OwnDict
    <2>3. Set(s, id, d, cs, session) /\ left' = LeftOnly(s, cs[d])
      BY <1>1, <1>5, <1>6, <2>1
    <2>4. /\ DamageInv /\ IdInv /\ Kept /\ LeftOK /\ id \notin made
          /\ jar' = [jar EXCEPT ![client] = id] /\ made' = made \cup {id}
      BY <1>1 DEF Good
    <2> QED
      BY <1>2, <1>3, <2>2, <2>3, <2>4, NewIdKeeps
  <1>9. /\ \A t \in Stores, i \in Ids :
              items'[t][i] = IF kind[s] = "mem" /\ t = s /\ i = id THEN FreshDict ELSE items[t][i]
        /\ session' = session
    BY <1>3, <1>4, <1>6, SetSets DEF Good, DamageInv
  <1>10. /\ jar'[client] = id /\ id # NoId /\ \A t \in Stores : items[t][id] = NoDict
         /\ \A e \in Clients : e # client => jar'[e] = jar[e] /\ jar[e] # id
    BY <1>1, <1>2, SessionAssumption DEF Good, IdInv, Kept, UnmadeUnused
  <1>11. CookieKnown'
    <2>1. cookie' \in made' \cup {NoId} /\ cookie \in Ids \cup {NoId} /\ cookie # id
      BY <1>1, <1>2, <1>10 DEF CookieKnown, Good, IdInv
    <2>2. \A e \in Clients : cookie # NoId /\ jar'[e] = cookie => e = client
      BY <1>2, <1>10 DEF CookieKnown
    <2>3. ASSUME ~ loaded, cookie # NoId, NEW t \in Stores, NEW u \in Stores, NEW e \in Clients,
                 jar'[e] # NoId, items'[t][cookie] # NoDict
          PROVE  items'[t][cookie] # items'[u][jar'[e]]
      <3>1. items'[t][cookie] = items[t][cookie] /\ items[t][cookie] # FreshDict
        BY <1>4, <1>9, <2>1, <2>3
      <3>2. CASE e = client
        BY <1>9, <1>10, <2>3, <3>1, <3>2
      <3>3. CASE e # client
        <4>1. items'[u][jar'[e]] = items[u][jar[e]] /\ jar[e] # NoId
          BY <1>7, <1>9, <1>10, <2>3, <3>3
        <4>2. CASE cookie = jar[client]
          <5>1. jar[client] # NoId
            BY <2>3, <4>2
          <5> QED
            BY <1>2, <2>3, <3>1, <3>3, <4>1, <4>2, <5>1 DEF Good, Kept, Apart
        <4>3. CASE cookie # jar[client]
          BY <1>2, <2>3, <3>1, <4>1, <4>3 DEF CookieKnown
        <4> QED
          BY <4>2, <4>3
      <3> QED
        BY <3>2, <3>3
    <2>4. cookie' \in Strange => store'[serving'] \in Stores /\ kind'[store'[serving']] = "file"
      BY <1>1, <1>2 DEF CookieKnown
    <2>5. cookie' = cookie /\ loaded' = loaded /\ client' = client
      BY <1>1
    <2> QED
      BY <2>1, <2>2, <2>3, <2>4, <2>5 DEF CookieKnown
  <1>12. SessionKnown'
    <2>1. ASSUME NEW t \in Stores, NEW c \in Clients, session # NoDict, jar'[c] # NoId, items'[t][jar'[c]] = session
          PROVE  FALSE
      <3>1. CASE c = client
        BY <1>4, <1>9, <1>10, <2>1, <3>1
      <3>2. CASE c # client
        <4>1. items[t][jar[c]] = session /\ jar[c] # NoId
          BY <1>7, <1>9, <1>10, <2>1, <3>2
        <4> QED
          BY <1>2, <2>1, <3>2, <4>1 DEF SessionKnown
      <3> QED
        BY <3>1, <3>2
    <2> QED
      BY <1>1, <1>2, <1>9, <2>1 DEF SessionKnown
  <1> QED
    BY <1>1, <1>2, <1>8, <1>11, <1>12 DEF Known

\* SESSION under a new id.
LEMMA RotateClient ==
    ASSUME Good, NEW s \in Stores, NEW id \in Ids, Rotate(s, id), ~ reused'
    PROVE  Kept' /\ Known'
  <1>1. /\ UNCHANGED <<client, cookie, serving, loaded, store, kind>> /\ attached' = (kind[s] = "mem")
        /\ serving # NoRouter /\ store[serving] = s /\ memory[s] = "live" /\ session # NoDict
        /\ id \notin made /\ made' = made \cup {id}
        /\ jar' = [jar EXCEPT ![client] = id] /\ left' = LeftOnly(s, dicts[session])
        /\ Set(s, id, session, dicts, session)
    BY DEF Rotate, Call, UseStore, MakeId, storesOnly, routersOnly, request
  <1>2. client \in Clients /\ CookieKnown /\ SessionKnown
    BY <1>1 DEF Good, Known
  <1>3. kind[s] \in {"mem", "file"} /\ session \in Dicts
    BY <1>1, LiveKinds DEF Good, DamageInv, SessionTypeOK
  <1>4. \A t \in Stores, e \in Clients : e # client /\ jar[e] # NoId => items[t][jar[e]] # session
    BY <1>1, <1>2 DEF SessionKnown
  <1>5. Kept'
    <2>1. OwnDict(session, dicts)
      BY <1>3, <1>4 DEF OwnDict
    <2> QED
      BY <1>1, <1>2, <1>3, <2>1, NewIdKeeps DEF Good
  <1>6. /\ \A t \in Stores, i \in Ids :
              items'[t][i] = IF kind[s] = "mem" /\ t = s /\ i = id THEN session ELSE items[t][i]
        /\ session' = session
    BY <1>1, <1>3, SetSets DEF Good, DamageInv
  <1>7. /\ jar'[client] = id /\ id # NoId /\ \A t \in Stores : items[t][id] = NoDict
        /\ \A e \in Clients : e # client => jar'[e] = jar[e] /\ jar[e] # id /\ (jar[e] # NoId => jar[e] \in Ids)
    BY <1>1, <1>2, SessionAssumption DEF Good, IdInv, Kept, UnmadeUnused
  <1>8. loaded
    BY <1>1, <1>2 DEF SessionKnown
  <1>9. CookieKnown'
    <2>1. cookie' \in made' \cup {NoId}
      BY <1>1, <1>2 DEF CookieKnown
    <2>2. \A e \in Clients : cookie # NoId /\ jar'[e] = cookie => e = client
      BY <1>2, <1>7 DEF CookieKnown
    <2>3. cookie' \in Strange => store'[serving'] \in Stores /\ kind'[store'[serving']] = "file"
      BY <1>1, <1>2 DEF CookieKnown
    <2>4. cookie' = cookie /\ loaded' /\ client' = client
      BY <1>1, <1>8
    <2> QED
      BY <2>1, <2>2, <2>3, <2>4 DEF CookieKnown
  <1>10. SessionKnown'
    <2>1. ASSUME NEW t \in Stores, NEW c \in Clients, jar'[c] # NoId, items'[t][jar'[c]] = session
          PROVE  c = client /\ kind[s] = "mem"
      <3>1. CASE c = client
        BY <1>1, <1>6, <1>7, <2>1, <3>1
      <3>2. CASE c # client
        BY <1>4, <1>6, <1>7, <2>1, <3>2
      <3> QED
        BY <3>1, <3>2
    <2>2. kind[s] = "mem" => items'[s][jar'[client]] = session /\ jar'[client] # NoId
      BY <1>6, <1>7
    <2> QED
      BY <1>1, <1>6, <1>8, <2>1, <2>2 DEF SessionKnown
  <1> QED
    BY <1>1, <1>2, <1>5, <1>9, <1>10 DEF Known

\* Clear and delete: dict n, if any, is put in the place of the one under the
\* id the request came with.
LEMMA ForgetClient ==
    ASSUME Good, cookie # NoId, NEW s \in Stores, kind[s] \in {"mem", "file"}, serving # NoRouter, store[serving] = s,
           NEW n, NEW y \in {NoFile, Empty}, Emptied(s, n, y), n # session \/ n = NoDict,
           left' = IF jar[client] = cookie THEN [left EXCEPT ![client][Place(s)] = Empty] ELSE left,
           attached' = (attached /\ jar[client] # cookie),
           UNCHANGED <<jar, made, client, cookie, session, serving, loaded, store, kind>>
    PROVE  Kept' /\ Known'
  <1>1. client \in Clients /\ CookieKnown /\ SessionKnown /\ cookie \in Ids /\ cookie \in made
    BY DEF Good, Known, CookieKnown, IdInv
  <1>2. \A c \in Clients : jar[c] # NoId => jar[c] \in Ids /\ jar[c] \in made /\ (c # client => jar[c] # cookie)
    BY <1>1 DEF Good, IdInv, CookieKnown
  <1>3. Kept'
    <2>1. CASE jar[client] = cookie
      <3>1. IdInv /\ Kept /\ LeftOK /\ SessionTypeOK /\ ~ reused /\ cookie = jar[client]
            /\ left' = [left EXCEPT ![client][Place(s)] = Empty]
        BY <2>1 DEF Good, DamageInv
      <3> QED
        BY <1>1, <3>1, OwnIdEmptied
    <2>2. CASE jar[client] # cookie
      <3>1. \A c \in Clients : jar[c] # NoId => jar[c] \in Ids /\ jar[c] # cookie
        BY <1>2, <2>2
      <3>2. \A c \in Clients : jar[c] # NoId => files'[jar[c]] = files[jar[c]]
        BY <3>1 DEF Emptied
      <3>3. ASSUME NEW c \in Clients, NEW t \in Stores, jar[c] # NoId
            PROVE  /\ items'[t][jar[c]] = items[t][jar[c]]
                   /\ items[t][jar[c]] # NoDict => dicts'[items[t][jar[c]]] = dicts[items[t][jar[c]]]
        <4>1. jar[c] \in Ids /\ jar[c] # cookie
          BY <3>1, <3>3
        <4>2. items'[t][jar[c]] = items[t][jar[c]]
          BY <4>1 DEF Emptied
        <4>3. items[t][jar[c]] = n => n = NoDict
          BY <4>1 DEF Emptied
        <4> QED
          BY <4>1, <4>2, <4>3 DEF Emptied
      <3>4. \A i \in Ids \ made' : files'[i] = files[i]
        BY <1>1 DEF Emptied
      <3>5. \A i \in (Ids \ made') \cup Strange, t \in Stores : items'[t][i] = items[t][i]
        <4>1. cookie \in Strange => kind[s] # "mem"
          BY <1>1 DEF CookieKnown
        <4>2. Strange \subseteq Ids /\ made' = made
          BY SessionAssumption
        <4> QED
          BY <1>1, <4>1, <4>2 DEF Emptied
      <3>6. IdInv /\ Kept /\ LeftOK /\ UNCHANGED <<jar, left>> /\ made \subseteq made'
        BY <2>2 DEF Good
      <3> QED
        BY <3>2, <3>3, <3>4, <3>5, <3>6, OtherIdsKeep
    <2> QED
      BY <2>1, <2>2
  <1>4. CookieKnown'
    <2>1. ASSUME ~ loaded, cookie # jar[client], NEW t \in Stores, NEW u \in Stores, NEW e \in Clients,
                 jar[e] # NoId, items'[t][cookie] # NoDict
          PROVE  items'[t][cookie] # items'[u][jar[e]]
      <3>1. jar[e] \in Ids /\ jar[e] # cookie
        BY <1>2, <2>1
      <3>2. items'[u][jar[e]] = items[u][jar[e]]
        BY <3>1 DEF Emptied
      <3>3. CASE items'[t][cookie] = n
        BY <2>1, <3>1, <3>2, <3>3 DEF Emptied
      <3>4. CASE items'[t][cookie] = items[t][cookie]
        BY <1>1, <2>1, <3>2, <3>4 DEF CookieKnown
      <3> QED
        BY <1>1, <3>3, <3>4 DEF Emptied
    <2> QED
      BY <1>1, <2>1 DEF CookieKnown
  <1>5. SessionKnown'
    <2>1. ASSUME NEW t \in Stores, NEW c \in Clients, session # NoDict, jar[c] # NoId, items'[t][jar[c]] = session
          PROVE  c = client /\ attached /\ jar[client] # cookie
      <3>1. jar[c] \in Ids
        BY <1>2, <2>1
      <3>2. items'[t][jar[c]] = items[t][jar[c]] /\ ~ (kind[s] = "mem" /\ t = s /\ jar[c] = cookie)
        BY <2>1, <3>1 DEF Emptied
      <3>3. c = client /\ attached
        BY <1>1, <2>1, <3>2 DEF SessionKnown
      <3>4. kind[s] = "mem" /\ items[s][jar[client]] = session
        BY <1>1, <3>3 DEF SessionKnown
      <3>5. t = s
        <4>1. items[t][jar[c]] = items[s][jar[c]] /\ items[t][jar[c]] # NoDict
          BY <2>1, <3>2, <3>3, <3>4
        <4> QED
          BY <2>1, <4>1 DEF Good, Kept, Apart
      <3> QED
        BY <3>2, <3>3, <3>4, <3>5
    <2>2. attached /\ jar[client] # cookie =>
              /\ session # NoDict /\ jar[client] # NoId /\ kind[s] = "mem" /\ items'[s][jar[client]] = session
      BY <1>1, <1>2 DEF SessionKnown, Emptied
    <2> QED
      BY <1>1, <2>1, <2>2 DEF SessionKnown
  <1> QED
    BY <1>1, <1>3, <1>4, <1>5 DEF Known

LEMMA ClearClient ==
    ASSUME Good, NEW s \in Stores, Clear(s)
    PROVE  Kept' /\ Known'
  <1> DEFINE contents == [dicts EXCEPT ![FreshDict] = Empty]
             d == FreshDict
  <1>1. /\ UNCHANGED <<jar, made, client, cookie, serving, loaded, store, kind>>
        /\ cookie # NoId /\ serving # NoRouter /\ store[serving] = s /\ Unused # {} /\ memory[s] = "live"
        /\ left' = IF jar[client] = cookie THEN [left EXCEPT ![client][Place(s)] = Empty] ELSE left
        /\ attached' = (attached /\ jar[client] # cookie)
        /\ Set(s, cookie, d, contents, session)
    BY DEF Clear, Call, UseStore, storesOnly, routersOnly, request, ids
  <1>2. kind[s] \in {"mem", "file"} /\ cookie \in Ids
    BY <1>1, LiveKinds DEF Good, DamageInv, SessionTypeOK
  <1>3. d \in Dicts /\ d # session /\ \A t \in Stores, i \in Ids : items[t][i] # d
    BY <1>1, FreshIsNobodys
  <1>4. contents[d] = Empty /\ \A e \in Dicts : e # d => contents[e] = dicts[e]
    BY <1>3 DEF Good, DamageInv, SessionTypeOK
  <1> HIDE DEF contents, d
  <1>5. /\ \A t \in Stores, i \in Ids :
              items'[t][i] = IF kind[s] = "mem" /\ t = s /\ i = cookie THEN d ELSE items[t][i]
        /\ \A i \in Ids : files'[i] = IF kind[s] = "file" /\ i = cookie THEN Marshal(contents[d]) ELSE files[i]
        /\ \A t \in Stores, i \in Ids : items'[t][i] # NoDict => dicts'[items'[t][i]] = contents[items'[t][i]]
        /\ session' = session
    BY <1>1, <1>2, <1>3, SetSets DEF Good, DamageInv
  <1>6. Marshal(contents[d]) = Empty
    BY <1>4, SessionAssumption DEF Marshal
  <1>7. \A i \in Ids : files'[i] = IF kind[s] = "file" /\ i = cookie THEN Empty ELSE files[i]
    BY <1>5, <1>6
  <1>8. kind[s] = "mem" => dicts'[d] = Empty
    BY <1>2, <1>3, <1>4, <1>5, SessionAssumption
  <1>9. \A t \in Stores, i \in Ids :
            items'[t][i] # NoDict /\ items'[t][i] # d => dicts'[items'[t][i]] = dicts[items'[t][i]]
    <2> TAKE t \in Stores, i \in Ids
    <2>1. items'[t][i] # d => items'[t][i] \in Dicts \cup {NoDict}
      BY <1>5 DEF Good, DamageInv, SessionTypeOK
    <2> QED
      BY <1>4, <1>5, <2>1
  <1>10. Emptied(s, d, Empty)
    BY <1>3, <1>5, <1>7, <1>8, <1>9 DEF Emptied
  <1> QED
    BY <1>1, <1>2, <1>3, <1>5, <1>10, ForgetClient

LEMMA DeleteClient ==
    ASSUME Good, NEW s \in Stores, Delete(s)
    PROVE  Kept' /\ Known'
  <1>1. /\ UNCHANGED <<jar, made, client, cookie, serving, loaded, store, kind>>
        /\ cookie # NoId /\ serving # NoRouter /\ store[serving] = s /\ memory[s] = "live"
        /\ left' = IF jar[client] = cookie THEN [left EXCEPT ![client][Place(s)] = Empty] ELSE left
        /\ attached' = (attached /\ jar[client] # cookie)
    BY DEF Delete, Call, UseStore, storesOnly, routersOnly, request, ids
  <1>2. kind[s] \in {"mem", "file"} /\ cookie \in Ids /\ SessionTypeOK
    BY <1>1, LiveKinds DEF Good, DamageInv, SessionTypeOK
  <1>3. /\ \A t \in Stores, i \in Ids :
              items'[t][i] = IF kind[s] = "mem" /\ t = s /\ i = cookie THEN NoDict ELSE items[t][i]
        /\ \A t \in Stores, i \in Ids : items'[t][i] # NoDict => dicts'[items'[t][i]] = dicts[items'[t][i]]
        /\ \A i \in Ids : files'[i] = IF kind[s] = "file" /\ i = cookie THEN NoFile ELSE files[i]
        /\ session' = session
    <2>1. CASE kind[s] = "mem"
      <3> DEFINE newItems == [items EXCEPT ![s][cookie] = NoDict]
      <3>1. /\ newItems \in [Stores -> [Ids -> Dicts \cup {NoDict}]]
            /\ \A t \in Stores, i \in Ids : newItems[t][i] = IF t = s /\ i = cookie THEN NoDict ELSE items[t][i]
        BY <1>2 DEF SessionTypeOK
      <3>2. Heap(newItems, session, dicts) /\ files' = files
        BY <2>1 DEF Delete
      <3> HIDE DEF newItems
      <3>3. /\ items' = newItems /\ session' = session
            /\ \A t \in Stores, i \in Ids : newItems[t][i] # NoDict => dicts'[newItems[t][i]] = dicts[newItems[t][i]]
        BY <3>1, <3>2, HeapHolds
      <3> QED
        BY <2>1, <3>1, <3>2, <3>3
    <2>2. CASE kind[s] = "file"
      <3>1. files' = [files EXCEPT ![cookie] = NoFile] /\ UNCHANGED <<items, dicts, session>>
        BY <2>2 DEF Delete
      <3> QED
        BY <1>2, <2>2, <3>1 DEF SessionTypeOK
    <2> QED
      BY <1>2, <2>1, <2>2
  <1>4. Emptied(s, NoDict, NoFile)
    BY <1>3 DEF Emptied
  <1> QED
    BY <1>1, <1>2, <1>3, <1>4, ForgetClient

\* The end of a request.
LEMMA FinishClient ==
    ASSUME Good, Finish, process' = "up", ~ reused'
    PROVE  Kept' /\ Known'
  <1>1. /\ UNCHANGED <<jar, left>> /\ attached' = FALSE /\ cookie' = NoId
        /\ serving' = NoRouter /\ serving # NoRouter
    BY DEF Finish, EndWell, answer
  <1>2. \A c \in Clients : jar[c] # NoId => jar[c] \in made /\ jar[c] \in Ids
    BY DEF Good, IdInv
  <1>3. IdInv /\ Kept /\ LeftOK /\ SessionTypeOK
    BY DEF Good, DamageInv
  <1>4. CASE loaded /\ Usable
    <2>1. PICK id \in Ids : MakeId(id) /\ Set(store[serving], id, session, dicts, NoDict)
      BY <1>4 DEF Finish, Save
    <2>2. id \notin made /\ made' = made \cup {id}
      BY <2>1 DEF MakeId
    <2>3. /\ store[serving] \in Stores /\ kind[store[serving]] \in {"mem", "file"} /\ session \in Dicts
      BY <1>4, LiveKinds DEF Usable, Good, DamageInv
    <2>4. /\ \A t \in Stores, i \in Ids : i # id => items'[t][i] = items[t][i]
          /\ \A i \in Ids : i # id => files'[i] = files[i]
          /\ \A t \in Stores, i \in Ids : items'[t][i] # NoDict => dicts'[items'[t][i]] = dicts[items'[t][i]]
          /\ session' = NoDict
      BY <1>3, <2>1, <2>3, SetSets
    <2>5. Kept'
      <3>1. \A c \in Clients : jar[c] # NoId => jar[c] \in Ids /\ jar[c] # id
        BY <1>2, <2>2
      <3>2. \A c \in Clients : jar[c] # NoId => files'[jar[c]] = files[jar[c]]
        BY <2>4, <3>1
      <3>3. \A c \in Clients, t \in Stores : jar[c] # NoId =>
               /\ items'[t][jar[c]] = items[t][jar[c]]
               /\ items[t][jar[c]] # NoDict => dicts'[items[t][jar[c]]] = dicts[items[t][jar[c]]]
        BY <2>4, <3>1
      <3>4. \A i \in Ids \ made' : files'[i] = files[i]
        BY <2>2, <2>4
      <3>5. \A i \in (Ids \ made') \cup Strange, t \in Stores : items'[t][i] = items[t][i]
        <4>1. Strange \subseteq made /\ made \subseteq Ids
          BY <1>3 DEF IdInv
        <4> QED
          BY <2>2, <2>4, <4>1
      <3> QED
        BY <1>1, <1>3, <2>2, <3>2, <3>3, <3>4, <3>5, OtherIdsKeep
    <2> QED
      BY <1>1, <2>4, <2>5 DEF Known, Between
  <1>5. CASE ~ (loaded /\ Usable)
    <2>1. Heap(items, NoDict, dicts) /\ UNCHANGED <<files, made>>
      BY <1>5 DEF Finish, Save, ids
    <2>2. /\ items' = items /\ session' = NoDict
          /\ \A t \in Stores, i \in Ids : items[t][i] # NoDict => dicts'[items[t][i]] = dicts[items[t][i]]
      BY <1>3, <2>1, HeapHolds DEF SessionTypeOK
    <2>3. Kept'
      BY <1>1, <1>2, <1>3, <2>1, <2>2, OtherIdsKeep
    <2> QED
      BY <1>1, <2>2, <2>3 DEF Known, Between
  <1> QED
    BY <1>4, <1>5

LEMMA FailClient ==
    ASSUME Good, Fail
    PROVE  Kept' /\ Known'
  <1>1. /\ UNCHANGED <<jar, left, files, made>> /\ attached' = FALSE /\ cookie' = NoId
        /\ serving' = NoRouter /\ Heap(items, NoDict, dicts)
    BY DEF Fail, EndBadly, answer, ids
  <1>2. \A c \in Clients : jar[c] # NoId => jar[c] \in made /\ jar[c] \in Ids
    BY DEF Good, IdInv
  <1>3. IdInv /\ Kept /\ LeftOK /\ SessionTypeOK
    BY DEF Good, DamageInv
  <1>4. /\ items' = items /\ session' = NoDict
        /\ \A t \in Stores, i \in Ids : items[t][i] # NoDict => dicts'[items[t][i]] = dicts[items[t][i]]
    BY <1>1, <1>3, HeapHolds DEF SessionTypeOK
  <1>5. Kept'
    BY <1>1, <1>2, <1>3, <1>4, OtherIdsKeep
  <1> QED
    BY <1>1, <1>4, <1>5 DEF Known, Between

\* Sessions are followed until an id is made twice or freed memory used, and
\* then never again.
LEMMA FollowedBefore ==
    ASSUME [Next]_vars
    PROVE  /\ process' = "up" => process = "up"
           /\ ~ reused' => ~ reused
           /\ attached \in BOOLEAN => attached' \in BOOLEAN
  <1>1. ASSUME NEW s \in Stores, UseStore(s) PROVE process' = "up" => process = "up"
    BY <1>1 DEF UseStore, AppRuns
  <1>2. CASE LifeStep
    <2>1. UNCHANGED sessionVars
      BY <1>2 DEF LifeStep
    <2>2. process' = "up" => process = "up"
      BY <1>2 DEF LifeStep, LifeChange, NewStore, DropStore, UseStore, NewRouter, NewPlainRouter, Construct, AddRouter,
         AppendRouter, DropRouter, RemoveRouter, Release, StoreFree, Start, AppRuns
    <2> QED
      BY <2>1, <2>2 DEF sessionVars, visit, ids
  <1>3. ASSUME NEW s \in Stores, \/ \E id \in Ids : Rotate(s, id) \/ \E x \in Contents : Login(s, id, x)
                                \/ Clear(s) \/ Delete(s)
        PROVE  /\ process' = "up" => process = "up"
               /\ ~ reused' => ~ reused
               /\ attached \in BOOLEAN => attached' \in BOOLEAN
    <2>1. UseStore(s)
      BY <1>3 DEF Rotate, Login, Clear, Delete, Call
    <2>2. ~ reused' => ~ reused
      BY <1>3, Zenon DEF Rotate, Login, Clear, Delete, MakeId, ids
    <2>3. attached' \in BOOLEAN
      <3>1. \/ attached' = FALSE \/ attached' = (kind[s] = "mem")
            \/ attached' = (attached /\ jar[client] # cookie)
        BY <1>3, Zenon DEF Rotate, Login, Clear, Delete
      <3>2. (kind[s] = "mem") \in BOOLEAN /\ (attached /\ jar[client] # cookie) \in BOOLEAN
        OBVIOUS
      <3> QED
        BY <3>1, <3>2
    <2>4. process' = "up" => process = "up"
      BY <1>1, <2>1
    <2> QED
      BY <2>2, <2>3, <2>4
  <1>4. CASE Load
    <2>1. (process' = "up" => process = "up") /\ reused' = reused
      BY <1>4 DEF Load, LoadSession, ids
    <2>2. attached' \in BOOLEAN \/ attached' = attached
      BY <1>4, Zenon DEF Load
    <2> QED
      BY <2>1, <2>2
  <1>5. CASE Finish
    <2>1. (process' = "up" => process = "up") /\ attached' = FALSE
      BY <1>5 DEF Finish, EndWell
    <2>2. ~ reused' => ~ reused
      BY <1>5, Zenon DEF Finish, Save, MakeId, ids
    <2> QED
      BY <2>1, <2>2
  <1>6. CASE \/ \E c \in Clients, r \in Routers : Arrive(c, r)
             \/ \E c \in Clients, r \in Routers, id \in Strange : ArriveAs(c, r, id)
             \/ (\E id \in Ids : CutShort(id)) \/ Fail \/ ClearError \/ \E x \in Contents : Modify(x)
    <2>1. process = "up"
      BY <1>6 DEF Arrive, ArriveAs, Begin, CutShort, Fail, EndBadly, ClearError, Modify
    <2>2. reused' = reused
      BY <1>6 DEF Arrive, ArriveAs, CutShort, Fail, ClearError, Modify, ids
    <2>3. attached' = FALSE \/ attached' = attached
      BY <1>6 DEF Arrive, ArriveAs, CutShort, Fail, ClearError, Modify, visit
    <2> QED
      BY <2>1, <2>2, <2>3
  <1>7. CASE UNCHANGED vars
    <2>1. UNCHANGED <<process, reused, attached>>
      BY <1>7 DEF vars, lifeVars, sessionVars, visit, ids
    <2> QED
      BY <2>1
  <1> QED
    BY <1>2, <1>3, <1>4, <1>5, <1>6, <1>7 DEF Next

LEMMA ClientStep ==
    ASSUME LifeInv, DamageInv, IdInv, ClientInv, [Next]_vars
    PROVE  ClientInv'
  <1>1. LeftOK'
    BY LeftType DEF ClientInv, LeftOK
  <1>2. attached' \in BOOLEAN
    BY FollowedBefore DEF ClientInv
  <1>3. ASSUME process' = "up", ~ reused'
        PROVE  Kept' /\ Known'
    <2>1. Good
      BY <1>3, FollowedBefore DEF ClientInv, Good
    <2>2. CASE UNCHANGED vars
      BY <2>1, <2>2, SameClient DEF vars, lifeVars, storesOnly, routersOnly, request, sessionVars, answer, visit
    <2>3. CASE ClearError
      BY <2>1, <2>3, SameClient DEF ClearError, lifeVars, storesOnly, routersOnly, request, answer, visit
    <2> QED
      BY <1>3, <2>1, <2>2, <2>3, LifeStepClient, ArriveClient, ArriveAsClient, CutShortClient, LoadClient, ModifyClient, LoginClient, RotateClient,
         ClearClient, DeleteClient, FinishClient, FailClient DEF Next
  <1> QED
    BY <1>1, <1>2, <1>3 DEF ClientInv

\* Every client finds in every store what its own requests have left there,
\* whatever other clients do, with any number of stores, routers and clients.
THEOREM SessionsReadBack == Spec => []ClientReadsItsSession
  <1>1. Init => ClientInv /\ IdInv /\ DamageInv
    <2>1. SUFFICES ASSUME Init PROVE ClientInv /\ IdInv /\ DamageInv
      OBVIOUS
    <2>2. IdInv
      BY <2>1, IdInit
    <2>3. DamageInv
      BY <2>1, DamageInit
    <2>4. LeftOK /\ attached \in BOOLEAN
      BY <2>1, SessionAssumption DEF Init, LeftOK
    <2>5. Kept
      <3>1. /\ \A c \in Clients : jar[c] = NoId
            /\ \A i \in Ids \ made : files[i] = NoFile
            /\ \A i \in Ids, s \in Stores : items[s][i] = NoDict
        BY <2>1 DEF Init
      <3> QED
        BY <3>1, SessionAssumption DEF Kept, Apart, UnmadeUnused, LeftThere
    <2>6. Known
      BY <2>1 DEF Init, LifeInit, Known, Between
    <2> QED
      BY <2>2, <2>3, <2>4, <2>5, <2>6 DEF ClientInv
  <1>2. LifeInv /\ DamageInv /\ IdInv /\ ClientInv => ClientReadsItsSession
    <2>1. SUFFICES ASSUME LifeInv, DamageInv, IdInv, ClientInv, NEW s \in Stores, NEW c \in Clients,
                          process = "up", memory[s] = "live", ~ reused, jar[c] # NoId
                   PROVE  Get(s, jar[c]) = IF kind[s] = "file" /\ left[c][Tmp] \in Odd \cup {Unreadable}
                                             THEN Empty ELSE left[c][Place(s)]
      BY DEF ClientReadsItsSession
    <2>2. Holds(jar[c], s, left[c][s]) /\ HoldsFile(jar[c], left[c][Tmp])
      BY <2>1 DEF ClientInv, Kept, LeftThere
    <2>3. kind[s] \in {"mem", "file"}
      BY <2>1, LiveKinds
    <2>4. left[c][Tmp] \in Contents \cup {Unreadable}
      BY <2>1 DEF ClientInv, LeftOK
    <2>5. CASE kind[s] = "mem"
      BY <2>1, <2>2, <2>5 DEF Get, Holds, Place
    <2>6. CASE kind[s] = "file"
      <3>1. Place(s) = Tmp /\ Get(s, jar[c]) = IF files[jar[c]] \in Contents THEN files[jar[c]] ELSE Empty
        BY <2>1, <2>6 DEF Get, Place
      <3> QED
        BY <2>2, <2>4, <2>6, <3>1, SessionAssumption DEF HoldsFile, Marshal
    <2> QED
      BY <2>3, <2>5, <2>6
  <1> QED
    BY <1>1, <1>2, ClientStep, IdStep, DamageStep, SessionsFollowLives, LifeInvariant, PTL DEF Spec
============================================================================
