---------------------------- MODULE GuavaSession ----------------------------
(***************************************************************************)
(* The sessions of controllers, over the lifetimes of GuavaStores: the id  *)
(* in the client's cookie, the dict that Controller.SESSION finds under it *)
(* or makes, what the actions do with it and with the store, and the       *)
(* saving when they have returned.  An in-memory store holds dicts and     *)
(* hands them out themselves, file stores keep copies in /tmp, all in the  *)
(* same place.  A request is dispatched as a whole, but clients take turns.*)
(***************************************************************************)
EXTENDS GuavaStores

CONSTANTS
    Clients,       \* browsers that wait for an answer before the next request
    Ids,           \* session ids, or whatever a cookie has for one
    Strange,       \* those this run of the server has not made
    Contents,      \* what sessions hold, Empty among others
    Odd,           \* those that hold a value marshal cannot write
    Empty,         \* an empty dict
    Dicts,         \* dict objects, enough of them for all references
    NoClient, NoId, NoDict, NoFile, Unreadable

\* The directory of the session files.
Tmp == "/tmp"

ASSUME SessionAssumption ==
    /\ Odd \subseteq Contents /\ Empty \in Contents \ Odd
    /\ Strange \subseteq Ids
    /\ NoId \notin Ids /\ NoDict \notin Dicts /\ Tmp \notin Stores
    /\ NoFile \notin Contents /\ Unreadable \notin Contents /\ NoFile # Unreadable

VARIABLES
    jar,           \* the session cookie each client keeps
    items,         \* store->items of an in-memory store, the dict of each id
    files,         \* /tmp, what the file of each id holds
    dicts,         \* the contents of the dicts
    client,        \* the client of the request
    cookie,        \* the session id it sent
    session,       \* Controller.SESSION
    pending,       \* a Python error has been set and none has been raised
    \* History:
    made,          \* the ids made, here or, the strange ones, elsewhere
    reused,        \* one has been made twice
    orphans,       \* ids under which a session was saved after its request
    left,          \* what each client's requests have left in its session, in each place
    attached,      \* SESSION is what the store holds for the client
    damage         \* a store has met an odd session, an unknown id, a file cut short
                   \* or one that holds no session

stored == <<items, files, dicts>>
answer == <<jar, left>>
visit == <<client, cookie, session, attached>>
errors == <<pending, damage>>
ids == <<made, reused, orphans>>
sessionVars == <<stored, answer, visit, errors, ids>>
vars == <<lifeVars, sessionVars>>

Init ==
    /\ LifeInit
    /\ jar = [c \in Clients |-> NoId]
    /\ items = [s \in Stores |-> [i \in Ids |-> NoDict]]
    /\ files \in {f \in [Ids -> (Contents \ Odd) \cup {NoFile, Unreadable}] : \A i \in Ids \ Strange : f[i] = NoFile}
    /\ dicts = [d \in Dicts |-> Empty]
    /\ client = NoClient /\ cookie = NoId /\ session = NoDict
    /\ pending = FALSE /\ made = Strange /\ reused = FALSE /\ orphans = {}
    /\ left = [c \in Clients |-> [p \in Stores \cup {Tmp} |-> Empty]] /\ attached = FALSE
    /\ damage = FALSE

----------------------------------------------------------------------------
(* Stores. *)

\* guava_session_new_id: the time, the process and a number made from the
\* microseconds; a clock that is coarse or set back can make an id again.
MakeId(id) == made' = made \cup {id} /\ reused' = (reused \/ id \in made)

\* Dicts nothing refers to; bound: Dicts.
Unused == {d \in Dicts : d # session /\ \A s \in Stores, i \in Ids : items[s][i] # d}
FreshDict == CHOOSE d \in Unused : TRUE

\* New references to dicts, and their contents; a dict that has lost its last
\* one is gone.
Heap(newItems, newSession, contents) ==
    /\ items' = newItems /\ session' = newSession
    /\ dicts' = [d \in Dicts |-> IF d = newSession \/ \E s \in Stores, i \in Ids : newItems[s][i] = d
                                   THEN contents[d] ELSE Empty]

\* Where store s keeps sessions.
Place(s) == IF kind[s] = "file" THEN Tmp ELSE s

\* A client with a new id has left x in store s, and nothing anywhere else.
LeftOnly(s, x) == [left EXCEPT ![client] = [p \in Stores \cup {Tmp} |-> IF p = Place(s) THEN x ELSE Empty]]

Marshal(content) == IF content \in Odd THEN Unreadable ELSE content

\* guava_session_set of dict d; contents are those of the dicts.
Set(s, id, d, contents, newSession) ==
    IF kind[s] = "mem"
      THEN Heap([items EXCEPT ![s][id] = d], newSession, contents) /\ files' = files
      ELSE Heap(items, newSession, contents) /\ files' = [files EXCEPT ![id] = Marshal(contents[d])]

\* guava_session_get: the contents it finds, or Empty where None is returned
\* and Controller.SESSION becomes a new dict.
Get(s, id) ==
    IF id = NoId THEN Empty
    ELSE IF kind[s] = "mem" THEN IF items[s][id] = NoDict THEN Empty ELSE dicts[items[s][id]]
    ELSE IF files[id] \in Contents THEN files[id] ELSE Empty

\* Variant for the mutation checks: a copy of the dict.
TakeCopy(d) == Heap(items, FreshDict, [dicts EXCEPT ![FreshDict] = dicts[d]])

\* guava_session_store_inmem_get: the dict itself.
Take(d) == Heap(items, d, dicts)

\* Variant: an id the in-memory store has not leaves a KeyError.
LeavesKeyError(s, id) ==
    IF kind[s] = "mem" THEN id # NoId /\ items[s][id] = NoDict ELSE id # NoId /\ files[id] = Unreadable

\* A file that marshal cannot read, an empty one among others, leaves its error
\* behind.
LeavesError(s, id) == kind[s] = "file" /\ id # NoId /\ files[id] = Unreadable

----------------------------------------------------------------------------
(* A request. *)

\* Bound: when an id has been made for the second time the sessions are no
\* longer followed.
Followed == ~ reused

\* The client sends the id it was given.
Arrive(c, r) ==
    /\ Begin(r) /\ Followed
    /\ client' = c /\ cookie' = jar[c] /\ attached' = FALSE
    /\ UNCHANGED <<stored, answer, session, errors, ids>>

\* It sends another one, of an earlier run of the server or made up, and a file
\* store takes whatever file /tmp has of that name for the session's.  Bound:
\* not to an in-memory store, which has nothing under such an id.
ArriveAs(c, r, id) ==
    /\ Begin(r) /\ Followed
    /\ store[r] \in Stores /\ kind[store[r]] = "file"
    /\ client' = c /\ cookie' = id /\ attached' = FALSE
    /\ damage' = (damage \/ files[id] = Unreadable)
    /\ UNCHANGED <<stored, answer, session, pending, ids>>

\* A set of a session's file by another process with the same /tmp has got no
\* further than fopen, which empties the file: it has been killed, or the disk
\* is full, or it is still at it.  What it may write later is left to
\* GuavaFileStore.
CutShort(id) ==
    /\ process = "up" /\ Followed /\ id \in made
    /\ files' = [files EXCEPT ![id] = Unreadable]
    /\ left' = [c \in Clients |-> IF jar[c] = id THEN [left[c] EXCEPT ![Tmp] = Unreadable] ELSE left[c]]
    /\ damage' = TRUE
    /\ UNCHANGED <<lifeVars, items, dicts, jar, visit, pending, ids>>

\* Controller.SESSION for the first time.
Load ==
    LET s == store[serving]
        found == IF cookie = NoId \/ kind[s] # "mem" THEN NoDict ELSE items[s][cookie] IN
    /\ LoadSession /\ Unused # {}
    /\ IF Usable
         THEN /\ IF found # NoDict
                   THEN Take(found)
                   ELSE Heap(items, FreshDict, [dicts EXCEPT ![FreshDict] = Get(s, cookie)])
              /\ attached' = (found # NoDict /\ jar[client] = cookie)
              /\ pending' = (pending \/ LeavesError(s, cookie))
         ELSE UNCHANGED <<items, dicts, session, attached, pending>>
    /\ UNCHANGED <<files, answer, client, cookie, damage, ids>>

\* The action changes the dict.
Modify(x) ==
    /\ process = "up" /\ session # NoDict /\ Followed
    /\ dicts' = [dicts EXCEPT ![session] = x]
    /\ left' = IF attached THEN [left EXCEPT ![client][Place(store[serving])] = x] ELSE left
    /\ UNCHANGED <<lifeVars, items, files, jar, visit, errors, ids>>

\* The action calls a method of its router's store.
Call(s) ==
    /\ UseStore(s) /\ memory[s] = "live" /\ Followed
    /\ serving # NoRouter /\ store[serving] = s

\* session.generate_id, set of a dict of the action's, and set_cookie; the
\* cookie goes with the answer, whatever that will be.
Login(s, id, x) ==
    /\ Call(s) /\ Unused # {}
    /\ MakeId(id)
    /\ Set(s, id, FreshDict, [dicts EXCEPT ![FreshDict] = x], session)
    /\ jar' = [jar EXCEPT ![client] = id] /\ left' = LeftOnly(s, x)
    /\ attached' = FALSE /\ damage' = (damage \/ (kind[s] = "file" /\ x \in Odd))
    /\ UNCHANGED <<client, cookie, pending, orphans>>

\* The same with SESSION itself, as when a login changes the id.
Rotate(s, id) ==
    /\ Call(s) /\ session # NoDict
    /\ MakeId(id)
    /\ Set(s, id, session, dicts, session)
    /\ jar' = [jar EXCEPT ![client] = id] /\ left' = LeftOnly(s, dicts[session])
    /\ attached' = (kind[s] = "mem") /\ damage' = (damage \/ (kind[s] = "file" /\ dicts[session] \in Odd))
    /\ UNCHANGED <<client, cookie, pending, orphans>>

\* SessionStore.clear of the id the request came with.
Clear(s) ==
    /\ Call(s) /\ cookie # NoId /\ Unused # {}
    /\ Set(s, cookie, FreshDict, [dicts EXCEPT ![FreshDict] = Empty], session)
    /\ left' = IF jar[client] = cookie THEN [left EXCEPT ![client][Place(s)] = Empty] ELSE left
    /\ attached' = (attached /\ jar[client] # cookie)
    /\ UNCHANGED <<jar, client, cookie, errors, ids>>

\* SessionStore.delete of it.  PyDict_DelItemString leaves a KeyError behind
\* for an id the in-memory store has not.
Delete(s) ==
    /\ Call(s) /\ cookie # NoId
    /\ IF kind[s] = "mem"
         THEN /\ Heap([items EXCEPT ![s][cookie] = NoDict], session, dicts)
              /\ pending' = (pending \/ items[s][cookie] = NoDict)
              /\ damage' = (damage \/ items[s][cookie] = NoDict)
              /\ UNCHANGED files
         ELSE /\ files' = [files EXCEPT ![cookie] = NoFile]
              /\ UNCHANGED <<items, dicts, session, pending, damage>>
    /\ left' = IF jar[client] = cookie THEN [left EXCEPT ![client][Place(s)] = Empty] ELSE left
    /\ attached' = (attached /\ jar[client] # cookie)
    /\ UNCHANGED <<jar, client, cookie, ids>>

\* Variant: the id the client sent is kept, as the code means to.
SaveUnderSent ==
    IF loaded /\ Usable
      THEN \E id \in Ids :
           /\ IF cookie = NoId THEN MakeId(id) ELSE id = cookie /\ UNCHANGED <<made, reused>>
           /\ orphans' = orphans \cup {id}
           /\ Set(store[serving], id, session, dicts, NoDict)
           /\ damage' = (damage \/ (kind[store[serving]] = "file" /\ dicts[session] \in Odd))
      ELSE Heap(items, NoDict, dicts) /\ UNCHANGED <<files, ids, damage>>

\* A loaded session is saved, always under an id made for it.
Save ==
    IF loaded /\ Usable
      THEN \E id \in Ids :
             /\ MakeId(id) /\ orphans' = orphans \cup {id}
             /\ Set(store[serving], id, session, dicts, NoDict)
             /\ damage' = (damage \/ (kind[store[serving]] = "file" /\ dicts[session] \in Odd))
      ELSE Heap(items, NoDict, dicts) /\ UNCHANGED <<files, ids, damage>>

\* The actions have returned.
Finish ==
    /\ EndWell /\ Save
    /\ client' = NoClient /\ attached' = FALSE /\ cookie' = NoId
    /\ UNCHANGED <<answer, pending>>

\* One has raised an error of its own, or the one left behind comes up in it;
\* nothing is saved, and PyErr_Print clears the error.
Fail ==
    /\ EndBadly
    /\ pending' = FALSE
    /\ Heap(items, NoDict, dicts)
    /\ client' = NoClient /\ attached' = FALSE /\ cookie' = NoId
    /\ UNCHANGED <<files, answer, damage, ids>>

\* Some call of the interpreter clears the error left behind.
ClearError ==
    /\ process = "up" /\ pending /\ pending' = FALSE
    /\ UNCHANGED <<lifeVars, stored, answer, visit, damage, ids>>

\* Lifetimes go on.
LifeStep == LifeChange /\ UNCHANGED sessionVars

Next ==
    \/ LifeStep
    \/ \E c \in Clients, r \in Routers : Arrive(c, r) \/ \E id \in Strange : ArriveAs(c, r, id)
    \/ \E id \in Ids : CutShort(id)
    \/ Load \/ Finish \/ Fail \/ ClearError
    \/ \E x \in Contents : Modify(x)
    \/ \E s \in Stores :
          \/ \E id \in Ids : Rotate(s, id) \/ \E x \in Contents : Login(s, id, x)
          \/ Clear(s) \/ Delete(s)

Spec == Init /\ [][Next]_vars

----------------------------------------------------------------------------
(* Properties. *)

\* Unless an id has been made twice, what a client's next request loads from a
\* store is what its last ones left there: with an in-memory store the dict as
\* the requests it came to have changed it, those that then failed too; with a
\* file store what was set at login or left by clear or delete, never what an
\* action changed, and nothing once a set has been cut short.  A store in which
\* the id was not made has nothing for it, but file stores share what they have.
\* Other clients, requests with a strange id, and the ids under which sessions
\* are saved, take no part.
ClientReadsItsSession ==
    \A s \in Stores, c \in Clients :
        process = "up" /\ memory[s] = "live" /\ ~ reused /\ jar[c] # NoId =>
            Get(s, jar[c]) = IF kind[s] = "file" /\ left[c][Tmp] \in Odd \cup {Unreadable}
                                 THEN Empty ELSE left[c][Place(s)]

\* The session a request leaves behind is saved where its client will not look:
\* no client has the id, unless ids are made twice.
SavedWhereNobodyLooks == ~ reused => \A c \in Clients : jar[c] \notin orphans

\* An error that no call has raised, and that fails whatever action it comes up
\* in, of this client or of another, is there only after one of four things: a
\* value that cannot be marshalled was put into a file store, an unknown id was
\* deleted from an in-memory one, the file of a session was left empty by a set
\* that got no further, or a request's cookie named a file that is no session.
InnocentFailureNeedsDamage == pending => damage
============================================================================
