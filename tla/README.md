# A TLA+ model of guava

guava is a web framework for Python 2 written in C: a libuv event loop takes
connections, http-parser cuts their bytes into requests, routers choose a
handler, and a Python controller (or the static file handler) answers. This
directory models the parts of it that are hard to test, checks them with TLC on
small instances and proves with TLAPS, for every instance, almost all that the runs
check of connections, request assembly, texts, session stores, sessions, dispatch,
static files and the file store.

Paths below are relative to the repository (`src/guava_request.c`,
`include/guava.h`, ...); those without a directory are under its `src/`.

## 1. Inventory

| Component | State | Operations | Talks to | What is hard |
| --- | --- | --- | --- | --- |
| Connections (`guava_server.c`, `guava_conn.c`, `guava_request.c`, `guava_response.c`) | `guava_conn_t`: stream, parser, `write_req`, `request`, `keep_alive`; reference counts of Requests; responses in flight | `on_conn`, `on_read`, `on_message_begin`, `on_headers_complete`, `on_message_complete`, `guava_response_send`, `on_write`, `on_close`, SIGINT | libuv and http-parser by callbacks, the dispatch by a call | order of read, write and close callbacks; one `write_req` for all answers; who owns a Request; pipelining |
| Request assembly (`guava_request.c`) | the Request being filled, `auxiliary_last_was_header`, `auxiliary_current_header` | `on_url`, `on_header_field`, `on_header_value`, `on_headers_complete`, `on_body` | http-parser | TCP may cut every element anywhere |
| Text formats (`guava_url.c`, `guava_cookie.c`, `guava_request.c`) | none | decode and encode escapes, parse forms, cookies, queries; write Set-Cookie | assembly, response | scanners without bounds, empty fields, ends of texts, no quoting |
| Routers (`guava_router/*.c`, `guava_module_router*.c`) | mount point, package, store, routes | best match, `route` of four kinds; made, listed, removed, destroyed | dispatch, session stores | longest match, `strtok_r` on the Request's own path, who frees a store |
| Dispatch (`guava_request.c`, `guava_module_server.c`, `guava_module_controller.c`) | list of routers, handler in hand, response, controller | `on_message_complete`, `Server.route`, `add_router` | routers, application code, response, session store | application code raises anywhere, and changes the list; references; two copies of the same loop |
| Response text (`guava_response.c`, `guava_cookie.c`) | status, headers, cookies, data | write, set headers, 302/404/500, serialise | dispatch, connections | buffers of fixed size, lengths that must agree, data replaced |
| Static files (`guava_handler_static.c`) | descriptors, requests in libuv's thread pool | stat, list, open, sendfile | loop and pool | a thread works on a bare descriptor number that the loop may close |
| Controller sessions (`guava_module_controller.c`, `guava_module_session.c`, `guava_session.c`, in-memory store) | Python objects and structures of stores, `SESSION`, the store's dict, cookies of clients | load by cookie, change, set, clear, delete, save under a new id | dispatch, routers, stores | lifetimes, aliasing, equal ids, errors left behind, no id ever reaches the client |
| File session store (`guava_session_store_file.c`) | a file per id | get, set, delete | file system, other processes | set is not atomic; crash in the middle |
| Python types, strings, memory, mime types | – | wrappers and tables | – | – |

Properties that make each of them correct are listed with the runs in section 3;
the places where the code is exposed are the `hazards` of `PROJECT.json`, each at
its line.

## 2. Modules

| Module | Models | How |
| --- | --- | --- |
| `GuavaConn` | connections | one action per callback; the callbacks of one `http_parser_execute` are actions of their own because a segment may end between any two |
| `HttpServing` | what a client that waits for answers is promised | abstract specification, no buffers, callbacks or objects |
| `GuavaConnServing` | that `GuavaConn` keeps that promise | refinement mapping (`PhaseOf`, `Deaf`, `Answers`) |
| `GuavaCodec` | text formats | functions on sequences of chars, recursive functions instead of `RECURSIVE` operators |
| `GuavaAssembly` (extends `GuavaCodec`) | request assembly | a message on the wire is a sequence of elements; a step delivers any number of bytes of the current one |
| `GuavaRouting` (extends `GuavaCodec`) | routers | a routing returns how it ended, the handler and what is left of the path |
| `GuavaResponse` | response text | operators on a response record, and how a client reads the head |
| `GuavaDispatch` (extends `GuavaRouting`, `GuavaResponse`) | dispatch | `at` is the program counter; application code is a choice between returning and raising, and may write the response |
| `GuavaStatic` | static files | descriptor table, loop callbacks, pool threads |
| `GuavaStores` | the life of session stores and of the routers that use them | reference counts of the Python objects, the structures behind them, the server's list |
| `GuavaSession` (extends `GuavaStores`) | sessions of controllers | a heap of dicts, ids, cookies, the pending Python error |
| `SessionKV` | what a session store shared by processes promises | abstract specification |
| `GuavaFileStore` | file session store | directory and files; fopen, transfer and unlink are steps; refines `SessionKV` |
| `GuavaTextProofs` | – | lemmas on the recursive functions of `GuavaCodec`, for the next three |
| `GuavaCodecProofs`, `GuavaAssemblyProofs`, `GuavaDispatchProofs` | – | proofs about texts, assembly and dispatch |
| `GuavaConnProofs`, `GuavaSessionProofs`, `GuavaStaticProofs`, `GuavaFileStoreProofs` | – | proofs about connections and their refinement, stores and sessions, files |
| `MC*` | – | instances for TLC; `MCCodec` and `MCRouting` also state the properties of operators |

### Correspondence with the code

*GuavaConn.* `stream`, `parser`, `request`, `keepAlive`, `writeReq` are the fields
of `guava_conn_t` (`include/guava.h:120-130`); `refs` are the Python reference
counts of its Requests and `resp` the life of each response. The dispatch inside
`on_message_complete` is a single step here (it runs to its end on the loop
thread); every branch of it that returns calls `guava_response_send` once, which
`GuavaDispatch` checks as `AnsweredOnce`. A dispatch that brings the process down
is `DispatchCrash`. A `uv_write_t` given to libuv a second time before its callback
has run is undefined behaviour: `process` becomes `"undefined"` and nothing is said
of what follows. `closedBy`, `promised` and `overlap` are history variables.

*GuavaAssembly.* Elements are URL, header name, header value, the blank line and the
body, in order. `Piece` is http-parser: a data callback gets what lies of an element
in one segment. A segment that ends right behind the last byte of a name, a value or
the URL makes it call once more, without a byte, when the next segment begins; `late`
(history) is the set of elements this happened to, `cut` the set of those that were
cut inside. So a name that arrived whole can stop the parser, and a URL that did is
replaced by an empty one. `OnUrl`, `OnHeaderField`, ... are the callbacks, with the same
guards and the same order of effects. Reading past the end of a text and the NULL
given to `PyDict_SetItem` end in `"undefined"`. `WellFormed` messages are those that give
the scanners no reason to do either as long as they arrive whole.

*GuavaCodec.* `PairsAt` is one round of the scanner that
`guava_request_parse_form_data` and `guava_cookie_parse` share but for the separator,
begun at some position of the text; `PairsFrom` is the loop around it, and `PairsBy`
what it makes of the whole text. `QueryAt`, `QueryFrom` and `QueryBy` are the same for
the loop of `guava_request_extract_from_url`, and `DecodeAt`, `DecodeFrom`, `EncodeAt`,
`EncodeFrom` for those of `guava_url_decode` and `guava_url_encode`. Decoding keeps the
arithmetic of `n_from_hex` on any char, in eight bits (`BitOr`). A percent sign without two
chars after it vanishes, as in the code. `NewCookie` and `CookieText` are a Cookie
object and its Set-Cookie line; the browser that splits the line, trims it and sends
the pair back is external.

*GuavaRouting.* Built-in and custom routers are made by `MVCRouter`, `RESTRouter`,
`StaticRouter` and `Router`. `SegmentsAt` is one call of `strtok_r` and the calls after
it, `CutPath` what they leave of the path. Names
of modules, classes and actions are kept as data because properties compare them.
`Fits` says whether a URL fits into the buffer on the stack into which the best match
copies its prefixes (`BufferSize`, 1024 in the code, smaller in the runs); where one does
not, `GuavaDispatch` ends in `"undefined"`. Package names are left out.

*GuavaResponse.* A header is a line of one of three kinds, and the number it gives: it
fits, it is too long for the buffer of `guava_response_serialize`, which cuts it with
its CR LF, or it has a CR LF of its own, which is written as it is. The data is a
length, and so is what `sendfile` lets follow the head (`FileAnswer`): all of the file or
less, as `on_sendfile` does not send the rest. `Framing` are the headers that mean
something to the client and nothing to guava.
`Swallowed` are the lines that a cut line may run into: headers stand in the order of
a hash table, which is any order. `Understood` compares what the client takes for the
body with what was sent behind the head.

*GuavaDispatch.* One `Begin` for both callers of the same algorithm,
`on_message_complete` and `Server.route`; `byPython` tells where they differ (the
latter returns `None` at once if no built-in router matches, and neither asserts nor
answers). `nrouters` is read once, before any route method runs; an overridden route
method may take its own router from the list, controllers may add routers. `holder`
is `handler->router`. `Writes` are the methods of Controller that write the response,
with any of the headers (`Headers`) and status codes (`Statuses`, taken modulo 65536) and
with cookies and locations of every kind; `Calls` are those of them that add no more than
`MaxEffects` kinds of harm to the answer. `ServeStatic` includes the directory that cannot
be read: the loop over its entries compares a negative result with a `size_t` and walks
a NULL.
`held` and `lost` count references to handlers. The application is assumed not to set
the status 500 by itself. Names used after `Py_DECREF` to print an error are not
modelled; the branch ends in 500.

*GuavaStatic.* `table` is the descriptor table; `accept` and `open` take the lowest
free number; `uv_close` on a stream closes its descriptor at once. A job of the pool
is the pair of numbers given to `uv_fs_sendfile`; a thread looks them up when it
runs. The socket may take a file as a whole, in part or not at all.

*GuavaStores.* A SessionStore object owns a structure; a router that was given one
keeps the pointer to the structure, takes a reference to the object that it never
gives back, and frees the structure in its destructor. `memory` is the structure,
`storeRefs` the references to the object, `routerRefs` those to a router.
`add_router` takes one reference more than it gives back. `Stray` is what is read
where `session_store=None` has no structure: Py_None is taken for a SessionStore. An
application's own subclass of SessionStore has no structure and gives a router none.
Code of the application runs before the server does and inside a request (`AppRuns`).
The use of freed memory, and a second free, end in `"undefined"`.

*GuavaSession.* The dispatch of one request, seen from its session, while other
clients' requests lie in between: `Load` is the getter of `SESSION`, `Modify`, `Login`,
`Rotate`, `Clear` and `Delete` are what actions do with the dict and the store,
`Finish` and `Fail` the two ends. `items` and `session` refer to `dicts`, so that the
in-memory store and a controller can have the same one; `files` are those in `/tmp`,
one place for all file stores (the steps inside a file operation are
`GuavaFileStore`'s). `Place(s)` is where a store keeps its sessions: itself, or `Tmp`. `pending` is the error indicator of the interpreter, left set by
a failed unmarshal or a failed `PyDict_DelItemString`; it comes up in some later call
(`Fail`) or is cleared by one (`ClearError`). A cookie need not hold an id that the server
made: `Strange` are the other names, of an earlier run or made up, under which `/tmp` may
have a file from the start, readable or not; `ArriveAs` is a request with such a cookie.
`CutShort` is a set by another process that got no further than `fopen`, which leaves the
file of a session empty. `left`, `attached`, `orphans`, `made`,
`reused` and `damage` are history variables. `MakeId` may give any id, one made before
too: the time, the process id and a random number seeded by the microseconds are all
there is in it.

*GuavaFileStore.* A session file is truncated by `fopen("wb")`, then written by one
`write` (sessions fit into a stdio buffer), wherever the file is by then: it may have
been unlinked. `Odd` contents are those marshal cannot write.

### Code outside the repository

libuv, http-parser, CPython, browsers and the operating system are modelled from how
the code uses them; the map marks those definitions external. What is assumed: one
callback at a time; the write callback of a cancelled write runs before the close
callback; a write that libuv finished at once is called back before more input is
read; a strict http-parser accepts no message after one that is not keep-alive.

## 3. Runs

| Run | Instance | Shows |
| --- | --- | --- |
| `conn_pipelining` | 2 connections, `Pipelining = TRUE` | `CloseOnce`, `RequestAlive`, `LastRequestReclaimed`, `ResponseOwned`, `ReuseNeedsPipelining`, `ClosesAfterLastAnswer` |
| `conn_serving` | clients that wait, with fairness of closing | `ImplementsServing` (refinement) and `LastAnswerCloses` (if the last answer's write ends) |
| `codec` | all texts of up to 5 chars over `SP % & + 5 ; = a` | scanners against definitions that look at each field by itself; which cookies come back |
| `assembly` | three kinds of messages, one with a query and a form that are not well formed, two in a row, every cut, also right behind an element | what depends on segmentation (`HeadersTruncatedAtWorst`, `FaultNeedsCut`) and what does not (`BodyAsWhole`, `UncutExact`) |
| `routing` | all URLs of up to 8 chars over `/ ? a b`, 5 lists of routers, 4 mount points, a buffer that URLs of 8 chars do not fit into | longest match, the MVC handler spells the path, second routing |
| `rest_table` | URLs of up to 5 chars | **violated**: `GET /users` |
| `dispatch` | up to 3 of 6 routers, 6 requests (one HEAD, one with a URL longer than the buffer), 2 handlers of an overridden route, 5 headers, a status without a body, 2 calls; 5.8 million states | one answer, 500 exactly on failure, session last, special routes first, handlers given back; when a client misreads an answer, data is lost, the process dies |
| `assert_handler` | the same | **violated**: no router takes the request |
| `sessions` | 1 store, 2 routers, 2 clients, 3 ids and a strange one, 3 contents, 5 dicts; 250 thousand states | whose end frees a store in use; what a client finds in its session; where the session is saved; what leaves an error behind |
| `static_files` | 2 connections, 5 descriptors, 2 requests each | when a file can go astray, overtake its head, be waited for in vain |
| `static_close` | the same | **violated**: connection closed before its file is sent |
| `file_store` | 2 processes, 2 ids, 3 contents, 4 files | the file store implements `SessionKV` |

Why the bounds are enough: connections share nothing but the process, so two show
every interaction; two messages per connection show what one leaves for the next
(three where pipelining lets an answer be in flight while another request is
complete and a third begins); the scanners keep no state but a position, and five
chars hold two fields with an empty one; four files let an unlinked file live on
while its id and the other id have new ones, and let a number be used again. Three
routers let a custom one stand before, between and behind two of others; two calls
show what the first leaves in the list and in a Request routed twice; one kind of harm
to an answer (`MaxEffects`) shows each cause of a misread answer by itself, and that a
cause is there at all is proved for any number. Two routers
share the store, and one of them can go while the other is listed or serving; stores
share nothing but `/tmp`, where one store with three ids already meets itself, and
what is proved of sessions holds for any number of stores. Three
ids are two clients' and one made at the end of a request; once one is made twice
(`Followed`) sessions are no longer followed: two clients may then have the same.
Five dicts are one for each id, `SESSION` and a new one. `MCSession!Bound` keeps the
two questions apart: lifetimes of any kind while nobody has a session, and sessions
on a server whose router stays, until an id is made twice; `SessionsFollowLives` and the proofs of section 4
join them. It also keeps at most one unreadable file at a time, and none with all three ids made
(`OneBadFile`): a second one does to another id what the first does to its own. `CHECK_DEADLOCK` is off where counters end a run (requests, URL length,
ids) and after the process has ended.

Every property has a mutant in `PROJECT.json`: an operator of the same module, marked
as a variant, with a plausible bug that the property must notice.

### What the properties about sessions, stores and answers say

* `ClientReadsItsSession` – with an in-memory store a client's next request finds the
  dict itself as all requests it came to have left it, the failed ones too; with a file
  store only what was set at login or by `clear`: what an action changes in
  `SESSION` never comes back, and nothing is found once another process has cut the file
  short. With several stores, each is read for itself, but all
  file stores are one. `SavedWhereNobodyLooks` says why: the session is saved
  under an id made for it (`if (sid)` in `guava_request.c:490` tests a pointer that was
  just set to NULL), which is sent to nobody.
* `ListedStoreLives`, `AddedRoutersLive`, `UndefinedNeedsDeadRouter` – the missing
  `Py_DECREF`s are what keeps a server alive: a router that went through
  `add_router` is never destroyed, and letting go of a store does no harm. Freed memory
  is used only after a router that was appended to `server.routers` by hand, or never
  listed, has been destroyed, or with `session_store=None`.
* `InnocentFailureNeedsDamage` – an error that comes up in an innocent action, of
  another client even, was left by one of four: a value marshal cannot write, put into a
  file store; an unknown id, deleted from an in-memory one; a session file left empty
  by a set that got no further than `fopen`; a cookie that names a file which is no
  session.
* `MisreadNeedsCause` – when a client that keeps its connection can take part of an
  answer for the next one: after HEAD or CONNECT; when `sendfile` fell short of the
  Content-Length; and after what an application did: a status without a body, a header or
  location too long for the buffer, a CR LF in a header, location or cookie, a
  Transfer-Encoding or a Content-Length in another spelling, or a Content-Length that is
  not the length of what it wrote, if only because the text of a 500 replaced that.
  Redirects, 404 and 500 texts, listings and data that a controller just writes are read
  as they are meant.
* `DataLostOnlyByFailure` – written data and its memory is lost only under a 500.
* `DeathNeedsCause` – what brings the process down between a complete request and its
  answer. A client alone can: with a URL too long for the buffer of the best match, or
  with one that a REST router has nothing for (its None is used as a Handler, or a NULL
  inside it). So can a directory that cannot be read, if only because no descriptor is left. The others
  need the application: a constructor that raises, an overridden route method that
  raises or shortens the list, a StaticHandler from a custom router, an MVC router that
  does not find its mount point in the path because that has a `?` or because an earlier
  routing has cut the path of the Request that Python routes once more.
* `FaultNeedsCut` – a well-formed message, arriving whole, is never read out of bounds:
  it takes a segment boundary in the URL, in the Cookie value or in the name of a form
  field. The parser stops only at a header name with a boundary in it or right behind
  it. `UncutExact` says what a boundary right behind the URL does: URL and path are empty,
  the query is there. A message that is not well formed may do it by itself (`NegativeExactly` and
  `OverrunExactly` say which).

### Fairness

Only `conn_serving` uses it: weak fairness, for every connection, of `OnWriteCancelled`
and `OnClose`. Once a stream is closing these depend on nobody: `uv_run` hands back the
write that was not finished and then runs the close callback. There is no fairness of
`OnWrite`: guava sets no timeout on a write, so a client that stays connected and never
reads keeps its answer, its Request and its connection for ever. `LastAnswerCloses`
therefore names what it needs, as an assumption on the one connection it is about: its
write ends (`WF_vars(OnWrite(c))`), because the client reads or is seen to be gone. Of what
else that client sends, and of the other clients, which may stall, nothing is assumed.
`ImplementsServing` promises no progress. Sessions, dispatch and files have no liveness to
state: whether an action returns is the application's business, and a sendfile that
fell short is not tried again (`WaitingHasJob`).

### Disagreements found

1. `RESTTable` – README.md:142 promises `GET /users`; `guava_router_rest.c:60-72`
   computes with the NULL of `strchr` unless a slash follows the resource.
2. `HandlerAsserted` – `guava_request.c:382` asserts a handler that is NULL when no
   router takes the request; the 404 branch at 385-392 is reached for it only in builds
   with `-DNDEBUG`.
3. `ServedBeforeClose` – README.md:271-277 compares the static server with
   SimpleHTTPServer; without keep-alive, `on_write` closes the connection while
   the sendfile of its answer may still be waiting for a thread.

Also described by properties that hold: with pipelining a `write_req` is reused while
libuv owns it (`ReuseNeedsPipelining` says only then); a header value cut by TCP is
truncated and a header name whose end comes in another segment stops the parser; a `&a&b=c` query hands a NULL to
Python; a second routing of the same Request loses action and arguments; saved
sessions are found by nobody; a file store keeps nothing an action writes into
`SESSION`.

## 4. Proofs

Every proof holds for any size of the instance; the assumptions are the named
`ASSUME`s of the modules: `ConnAssumption`, `DispatchAssumption`, `StoresAssumption`,
`SessionAssumption`, `StaticAssumption`, `FileStoreAssumption` say that special values
are not ordinary ones and bounds are numbers, `BufferAssumption` that the size of a buffer is one, `SendsAssumption` that messages are made
of texts, with a URL and names that are not empty (http-parser rejects others), and
`CodecAssumption` that texts are made of numbers. The properties are seldom
inductive; each module has an invariant that is, first checked with TLC.

**Connections** (`GuavaConnProofs`): all seven invariants of `conn_pipelining`, for
both values of `Pipelining`. `IInv` adds, per connection:

* `StreamInv` – which stream states go with which history of closing, and that
  nothing is in flight on a freed stream (for `CloseOnce`, `ResponseOwned`);
* `AnswerInv` – requests not begun or not complete have no answer, and, before the
  first undefined step, the response in flight is `write_req`'s;
* `RefInv` – the exact number of references on the newest Request: two until its
  message is complete, one less for each reference given back;
* `SerialInv` – what holds while the client has not pipelined: nothing in flight
  while a request is being read, earlier answers written, `keep_alive` still that of
  the answer in flight.

There is one lemma per action (`OnConnKeeps`, `OnWriteKeeps`, ...); an action touches
one connection, so each lemma shows that the others keep their conjuncts and then
treats the one that moved. The same module proves `ServesSerially`: without
pipelining, `Spec` implies `ImplementsServing`, which is `HttpServing`'s `Spec` under the
refinement mapping. It uses `IInv`
and `NoOverlap`, one lemma per action saying which abstract step it is, or none.

**Stores and sessions** (`GuavaSessionProofs`): `LifeInv` counts
references exactly: a router has the application's, the list's and the one
`add_router` loses (`RouterInv`); a store at least the application's and one of the
routers that were given it, and while there are any the structure lives unless a
destroyed router took it (`StoreInv`); a router found for a request had a store when
`SESSION` was loaded (`RequestInv`). `SessionsFollowLives` shows that sessions add
nothing to lifetimes (`Spec => LifeSpec`), so the three properties of `GuavaStores`
are proved once and hold of `GuavaSession`. `IdInv` (cookies and saved sessions have
ids that were made, in common none while each was made once) gives
`SavedWhereNobodyLooks`, and keeps strange names out of everybody's jar; `DamageInv` (an
unreadable file under an id that is not strange, or under the one of the request's cookie,
needs damage, and a request that loaded has a dict) gives `InnocentFailureNeedsDamage`.

`ClientReadsItsSession` is about what lies between the requests of one client, and its
invariant `ClientInv` says who may refer to what until an id is made twice: clients
have different ids, and stores different dicts for them (`Apart`); an id not yet made
has nothing anywhere (`UnmadeUnused`); what a client left in a store is what its id has
there (`LeftThere`); and, while a request is served, its cookie is the client's, or a
strange one given to a file store (`CookieKnown`), and `SESSION` the very dict of the store or a copy of the file
(`SessionKnown`). Two facts about the heap carry the steps: a change to a dict is seen
under one id only (`OtherIdsKeep`, `OwnIdEmptied`), and a new id disturbs none
(`NewIdKeeps`).

**Dispatch** (`GuavaDispatchProofs`): three invariants, each using the one before.
`DispatchInv` gives every place of `on_message_complete` its fact about the answer:
nothing has been done to the response before a controller runs (`Fresh`), its data is
what the methods wrote (`Working`), the status tells whether one failed (`Outcome`), and
which methods have returned (`RanBefore`). From it `AnsweredOnce`, `FailureIs500`,
`SavedAfterAll` and `DataLostOnlyByFailure`. `RouteInv` does the same for the way to the
handler: at the best match the list is the one that was counted (`AtBest`), the loop over
custom routers has passed none that has the URL (`InLoop`), a StaticHandler comes from
a static router or the application, and how many references to handlers are held at
each place (`AtCheck`, `Answering`). From it `SpecialRoutesFirst`, `DeathNeedsCause` and the
action property `LostOnlyWhenReplaced`. `WireInv` follows the head of the response:
that its lines are of the kinds the history `did` accounts for (`Clean`, `Heads`), whether
its length is told, and whether it is the length of what follows (`Agrees`,
`OwnLength`), and gives `MisreadNeedsCause`.

**Texts** (`GuavaTextProofs`, `GuavaCodecProofs`): the scanners are recursive functions
over the positions of a text. That such a function is what its equation says is not
free: `DownwardRecursion` proves that a recursion that only looks further on has a
solution, `PairsFromSolves` and `QueryFromSolves` that it is the only one. Induction is
over sets of positions (`UpwardInduction`, `DownwardInduction`, from the library's
theorem on minimal elements), so no operator has to be passed to a theorem. What a round
of the scanner does is said once, in words of the text (`FieldAt`, `NameOverruns`,
`NothingLeft`; `FieldOrEnd`, `FieldTaken`, `QueryRound`). From there: `OverrunsExactly`
(the scanner leaves a text exactly if something other than spaces stands behind the
last separator after the last `=`), `PairsAreFields` (a well-formed list gives the pairs
of its fields in their order, but for an empty value at its very end),
`NegativesExactly` and `QueriesAreFields` (the NULL of a query, and what GET holds
otherwise), each for texts of any length over any characters.

`DecodesInvertEncode` needs that two digits make up their char again (`LowBits`,
`HighBits`, `EscapeBack`), that what is decoded from a position on depends only on what
stands there (`DecodeBehind`), so that decoding what was written for a char gives that
char and then what the rest gives (`DecodeEscaped`), and an induction from the end of the
text. `CookiesComeBack` follows a cookie around: `Sendable` says what a browser can keep.
Whatever its attributes, the Set-Cookie line begins with name, `=` and value and ends or
goes on with a space and a `;` (`CookieTextIs`); of such a line the browser keeps just
that if it is sendable (`KeptAsSet`), and of any line nothing that is not
(`KeptSendable`); the header it writes is parsed into the cookies it is made of, but for
an empty value at the end (`OneCookieParsed`, `TwoCookiesParsed`).

**Routing** (also `GuavaCodecProofs`, which assumes of mount points and lists only
`RoutingAssumption`: a mount point is a text that is not empty and has no `?`).
`LongestMounts`: for a URL that fits into the buffer, the loop over ever shorter prefixes finds the earliest router of the
longest mount point that the URL starts with, and one whenever there is any, because
mount points end with a slash (`LongestMatch` in `GuavaTextProofs`, for all lists); and
since they have no `?`, the path without its query begins with it as well.
`HandlersSpellPaths`: the recursion of `strtok_r` gives the fields of the path that are
not empty, in their order; `SegmentsRight` says so of the rest of the path from any
position, and `NoSegment`, `LastSegment` and `SomeSegment` are the three ways a call
can end. `SecondRoutings`: `strstr` finds a mount point in the cut path where it found it
in the whole one, because the cut lies behind its first occurrence (`Occurs`,
`FirstOf`), and what is left behind it is one segment (`OfFirst`).

**Assembly** (`GuavaAssemblyProofs`): `AssemblyInv` relates a Request that is being filled
to the message and the place in it: where the parser is and which elements can have
been cut or have had a boundary behind them (`PlaceInv`), what the two `auxiliary_` fields hold there (`FlagInv`: the flag is
set in and right behind a name and nowhere else, and before a value the name is kept), that a message
gets past its names only if no second callback came for one (`NamesWhole`), that the dictionary of headers
is that of the values begun so far, each cut one a beginning (`HeadersInv`), that URL,
host and cookies come from this message alone (`UrlInv`, `LookupsInv`) and the body is
what was sent so far, parsed once per piece (`BodyInv`). From it all four properties.
That many parses of a growing body leave what one parse of the whole makes of it rests on
`NamesOfPrefix` (a body cut anywhere gives no name that the whole does not give) and
`PutAgain` (a dictionary forgets what is put again).

**Static files** (`GuavaStaticProofs`): `StaticInv` says that an open stream has its
own descriptor (`SocketInv`), that a connection has at most one sendfile in the pool
(`JobInv`), and, until a stream is closed under its sendfile, that the numbers in the
pool stand for what they stood for, that everybody received only what was his, and
that the head came right before (`OrderlyInv`). From it all three properties of
`static_files`. That the lowest free number exists is `LeastNumber`, from the library's
theorem on minimal elements.

**File store** (`GuavaFileStoreProofs`): `FileStoreKeepsPromise` is
`Spec => ImplementsSessionKV`, so what `SessionKV` promises holds of any number of
processes, ids, contents and files. `FileInv` adds to the types that a file has one id
for as long as it is in the directory or open (`OwnerInv`: without it a late write
could put a session under another id) and that a reader has seen what its file holds
(`SinceInv`: so what it answers is among what it may answer). One lemma per action
says which step of `SessionKV` it is: the `fopen` of a set may lose the session, its
write is the set, an unlink is a loss.

What proofs corrected: `DeathNeedsCause` as first stated was false for a `Server.route`
that finds the path of its Request cut, and for an MVC router mounted with a `?`;
`ClientReadsItsSession` was false with more than one store (a file session can be read,
changed and left behind through another store); `CookieComesBack` when the second cookie of
the header has the first one's name and replaces it in `COOKIES`. TLC's instances had been too
small for each; the statements now say what the code does, and all are proved.

Only model-checked is liveness, which the prover cannot show: `LastAnswerCloses`.

## 5. Not modelled

* Attributes assigned to objects that exist: a router's mount point, package or table
  of routes, a Handler's names, a Cookie's fields. A Controller made by hand, outside
  of a request. Both are Python code that guava's own code never runs.
* What the process does after its stack was overwritten by a URL too long for the best
  match (`guava_router.c:86`): it ends in `"undefined"`. Other buffers, for paths and
  package names.
* Cookies with an id that is another client's (whoever knows it shares the session), and
  strange ids sent to an in-memory store, which has nothing under them. Files in `/tmp`
  that marshal reads as something other than a dict. What another process writes into a
  session's file after the `fopen` of `CutShort`: `GuavaFileStore` has both halves.
* `Controller.set_cookie` with `expired` or `max_age`: its keyword list is longer than
  its format, and such a call raises. `gc_time` and `cookie_time` of a store are kept
  and never read.
* HTTP upgrades (http-parser then hands the connection over, guava ignores it) and
  failures of `malloc`, `uv_accept` and `uv_write` themselves.
* Mime types (a constant table), the memory and string wrappers (no behaviour of their
  own), type tables and attribute getters of the Python module, benchmarks, examples.

## 6. Plan

Done: the modules and proofs above. Every property of a passing run that is not about
liveness is proved. What could come next widens the model: properties of escapes that are
cut short or give a NUL, and attributes assigned to routers and cookies that exist
(section 5).
