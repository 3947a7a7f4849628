--------------------------- MODULE GuavaRouting ---------------------------
(***************************************************************************)
(* Which router takes a request and which handler it makes of it:          *)
(* guava_router_get_best_matched_router and the route functions of the     *)
(* four kinds of router (guava_router/*.c and the Python methods that wrap *)
(* them in guava_module_router*.c).                                        *)
(*                                                                         *)
(* A router is a record with its type, its mount point, whether it has a   *)
(* session store (with memory of its own) and, if custom, its routes, a    *)
(* function from URLs to handlers, and whether its class overrides route.  *)
(*                                                                         *)
(* Routing a path returns how it ended (a handler, Python's None, or a     *)
(* crash), the handler, and what is left of the path: strtok_r writes NULs *)
(* into it.                                                                *)
(***************************************************************************)
EXTENDS GuavaCodec

CONSTANT BufferSize   \* of the buffer for prefixes of the URL, 1024 in the code

ASSUME BufferAssumption == BufferSize \in Nat

Methods == {"GET", "POST", "PUT", "DELETE", "HEAD"}   \* HEAD stands for the other methods

Index == <<105, 110, 100, 101, 120>>                  \* index

\* toupper
ToUpper(c) == IF c \in Lower THEN c - 32 ELSE c

\* The class named for a module, without the suffix Controller all have.
ClassOf(module) == <<ToUpper(Head(module))>> \o Tail(module)

\* guava_router_set_mount_point; mount is not empty.
MountPoint(mount) == IF Last(mount) = SLASH THEN mount ELSE Append(mount, SLASH)

\* The attributes the constructors of the builtin routers set.
Builtin(type, mount, store) ==
    [type |-> type, mount |-> MountPoint(mount), store |-> store, overrides |-> FALSE]

\* The constructors; store is a SessionStore of one of the builtin types, or
\* none was given.
MVCRouter(mount, store) == Builtin("mvc", mount, store)
RESTRouter(mount, store) == Builtin("rest", mount, store)
StaticRouter(mount, store) == Builtin("static", mount, store)
Router(routes, overrides) ==
    [type |-> "custom", mount |-> <<>>, store |-> FALSE, overrides |-> overrides, routes |-> routes]

\* strstr: the first position of t in s, 0 if there is none.
StrStr(s, t) ==
    LET at == {i \in DOMAIN s : IsPrefix(t, SubSeq(s, i, Len(s)))}
    IN  IF at = {} THEN 0 ELSE Min(at)

----------------------------------------------------------------------------
(* The best match. *)

\* The first router of the list, custom ones skipped, mounted at exactly text.
MountedAt(routers, text) ==
    LET at == {j \in DOMAIN routers : routers[j].type # "custom" /\ routers[j].mount = text}
    IN  IF at = {} THEN 0 ELSE Min(at)

\* The prefixes of the URL that end at a '/' or are all of it, and at which a
\* router is mounted, by their lengths.
Cuts(routers, url) ==
    {i \in DOMAIN url : (url[i] = SLASH \/ i = Len(url)) /\ MountedAt(routers, SubSeq(url, 1, i)) # 0}

\* Variant for the mutation checks: shortest prefixes first.
BestRouterShortest(routers, url) ==
    IF Cuts(routers, url) = {} THEN 0 ELSE MountedAt(routers, SubSeq(url, 1, Min(Cuts(routers, url))))

\* The URL and a NUL are copied into the buffer, and nothing asks whether they
\* fit.
Fits(url) == Len(url) < BufferSize

\* guava_router_get_best_matched_router for an URL that fits: longest prefixes
\* first; 0 for NULL.
BestRouter(routers, url) ==
    IF Cuts(routers, url) = {} THEN 0 ELSE MountedAt(routers, SubSeq(url, 1, Max(Cuts(routers, url))))

----------------------------------------------------------------------------
(* The handlers. *)

None(path) == [end |-> "none", path |-> path]
Crash(path) == [end |-> "crash", path |-> path]
Made(handler, path) == [end |-> "handler", handler |-> handler, path |-> path]

\* What a path holds after the mount point, wherever strstr finds that.
Rest(mount, path) == SubSeq(path, StrStr(path, mount) + Len(mount), Len(path))

\* The first position at i or later that holds no '/', 0 if none.
SkipSlashes(s, i) == SelectInSubSeq(s, i, Len(s), LAMBDA c : c # SLASH)

\* One call of strtok_r that begins at i, and those after it, when rest[k] are
\* the segments it finds from k on.
SegmentsAt(s, rest, i) ==
    LET first == SkipSlashes(s, i)
        end == Find(s, SLASH, first)
    IN  IF first = 0 THEN <<>>
        ELSE IF end = 0 THEN <<SubSeq(s, first, Len(s))>>
        ELSE <<SubSeq(s, first, end - 1)>> \o rest[end + 1]

SegmentsFrom(s) == LET from[i \in 1 .. Len(s) + 1] == SegmentsAt(s, from, i) IN from

Segments(s) == SegmentsFrom(s)[1]

\* What a C string of path is after strtok_r has gone over its last part,
\* text: it ends before the '/' that ends the first segment.
CutPath(path, text) ==
    LET first == SkipSlashes(text, 1)
        end == Find(text, SLASH, first)
    IN  IF first = 0 \/ end = 0 THEN path ELSE SubSeq(path, 1, Len(path) - Len(text) + end - 1)

\* Variant: the action is the first argument, too.
MVCHandlerActionTwice(seg) ==
    LET module == IF seg = <<>> THEN Index ELSE seg[1]
    IN  [kind |-> "page", module |-> module, class |-> ClassOf(module),
         action |-> IF Len(seg) < 2 THEN Index ELSE seg[2],
         args |-> SubSeq(seg, 2, Len(seg))]

MVCHandler(seg) ==
    LET module == IF seg = <<>> THEN Index ELSE seg[1]
    IN  [kind |-> "page", module |-> module, class |-> ClassOf(module),
         action |-> IF Len(seg) < 2 THEN Index ELSE seg[2],
         args |-> SubSeq(seg, 3, Len(seg))]

\* Variant: the path is copied before it is cut up.
MVCRouteCopies(router, path) ==
    IF StrStr(path, router.mount) = 0 THEN None(path)
    ELSE Made(MVCHandler(Segments(Rest(router.mount, path))), path)

\* guava_router_mvc_route
MVCRoute(router, path) ==
    IF StrStr(path, router.mount) = 0 THEN None(path)
    ELSE LET rest == Rest(router.mount, path)
         IN  Made(MVCHandler(Segments(rest)), CutPath(path, rest))

\* The action for a method on a resource or, with an id, on an item of it; 404
\* where there is none.
RESTAction(method, item) ==
    CASE method = "GET" -> IF item THEN "get_one" ELSE "get_all"
      [] method = "POST" -> IF item THEN "404" ELSE "create_one"
      [] method = "PUT" -> IF item THEN "update_one" ELSE "404"
      [] method = "DELETE" -> IF item THEN "delete_one" ELSE "404"
      [] OTHER -> "404"

\* The resource ends at slash; the id goes on to the next '/' or the end, and
\* one that is empty counts if a '/' ends it.  A 404 leaves the handler
\* invalid, which the Python method turns into None.
RESTHandler(router, method, path, rest, slash) ==
    LET module == SubSeq(rest, 1, slash - 1)
        hasItem == slash < Len(rest)
        action == RESTAction(method, hasItem)
    IN  IF action = "404" THEN None(path)
        ELSE Made([kind |-> "page", module |-> module, class |-> ClassOf(module),
                   action |-> action, args |-> <<>>], path)

\* guava_router_rest_route.  Without a '/' after the resource its length is
\* computed from a NULL and the id is looked for at address 1; with nothing
\* before the '/' the resource is a NULL whose first character is read.
RESTRoute(router, method, path) ==
    IF StrStr(path, router.mount) = 0 THEN None(path)
    ELSE LET rest == Rest(router.mount, path)
             slash == Find(rest, SLASH, 1)
         IN  IF slash \in {0, 1} THEN Crash(path)
             ELSE RESTHandler(router, method, path, rest, slash)

\* guava_router_static_route
StaticRoute(path) == Made([kind |-> "static"], path)

\* Router_route, the Python method of custom routers: the whole URL, with its
\* query, is looked up.
CustomRoute(router, url, path) ==
    IF url \in DOMAIN router.routes THEN Made(router.routes[url], path) ELSE None(path)

\* The "route" method of a router.
Route(router, method, url, path) ==
    CASE router.type = "mvc" -> MVCRoute(router, path)
      [] router.type = "rest" -> RESTRoute(router, method, path)
      [] router.type = "static" -> StaticRoute(path)
      [] router.type = "custom" -> CustomRoute(router, url, path)
============================================================================
