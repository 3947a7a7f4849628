----------------------------- MODULE MCRouting -----------------------------
(***************************************************************************)
(* GuavaRouting on every short URL, which grows like the texts of MCCodec, *)
(* and some lists of routers.                                              *)
(***************************************************************************)
EXTENDS GuavaRouting, MCCodec

CONSTANTS
    MountPoints,   \* what routers are mounted at
    Lists          \* lists of routers a server may have

AsRouter(mount) == MVCRouter(mount, FALSE)

Custom == Router(<<>>, FALSE)

\* Only the mount points matter of a list; a '?' cannot be in a path.
ASSUME RoutingAssumption ==
    /\ \A m \in MountPoints : m \in Seq(Int) /\ m # <<>> /\ ~ Contains(m, QM)
    /\ Lists \subseteq Seq({AsRouter(m) : m \in MountPoints} \cup {Custom})

\* "/", "/a", "/a/b/" and "a" in several orders, one twice and one custom.
Points == {<<SLASH>>, <<SLASH, 97>>, <<SLASH, 97, SLASH, 98, SLASH>>, <<97>>}

SomeLists ==
    LET root == AsRouter(<<SLASH>>)
        a == AsRouter(<<SLASH, 97>>)
        ab == AsRouter(<<SLASH, 97, SLASH, 98, SLASH>>)
        noSlash == AsRouter(<<97>>)
    IN  {<<root, a, ab>>, <<ab, a, a, root>>, <<noSlash, a>>, <<Custom, root, ab, a>>, <<>>}

----------------------------------------------------------------------------
Prefixing(list) == {j \in DOMAIN list : list[j].type # "custom" /\ IsPrefix(list[j].mount, text)}

\* The best match for an URL that fits into the buffer is the longest mount
\* point that the URL starts with, the earliest of the routers mounted there,
\* and there is one whenever any mount point is a prefix of the URL; it was
\* matched against the URL with its query, but begins the path, too.
LongestMount ==
    Fits(text) => \A list \in Lists :
        LET best == BestRouter(list, text)
        IN  /\ best = 0 <=> Prefixing(list) = {}
            /\ best # 0 => /\ best \in Prefixing(list) /\ StrStr(Path(text), list[best].mount) = 1
                           /\ \A j \in Prefixing(list) :
                                 \/ Len(list[j].mount) < Len(list[best].mount)
                                 \/ list[j].mount = list[best].mount /\ best <= j

\* Where the pieces of a path between slashes begin, but for empty ones.
PieceStarts(s) == {i \in Starts(s, SLASH) : Field(s, SLASH, i) # <<>>}

\* Module, action and arguments of the MVC router are the pieces of the path
\* behind the mount point: nothing is lost, doubled or moved.
HandlerSpellsPath ==
    \A m \in MountPoints :
        LET route == MVCRoute(AsRouter(m), text)
            rest == Rest(MountPoint(m), text)
            pieces == [i \in PieceStarts(rest) |-> Field(rest, SLASH, i)]
            h == route.handler
            n == Cardinality(DOMAIN pieces)
        IN  route.end = "handler" =>
                /\ n >= 2 => InOrder(<<h.module, h.action>> \o h.args, pieces)
                /\ n < 2 => h.action = Index /\ h.args = <<>>
                /\ n = 1 => InOrder(<<h.module>>, pieces)
                /\ n = 0 => h.module = Index

\* MVC routing cuts the path of the request at the end of its first segment:
\* routing the same request a second time finds the same module but always the
\* action index and no arguments.
SecondRouting ==
    \A m \in MountPoints :
        LET first == MVCRoute(AsRouter(m), Path(text))
            second == MVCRoute(AsRouter(m), first.path)
        IN  first.end = "handler" =>
                /\ IsPrefix(first.path, Path(text))
                /\ second = Made([first.handler EXCEPT !.action = Index, !.args = <<>>], first.path)

\* The table of the RESTRouter in the README, for any resource: GET /users is
\* get_all, GET, DELETE and PUT /users/10 are get_one, delete_one and
\* update_one, POST /users/ is create_one.
RESTTable ==
    LET root == AsRouter(<<SLASH>>)
        Is(method, action) ==
            LET r == RESTRoute(root, method, text) IN r.end = "handler" /\ r.handler.action = action
        seg == Segments(text)
    IN  /\ (Len(seg) = 1 /\ text = <<SLASH>> \o seg[1]) => Is("GET", "get_all")
        /\ (Len(seg) = 2 /\ text = <<SLASH>> \o seg[1] \o <<SLASH>> \o seg[2]) =>
              Is("GET", "get_one") /\ Is("DELETE", "delete_one") /\ Is("PUT", "update_one")
        /\ (Len(seg) = 1 /\ text = <<SLASH>> \o seg[1] \o <<SLASH>>) => Is("POST", "create_one")
============================================================================
