---------------------------- MODULE MCDispatch ----------------------------
(***************************************************************************)
(* GuavaDispatch with a pool of routers of every type: MVC at "/" with a   *)
(* session store, REST at "/a/" without, static at "/s/", a custom router  *)
(* with two routes and one with another handler for the same URL, and one  *)
(* whose route method is overridden.                                       *)
(***************************************************************************)
EXTENDS GuavaDispatch

Page(m) == [kind |-> "page", module |-> m, class |-> m, action |-> m, args |-> <<>>]

UrlB == <<SLASH, 98>>                                   \* /b
UrlA == <<SLASH, 97, SLASH, 98>>                        \* /a/b
UrlAX == <<SLASH, 97, SLASH, 98, SLASH, 49>>            \* /a/b/1
UrlLong == <<SLASH, 97, SLASH, 98, SLASH, 49, 49>>      \* /a/b/11, longer than the buffer
UrlS == <<SLASH, 115, SLASH, 120>>                      \* /s/x

Mvc == MVCRouter(<<SLASH>>, TRUE)
Rest_ == RESTRouter(<<SLASH, 97>>, FALSE)
Static == StaticRouter(<<SLASH, 115>>, FALSE)
Special == Router([u \in {UrlB, UrlS} |-> IF u = UrlB THEN Page(<<109>>) ELSE [kind |-> "redirect"]], FALSE)
Other == Router([u \in {UrlB} |-> [kind |-> "redirect"]], FALSE)
Own == Router(<<>>, TRUE)

AllRouters == {Mvc, Rest_, Static, Special, Other, Own}

AllRequests ==
    {[method |-> "GET", url |-> u] : u \in {UrlB, UrlA, UrlAX, UrlS, UrlLong}}
    \cup {[method |-> "HEAD", url |-> UrlAX]}

SomeHeaders ==
    {[name |-> "Content-Length", line |-> Line(1)], [name |-> "content-length", line |-> Line(1)],
     [name |-> "Transfer-Encoding", line |-> Text], [name |-> "X", line |-> LongLine],
     [name |-> "X", line |-> BrokenLine]}

Handlers == {[kind |-> "static"], [kind |-> "blank"]}
============================================================================
