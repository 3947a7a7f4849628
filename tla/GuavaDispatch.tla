--------------------------- MODULE GuavaDispatch ---------------------------
(***************************************************************************)
(* What guava does with a request that is complete:                        *)
(* guava_request_on_message_complete from the routing to the answer, and   *)
(* Server.route, the Python method that routes a Request by hand.  Python  *)
(* code of the application runs in between (overridden route methods, the  *)
(* controller's module, constructor and actions); it may raise anywhere,   *)
(* and a step for each of these calls says what happened so far.           *)
(***************************************************************************)
EXTENDS GuavaRouting, GuavaResponse

CONSTANTS
    Pool,          \* the routers the application may add
    MaxRouters,    \* bound: routers added
    Requests,      \* the requests of clients: [method, url]
    UserHandlers,  \* the handlers an overridden route method may return
    Headers,       \* the headers controllers set: [name, line]
    Statuses,      \* the status codes they set
    MaxEffects,    \* bound: kinds of harm the calls of a controller do to one answer
    MaxCalls       \* bound: requests dispatched and calls of Server.route

ASSUME DispatchAssumption ==
    /\ MaxCalls \in Nat /\ MaxEffects \in Nat /\ MaxRouters \in Nat
    /\ \A r \in Pool : /\ r.type \in {"mvc", "rest", "static", "custom"}
                      /\ r.mount \in Seq(Int)
                      /\ r.store \in BOOLEAN /\ r.overrides \in BOOLEAN
                      /\ (r.overrides => r.type = "custom")
                      /\ (r.type = "custom" => ~ r.store)
    /\ \A q \in Requests : q.url \in Seq(Int)
    /\ \A h \in Headers : h.line.kind \in {"fits", "long", "crlf"} /\ h.line.number \in Int
    /\ Statuses \subseteq Int /\ \A code \in Statuses : code % 65536 # 500

VARIABLES
    process,       \* "up", "asserted", "crashed" (bad pointer), "undefined"
    routers,       \* server->routers, in the order they were added
    listening,     \* the server was started
    at,            \* where the function is, "idle" between calls
    calls,         \* calls made
    byPython,      \* the call is Server.route, not the parser's callback
    req,           \* the request: method, url, path
    nrouters,      \* the length of the list, read before any route method runs
    next,          \* the router the loop over custom routers looks at
    handler,       \* the handler in hand, NoHandler for NULL
    holder,        \* handler->router
    resp, sent,    \* the response, times it was sent
    session,       \* c->SESSION: NULL, set, or set and saved in the store
    \* History:
    ran,           \* the controller's methods that returned
    failed,        \* an application step failed
    did,           \* what was done to the response, by Effects and below
    wrote,         \* bytes it wrote
    held,          \* references to handlers the function took and not gave back
    lost           \* those left when the function returned, over all calls

routing == <<req, nrouters, next, handler, holder, held>>
response == <<resp, sent>>
user == <<session, ran, failed, did, wrote>>
server == <<routers, listening>>
vars == <<process, server, at, calls, byPython, routing, response, user, lost>>

NoRequest == [method |-> "GET", url |-> <<>>, path |-> <<>>]

NoHandler == [kind |-> "NULL"]
NoHolder == [type |-> "NULL"]

Init ==
    /\ process = "up" /\ routers = <<>> /\ listening = FALSE
    /\ at = "idle" /\ calls = 0 /\ byPython = FALSE
    /\ req = NoRequest
    /\ nrouters = 0 /\ next = 0 /\ handler = NoHandler /\ holder = NoHolder
    /\ resp = NewResponse /\ sent = 0
    /\ session = "NULL" /\ ran = <<>> /\ failed = FALSE /\ did = {} /\ wrote = 0
    /\ held = 0 /\ lost = 0

At(here) == process = "up" /\ at = here

Goto(there) == at' = there /\ UNCHANGED process

Die(how) == process' = how /\ UNCHANGED at

----------------------------------------------------------------------------
(* The list of routers. *)

Default == StaticRouter(<<SLASH>>, FALSE)

\* Server.add_router, before the server runs or in code of a controller.
AddRouter(r) ==
    /\ (At("idle") /\ ~ listening) \/ At("action")
    /\ Len(routers) < MaxRouters /\ nrouters < MaxRouters
    /\ routers' = Append(routers, r)
    /\ UNCHANGED <<process, listening, at, calls, byPython, routing, response, user, lost>>

\* guava_server_start: without routers there is a StaticRouter at "/".
Start ==
    /\ At("idle") /\ ~ listening
    /\ listening' = TRUE
    /\ routers' = IF routers = <<>> THEN <<Default>> ELSE routers
    /\ UNCHANGED <<process, at, calls, byPython, routing, response, user, lost>>

----------------------------------------------------------------------------
(* Routing. *)

Begin(python) ==
    /\ At("idle") /\ calls < MaxCalls
    /\ Goto("best")
    /\ calls' = calls + 1
    /\ byPython' = python
    /\ nrouters' = Len(routers) /\ next' = 1
    /\ handler' = NoHandler /\ holder' = NoHolder /\ held' = 0
    /\ resp' = NewResponse /\ sent' = 0
    /\ session' = "NULL" /\ ran' = <<>> /\ failed' = FALSE /\ did' = {} /\ wrote' = 0
    /\ UNCHANGED <<server, lost>>

NewRequest(r) == [method |-> r.method, url |-> r.url, path |-> Path(r.url)]

\* The parser has completed a request of a client.
OnMessageComplete(r) ==
    /\ Begin(FALSE) /\ listening
    /\ req' = NewRequest(r)

\* Python calls Server.route before the server runs, with a Request made there
\* or again with the Request of the last call.
ServerRoute(r) ==
    /\ Begin(TRUE) /\ ~ listening
    /\ \/ req' = NewRequest(r)
       \/ calls > 0 /\ UNCHANGED req

\* What calling the route method of router r may give.
Results(r) ==
    IF r.overrides
      THEN {None(req.path), [end |-> "raise", path |-> req.path]}
           \cup {Made(h, req.path) : h \in UserHandlers}
      ELSE {Route(r, req.method, req.url, req.path)}

Take(r, result) ==
    /\ req' = [req EXCEPT !.path = result.path]
    /\ IF result.end = "handler"
         THEN handler' = result.handler /\ holder' = r /\ held' = held + 1
         ELSE UNCHANGED <<handler, holder, held>>

\* The best matched router routes; its result is used as a Handler whatever it
\* is: NULL after an exception, None if it made no handler.  An URL that does
\* not fit into the buffer is written beyond its end, over the stack.
RouteBest ==
    /\ At("best")
    /\ LET best == BestRouter(routers, req.url) IN
        IF ~ Fits(req.url) THEN Die("undefined") /\ UNCHANGED routing
        ELSE IF best = 0
          THEN /\ Goto(IF byPython THEN "none" ELSE "custom")
               /\ UNCHANGED routing
          ELSE \E result \in Results(routers[best]) :
                  /\ Take(routers[best], result)
                  /\ UNCHANGED <<nrouters, next>>
                  /\ CASE result.end = "handler" -> Goto("custom")
                       [] result.end = "none" -> Die("undefined")
                       [] OTHER -> Die("crashed")
    /\ UNCHANGED <<server, calls, byPython, response, user, lost>>

\* One round of the loop over the routers, of which last is to be the last;
\* handled says where it goes on after a custom router has made a handler.
\* Beyond the end of the list there is NULL.  An overridden route method may
\* take its own router from the list.
CustomRound(handled, last) ==
    /\ At("custom") /\ next <= last
    /\ next' = next + 1
    /\ IF next > Len(routers)
         THEN Die("crashed") /\ UNCHANGED <<routers, req, handler, holder, held>>
         ELSE IF routers[next].type # "custom"
         THEN Goto("custom") /\ UNCHANGED <<routers, req, handler, holder, held>>
         ELSE \E result \in Results(routers[next]) :
                 /\ Take(routers[next], result)
                 /\ routers' \in {routers} \cup (IF routers[next].overrides THEN {RemoveAt(routers, next)} ELSE {})
                 /\ CASE result.end = "none" -> Goto("custom")
                      [] result.end = "handler" -> Goto(handled)
                      [] OTHER -> Die("crashed")
    /\ UNCHANGED <<listening, nrouters, calls, byPython, response, user, lost>>

\* Variants: the loop does not stop at the first; it goes on too long.
RouteCustomLast == CustomRound("custom", nrouters)
RouteCustomPast == CustomRound("check", nrouters + 1)

\* The first custom router that makes a handler has it.
RouteCustom == CustomRound("check", nrouters)

Only(action) == action /\ UNCHANGED <<server, calls, byPython, routing, response, user, lost>>

\* The loop ends without a custom handler.
RouteCustomEnd == At("custom") /\ next > nrouters /\ Only(Goto("check"))

\* Server.route returns the handler, or None if no router is mounted there.
ReturnToPython ==
    /\ byPython
    /\ \/ At("none") /\ UNCHANGED lost
       \/ At("check") /\ lost' = lost + held - 1
    /\ Goto("idle")
    /\ UNCHANGED <<server, calls, byPython, routing, response, user>>

\* The assertions.
AssertHandler == At("check") /\ ~ byPython /\ handler = NoHandler /\ Only(Die("asserted"))

----------------------------------------------------------------------------
(* The answer. *)

Checked == At("check") /\ ~ byPython /\ handler # NoHandler

\* Handlers of these kinds have the flag VALID; a Handler object whose __init__
\* was overridden and not called ("blank") has none.
Valid == handler.kind \in {"page", "redirect", "static"}

\* guava_response_send
Send(answer, there) ==
    /\ Goto(there)
    /\ resp' = Finished(answer)
    /\ sent' = sent + 1

Answer(answer, there) ==
    Send(answer, there) /\ UNCHANGED <<server, calls, byPython, routing, user, lost>>

\* Variant: the break is missing.
NotFoundGoesOn == Checked /\ ~ Valid /\ Answer(NotFoundAnswer(resp), "import")

NotFound == Checked /\ ~ Valid /\ Answer(NotFoundAnswer(resp), "cleanup")

\* What may make a client misread an answer with this header.
Effects(name, line) == ({name} \cap ({"Content-Length"} \cup Framing)) \cup ({line.kind} \ {"fits"})

\* A RedirectHandler; its location may be too long for a header, or break it.
Redirect ==
    /\ Checked /\ handler.kind = "redirect"
    /\ \E line \in {Text, LongLine, BrokenLine} :
          /\ Send(RedirectAnswer(resp, line), "cleanup")
          /\ did' = Effects("Location", line)
    /\ UNCHANGED <<server, calls, byPython, routing, session, ran, failed, wrote, lost>>

ToStatic == Checked /\ handler.kind \in {"page", "static"} /\ holder.type = "static"

\* guava_handler_static, by the type of the router: the listing of a directory,
\* empty or not, or 404; the number of entries of a directory that cannot be
\* read, a negative one, is taken for a large one, and there is no first entry.
ServeStatic ==
    /\ ToStatic
    /\ \/ Answer(NotFoundAnswer(resp), "cleanup")
       \/ \E length \in {0, 3} : Answer(ListingAnswer(resp, length), "cleanup")
       \/ Only(Die("crashed"))

\* A file, empty or not, which sendfile sends as far as it comes.
ServeFile ==
    /\ ToStatic
    /\ \E size \in {0, 3} : \E passed \in 0 .. size :
          /\ Send(FileAnswer(resp, size, passed), "cleanup")
          /\ did' = IF passed < size THEN {"short"} ELSE {}
    /\ UNCHANGED <<server, calls, byPython, routing, session, ran, failed, wrote, lost>>

\* A handler for a page names a module; a StaticHandler of a router that is not
\* static has a NULL package, whose length is read.
FindPage ==
    /\ Checked /\ handler.kind \in {"page", "static"} /\ holder.type # "static"
    /\ Only(IF handler.kind = "page" THEN Goto("import") ELSE Die("crashed"))

Fail(answer, there) == failed' = TRUE /\ resp' = ErrorAnswer(answer) /\ Goto(there)

\* Import of the module, lookup of the class, call of the class.  A class that
\* is not a Controller is called all the same; a constructor that raises gives
\* a NULL whose type is looked at.
LoadPage(here, there) ==
    /\ At(here)
    /\ \/ Goto(there) /\ UNCHANGED <<failed, resp>>
       \/ Fail(resp, "send")
       \/ here = "construct" /\ Die("crashed") /\ UNCHANGED <<failed, resp>>
    /\ UNCHANGED <<server, calls, byPython, routing, sent, session, ran, did, wrote, lost>>

Import == LoadPage("import", "class")
Class == LoadPage("class", "construct")
Construct == LoadPage("construct", "before_action")

AfterMethod(m) ==
    CASE m = "before_action" -> "action" [] m = "action" -> "after_action" [] OTHER -> "save"

\* The methods of Controller that write the response: what is left of it, what
\* they do to it, the bytes written.
Writes ==
    {[resp |-> resp, did |-> {}, wrote |-> 0], [resp |-> Write(resp, 1), did |-> {}, wrote |-> 1]}
    \cup {[resp |-> SetHeader(resp, h.name, h.line), did |-> Effects(h.name, h.line), wrote |-> 0] : h \in Headers}
    \cup {[resp |-> SetStatus(resp, code), did |-> {"status"}, wrote |-> 0] : code \in Statuses}
    \cup {[resp |-> SetCookie(resp, "name", line), did |-> Effects("name", line), wrote |-> 0] :
              line \in {Text, BrokenLine}}
    \cup {[resp |-> RedirectAnswer(resp, line), did |-> Effects("Location", line), wrote |-> 0] :
              line \in {Text, LongLine, BrokenLine}}

\* Bounds: one call in each action, a few kinds of harm in all.
Calls == {c \in Writes : Cardinality(did \cup c.did) <= MaxEffects}

\* The application's code in a method may load the session, if the router has
\* a store (without one that raises), may write the response and then returns
\* or raises.
CallMethod(m, there) ==
    /\ At(m)
    /\ session' \in {session} \cup (IF holder.store THEN {"set"} ELSE {})
    /\ \E c \in Calls :
          /\ did' = did \cup c.did /\ wrote' = wrote + c.wrote
          /\ \/ /\ Goto(AfterMethod(m)) /\ resp' = c.resp
                /\ ran' = Append(ran, m) /\ UNCHANGED failed
             \/ /\ Fail(c.resp, there) /\ UNCHANGED ran
    /\ UNCHANGED <<server, calls, byPython, routing, sent, lost>>

\* Variants: after an exception the session is saved; the next method runs.
MethodSaves(m) == CallMethod(m, "save")
MethodGoesOn(m) ==
    /\ At(m) /\ Goto(AfterMethod(m)) /\ ran' = Append(ran, m)
    /\ failed' \in BOOLEAN
    /\ UNCHANGED <<server, calls, byPython, routing, response, session, did, wrote, lost>>

\* before_action, the handler's action, after_action: an exception in one
\* skips the others and the session.
Method(m) == CallMethod(m, "send")

\* guava_session_set under a new id, if SESSION was loaded.
SaveSession ==
    /\ At("save")
    /\ Goto("send")
    /\ session' = IF session = "set" THEN "saved" ELSE session
    /\ UNCHANGED <<server, calls, byPython, routing, response, ran, failed, did, wrote, lost>>

SendPage == At("send") /\ Answer(resp, "cleanup")

\* Variant: no Py_XDECREF(handler).
CleanupKeeps ==
    /\ At("cleanup") /\ Goto("idle")
    /\ lost' = lost + held
    /\ UNCHANGED <<server, calls, byPython, routing, response, user>>

\* Py_XDECREF(handler): of the handlers made, the one in hand is given back.
Cleanup ==
    /\ At("cleanup") /\ Goto("idle")
    /\ lost' = lost + held - 1
    /\ UNCHANGED <<server, calls, byPython, routing, response, user>>

Next ==
    \/ \E r \in Pool : AddRouter(r)
    \/ Start
    \/ \E r \in Requests : OnMessageComplete(r) \/ ServerRoute(r)
    \/ RouteBest \/ RouteCustom \/ RouteCustomEnd \/ ReturnToPython \/ AssertHandler
    \/ NotFound \/ Redirect \/ ServeStatic \/ ServeFile \/ FindPage
    \/ Import \/ Class \/ Construct
    \/ \E m \in {"before_action", "action", "after_action"} : Method(m)
    \/ SaveSession \/ SendPage \/ Cleanup

Spec == Init /\ [][Next]_vars

----------------------------------------------------------------------------
(* Properties. *)

Answered == At("idle") /\ calls > 0 /\ ~ byPython

\* Every request whose dispatch comes to its end is answered, and none twice:
\* each of the exits of the do-while sends once (the second uv_write of the
\* same write_req would be undefined behaviour).
AnsweredOnce == sent <= 1 /\ (Answered => sent = 1)

\* An answer is 500 exactly if a step of the application failed: no failure is
\* answered as a success, and no later step changes a 500.  (Controllers set no
\* 500 themselves: DispatchAssumption.)
FailureIs500 == Answered => (resp.status = 500 <=> failed)

\* The session is saved only after before_action, the action and after_action
\* have all returned, and always then if it was loaded.
SavedAfterAll ==
    /\ session = "saved" => ran = <<"before_action", "action", "after_action">> /\ ~ failed
    /\ Answered /\ session = "set" => failed

IsCustom(r) == r.type = "custom"

\* A special route has precedence over the mount points: the handler is that of
\* the first custom router that has the URL, otherwise of the best match.
SpecialRoutesFirst ==
    (at = "check" /\ nrouters = Len(routers) /\ \A j \in DOMAIN routers : ~ routers[j].overrides) =>
        LET special == {j \in DOMAIN routers : IsCustom(routers[j]) /\ req.url \in DOMAIN routers[j].routes}
            best == BestRouter(routers, req.url)
        IN  holder = IF special # {} THEN routers[Min(special)]
                     ELSE IF best # 0 THEN routers[best] ELSE NoHolder

\* A call loses a reference to a handler only when a custom router has taken
\* over from the best match, whose handler is then never given back.
LostOnlyWhenReplaced ==
    [][lost' # lost => /\ lost' = lost + 1
                       /\ IsCustom(holder)
                       /\ BestRouter(routers, req.url) # 0]_vars

\* On a connection that is kept alive an answer is misread only if
\*   - the client asked for no body;
\*   - sendfile sent less of a file than its Content-Length;
\*   - the application set a status without a body; a header or location too
\*     long for the buffer; a header, cookie or location with a CR LF; a
\*     Transfer-Encoding, or a Content-Length under another spelling, to which
\*     guava adds its own;
\*   - or it set a Content-Length that is wrong, or that was right until a later
\*     step failed and the text of the 500 replaced the data.
\* In particular redirects, 404 and 500 texts, listings, and what a controller
\* only writes are understood, whatever failed.  That the head arrives before
\* the file is a matter of GuavaStatic.
MisreadNeedsCause ==
    Answered /\ ~ Understood(resp, req.method) =>
        \/ req.method \in {"HEAD", "CONNECT"}
        \/ did \cap ({"short", "long", "crlf"} \cup Framing) # {}
        \/ "status" \in did /\ resp.status \notin (200 .. 999) \ {204, 304}
        \/ "Content-Length" \in did /\ (failed \/ resp.headers["Content-Length"].number # wrote)

\* Data that was written is lost, and its memory with it, only under the text
\* of a 500.
DataLostOnlyByFailure == resp.leaked => failed /\ wrote > 0

\* Apart from the assertion, only these of the steps between a complete request
\* and its answer bring the process down: an URL too long for the buffer; a
\* directory that cannot be read; a constructor that raises; a REST router; an
\* MVC router mounted with a '?', or mounted where the path of a Request that
\* Python routes once more has been cut; a custom router whose overridden route
\* method raises or has shortened the list; and a StaticHandler that a custom
\* router gives.  The first needs a client and nothing else, and so does the
\* second when the server has no descriptor left.  The list of routers growing
\* while the server runs does not do it.
DeathNeedsCause ==
    process \in {"crashed", "undefined"} =>
        \/ at = "construct"
        \/ /\ at = "best"
           /\ \/ ~ Fits(req.url)
              \/ LET best == routers[BestRouter(routers, req.url)] IN
                   \/ best.type = "rest"
                   \/ best.type = "mvc" /\ (Contains(best.mount, QM) \/ (byPython /\ req.path # Path(req.url)))
        \/ at = "check" /\ holder.type = "static"
        \/ at = "custom" /\ (nrouters > Len(routers) \/ \E i \in 1 .. Len(routers) : i = next - 1 /\ routers[i].overrides)
        \/ at = "check" /\ IsCustom(holder) /\ handler.kind = "static"

\* The assertion in guava_request_on_message_complete: there is a handler.
HandlerAsserted == process # "asserted"
============================================================================
