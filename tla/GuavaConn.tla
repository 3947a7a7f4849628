----------------------------- MODULE GuavaConn -----------------------------
(***************************************************************************)
(* The life of guava's client connections on the libuv event loop: the     *)
(* callbacks of guava_server.c, the http-parser callbacks of               *)
(* guava_request.c that change who owns what, guava_response_send and the  *)
(* on_write callback that frees a response and closes its connection.      *)
(*                                                                         *)
(* The loop is single-threaded, so a callback is one step; the callbacks   *)
(* of one http_parser_execute call are steps of their own because a TCP    *)
(* segment may end between any two of them.  Only the pair                 *)
(* on_headers_complete / on_message_complete of a request without a body   *)
(* is fired by a single byte, so it is a single step.                      *)
(*                                                                         *)
(* A step that is undefined behaviour (a uv_write_t used again while libuv *)
(* still owns it) or that ends the process (SIGINT, a failed assert, a     *)
(* NULL dereference during dispatch) leaves `process' other than "up" and  *)
(* the model says nothing of what follows.                                 *)
(***************************************************************************)
EXTENDS Naturals

CONSTANTS
    Conns,       \* the connections that clients may open
    MaxMsgs,     \* bound: requests begun on one connection
    Pipelining   \* may a client send a request before the previous answer?

ASSUME ConnAssumption == MaxMsgs \in Nat \ {0} /\ Pipelining \in BOOLEAN

VARIABLES
    process,     \* "up", or how the server process ended
    stream,      \* uv_tcp_t conn->stream: none, open, closing (uv_close called), freed
    parser,      \* where conn->parser is in the byte stream
    request,     \* conn->request: number of the newest Request object, 0 is NULL
    refs,        \* Python reference count of every Request object of a connection
    keepAlive,   \* conn->keep_alive
    resp,        \* what became of the response to each request
    writeReq,    \* conn->write_req: the request whose response libuv is writing, 0 is idle
    closes,      \* calls of uv_close on the connection's stream
    \* History, never read by the code:
    closedBy,    \* who made the server call uv_close
    promised,    \* the last response sent carried "Connection: keep-alive"
    overlap      \* the client sent a request before the previous answer was written

conn  == <<stream, parser, request, refs, keepAlive, resp, writeReq, closes>>
ghost == <<closedBy, promised, overlap>>
vars  == <<process, conn, ghost>>

Msgs == 1 .. MaxMsgs

TypeOK ==
    /\ process \in {"up", "exited", "crashed", "undefined"}
    /\ stream \in [Conns -> {"none", "open", "closing", "freed"}]
    /\ parser \in [Conns -> {"idle", "headers", "body", "dead", "error"}]
    /\ request \in [Conns -> 0 .. MaxMsgs]
    /\ refs \in [Conns -> [Msgs -> Nat]]
    /\ keepAlive \in [Conns -> BOOLEAN]
    /\ resp \in [Conns -> [Msgs -> {"none", "sent", "written", "cancelled"}]]
    /\ writeReq \in [Conns -> 0 .. MaxMsgs]
    /\ closes \in [Conns -> Nat]
    /\ closedBy \in [Conns -> {"nobody", "client", "server"}]
    /\ promised \in [Conns -> BOOLEAN]
    /\ overlap \in [Conns -> BOOLEAN]

Init ==
    /\ process = "up"
    /\ stream = [c \in Conns |-> "none"]
    /\ parser = [c \in Conns |-> "idle"]
    /\ request = [c \in Conns |-> 0]
    /\ refs = [c \in Conns |-> [m \in Msgs |-> 0]]
    /\ keepAlive = [c \in Conns |-> FALSE]
    /\ resp = [c \in Conns |-> [m \in Msgs |-> "none"]]
    /\ writeReq = [c \in Conns |-> 0]
    /\ closes = [c \in Conns |-> 0]
    /\ closedBy = [c \in Conns |-> "nobody"]
    /\ promised = [c \in Conns |-> FALSE]
    /\ overlap = [c \in Conns |-> FALSE]

----------------------------------------------------------------------------
(* What several callbacks do. *)

Live(c) == process = "up" /\ stream[c] = "open"

\* uv_close(&conn->stream, guava_server_on_close).
UvClose(c, who) ==
    /\ stream' = [stream EXCEPT ![c] = "closing"]
    /\ closes' = [closes EXCEPT ![c] = @ + 1]
    /\ closedBy' = [closedBy EXCEPT ![c] = who]

\* A variant for the mutation checks: one DECREF too many.
DecRefTwice(c) == refs' = [refs EXCEPT ![c][request[c]] = @ - 2]

\* Py_DECREF of the connection's newest Request object.
DecRef(c) == refs' = [refs EXCEPT ![c][request[c]] = @ - 1]

\* guava_response_send: conn->write_req gets the response and goes to
\* uv_write.  There is one write_req per connection: libuv forbids handing
\* it over again before its callback has run.  The response says keep-alive
\* when the request asked for it.
ResponseSend(c, ka) ==
    /\ resp' = [resp EXCEPT ![c][request[c]] = "sent"]
    /\ writeReq' = [writeReq EXCEPT ![c] = request[c]]
    /\ promised' = [promised EXCEPT ![c] = ka]
    /\ process' = IF writeReq[c] = 0 THEN "up" ELSE "undefined"

\* Variant: a branch of the dispatch that leaves without sending.
MessageCompleteSilent(c, ka) ==
    /\ DecRef(c)
    /\ parser' = [parser EXCEPT ![c] = IF ka THEN "idle" ELSE "dead"]
    /\ UNCHANGED <<process, stream, request, resp, writeReq, closes, ghost>>

\* on_message_complete with a dispatch that reaches guava_response_send
\* (404, redirect, static, 500 and a controller's answer all do), then
\* Py_XDECREF(conn->request).  http-parser, built strict, accepts another
\* message only if this one is keep-alive.
MessageComplete(c, ka) ==
    /\ ResponseSend(c, ka)
    /\ DecRef(c)
    /\ parser' = [parser EXCEPT ![c] = IF ka THEN "idle" ELSE "dead"]
    /\ UNCHANGED <<stream, request, closes, closedBy, overlap>>

----------------------------------------------------------------------------
(* The callbacks. *)

\* guava_server_on_conn: a zeroed guava_conn_t, uv_accept, uv_read_start.
OnConn(c) ==
    /\ process = "up"
    /\ stream[c] = "none"
    /\ stream' = [stream EXCEPT ![c] = "open"]
    /\ UNCHANGED <<process, parser, request, refs, keepAlive, resp, writeReq,
                   closes, ghost>>

\* Variant: the connection is freed at once, without uv_close.
OnReadEofFrees(c) ==
    /\ Live(c)
    /\ stream' = [stream EXCEPT ![c] = "freed"]
    /\ UNCHANGED <<process, parser, request, refs, keepAlive, resp, writeReq,
                   closes, ghost>>

\* guava_server_on_read, nread < 0: the peer closed or the connection broke.
OnReadEof(c) ==
    /\ Live(c)
    /\ UvClose(c, "client")
    /\ UNCHANGED <<process, parser, request, refs, keepAlive, resp, writeReq,
                   promised, overlap>>

\* guava_server_on_read, http_parser_execute stops short (malformed bytes, a
\* callback returning -1, bytes after the last message): "400" goes to stderr
\* and the connection is left as it is, its parser refusing every later byte.
OnReadBad(c) ==
    /\ Live(c)
    /\ parser[c] # "error"
    /\ parser' = [parser EXCEPT ![c] = "error"]
    /\ UNCHANGED <<process, stream, request, refs, keepAlive, resp, writeReq,
                   closes, ghost>>

\* A new Request object with n references replaces conn->request; the
\* reference the connection held on the one before is not given back.
BeginMessage(c, n) ==
    /\ Live(c)
    /\ parser[c] = "idle"
    /\ request[c] < MaxMsgs
    /\ Pipelining \/ writeReq[c] = 0
    /\ parser' = [parser EXCEPT ![c] = "headers"]
    /\ request' = [request EXCEPT ![c] = @ + 1]
    /\ refs' = [refs EXCEPT ![c][request[c] + 1] = n]
    /\ overlap' = [overlap EXCEPT ![c] = @ \/ writeReq[c] # 0]
    /\ UNCHANGED <<process, stream, keepAlive, resp, writeReq, closes,
                   closedBy, promised>>

\* Variant: no Py_INCREF.
OnMessageBeginOneRef(c) == BeginMessage(c, 1)

\* guava_request_on_message_begin: one reference is PyObject_New's, one
\* Py_INCREF's.
OnMessageBegin(c) == BeginMessage(c, 2)

\* Variant: an interim answer is sent before the body.
OnHeadersContinue(c, ka) ==
    /\ Live(c)
    /\ parser[c] = "headers"
    /\ parser' = [parser EXCEPT ![c] = "body"]
    /\ keepAlive' = [keepAlive EXCEPT ![c] = ka]
    /\ ResponseSend(c, ka)
    /\ UNCHANGED <<stream, request, refs, closes, closedBy, overlap>>

\* guava_request_on_headers_complete, when a body follows.
OnHeadersComplete(c, ka) ==
    /\ Live(c)
    /\ parser[c] = "headers"
    /\ parser' = [parser EXCEPT ![c] = "body"]
    /\ keepAlive' = [keepAlive EXCEPT ![c] = ka]
    /\ UNCHANGED <<process, stream, request, refs, resp, writeReq, closes, ghost>>

\* guava_request_on_message_complete, at the last byte of a body.
OnMessageComplete(c) ==
    /\ Live(c)
    /\ parser[c] = "body"
    /\ MessageComplete(c, keepAlive[c])
    /\ UNCHANGED keepAlive

\* Both callbacks at the last byte of a request without a body.
OnBodilessComplete(c, ka) ==
    /\ Live(c)
    /\ parser[c] = "headers"
    /\ keepAlive' = [keepAlive EXCEPT ![c] = ka]
    /\ MessageComplete(c, ka)

\* on_message_complete with a dispatch that brings the process down instead:
\* assert(handler != NULL) fails when no router takes the request, and a
\* router or a controller constructor that raises returns a NULL that is
\* dereferenced.
DispatchCrash(c) ==
    /\ Live(c)
    /\ parser[c] \in {"headers", "body"}
    /\ process' = "crashed"
    /\ UNCHANGED <<conn, ghost>>

\* on_write frees the response, which was written (or failed) or cancelled.
Settle(c, how) ==
    /\ writeReq[c] # 0
    /\ resp' = [resp EXCEPT ![c][writeReq[c]] = how]
    /\ writeReq' = [writeReq EXCEPT ![c] = 0]
    /\ UNCHANGED <<process, parser, request, refs, keepAlive, promised, overlap>>

\* Variants: on_write always closes the connection; it never does.
OnWriteAlwaysCloses(c) == Live(c) /\ Settle(c, "written") /\ UvClose(c, "server")
OnWriteNeverCloses(c) ==
    Live(c) /\ Settle(c, "written") /\ UNCHANGED <<stream, closes, closedBy>>

\* on_write on an open connection: close it if the newest request whose
\* headers are complete said so.
OnWrite(c) ==
    /\ Live(c)
    /\ Settle(c, "written")
    /\ IF keepAlive[c]
         THEN UNCHANGED <<stream, closes, closedBy>>
         ELSE UvClose(c, "server")

\* Variant: uv_close without asking uv_is_closing.
OnWriteCancelledCloses(c) ==
    /\ process = "up" /\ stream[c] = "closing"
    /\ Settle(c, "cancelled")
    /\ UvClose(c, "server")

\* on_write with UV_ECANCELED: libuv hands back a write it had not finished
\* before it runs the close callback; uv_is_closing holds, so the response is
\* freed and nothing else happens.
OnWriteCancelled(c) ==
    /\ process = "up" /\ stream[c] = "closing"
    /\ Settle(c, "cancelled")
    /\ UNCHANGED <<stream, closes, closedBy>>

\* The close callback is due once libuv has handed back every write.
CloseDue(c) ==
    /\ process = "up"
    /\ stream[c] = "closing"
    /\ writeReq[c] = 0
    /\ stream' = [stream EXCEPT ![c] = "freed"]
    /\ UNCHANGED <<process, parser, request, keepAlive, resp, writeReq, closes, ghost>>

\* Variant: the request is not given back.
OnCloseKeepsRequest(c) == CloseDue(c) /\ UNCHANGED refs

\* guava_server_on_close and guava_conn_free: the connection gives back its
\* reference on the newest Request and is freed.
OnClose(c) ==
    /\ CloseDue(c)
    /\ IF request[c] # 0 THEN DecRef(c) ELSE UNCHANGED refs

\* signal_shutdown_cb: SIGINT ends the process whatever is in flight.
Shutdown ==
    /\ process = "up"
    /\ process' = "exited"
    /\ UNCHANGED <<conn, ghost>>

----------------------------------------------------------------------------
Client(c) ==
    \/ OnConn(c)
    \/ OnReadEof(c)
    \/ OnReadBad(c)
    \/ OnMessageBegin(c)
    \/ \E ka \in BOOLEAN : OnHeadersComplete(c, ka) \/ OnBodilessComplete(c, ka)
    \/ OnMessageComplete(c)
    \/ DispatchCrash(c)

Loop(c) == OnWrite(c) \/ OnWriteCancelled(c) \/ OnClose(c)

Next == Shutdown \/ \E c \in Conns : Client(c) \/ Loop(c)

Spec == Init /\ [][Next]_vars

\* What the loop does on its own once a stream is closing: it hands back the
\* write that was not finished and runs the close callback.  A write on an open
\* stream has no fairness: guava sets no timeout, so it ends only if the client
\* reads or is seen to be gone, and a client may do neither.
Fairness == \A c \in Conns : WF_vars(OnWriteCancelled(c) \/ OnClose(c))

FairSpec == Spec /\ Fairness
----------------------------------------------------------------------------
(* Properties. *)

\* uv_close is called at most once on a stream, and only on an accepted one:
\* on_read calls it unconditionally and on_write after asking uv_is_closing;
\* libuv aborts on a second call.
CloseOnce ==
    \A c \in Conns : closes[c] = IF stream[c] \in {"none", "open"} THEN 0 ELSE 1

\* While a connection lives, conn->request is never a freed object, although
\* on_message_complete gives back a reference and keeps the pointer: the one
\* of on_message_begin's Py_INCREF is left until guava_conn_free.
RequestAlive ==
    \A c \in Conns :
        stream[c] \in {"open", "closing"} /\ request[c] # 0 =>
            refs[c][request[c]] >= 1

\* guava_conn_free reclaims the last Request of a connection if that request
\* was answered.  (Earlier requests of a keep-alive connection, and one cut
\* off before its end, keep a reference nobody owns.)
LastRequestReclaimed ==
    \A c \in Conns :
        stream[c] = "freed" /\ request[c] # 0 /\ resp[c][request[c]] # "none" =>
            refs[c][request[c]] = 0

\* Until the first undefined step, a response libuv is still writing is the
\* one conn->write_req points to, and its connection has not been freed:
\* on_write reads resp->conn, so a response without either is lost memory or a
\* dangling pointer.
ResponseOwned ==
    process # "undefined" =>
        \A c \in Conns, m \in Msgs :
            resp[c][m] = "sent" => writeReq[c] = m /\ stream[c] \in {"open", "closing"}

\* Only a client that pipelines makes the server reuse a write request that
\* libuv still owns: with a client that waits for each answer, one write_req
\* per connection is enough.
ReuseNeedsPipelining ==
    process = "undefined" => \E c \in Conns : overlap[c]

\* With a client that waits for each answer, the server closes a connection
\* only when every request begun on it has its answer written and the last
\* answer did not promise keep-alive.  (on_write reads conn->keep_alive, which
\* belongs to the newest request whose headers are in, not to the request it
\* answers.)
ClosesAfterLastAnswer ==
    \A c \in Conns :
        closedBy[c] = "server" /\ ~ overlap[c] =>
            /\ \A m \in 1 .. request[c] : resp[c][m] = "written"
            /\ ~ promised[c]

\* If a client does not stay without reading for ever, so that a write to it
\* ends, then the answer to a request that is not keep-alive leads to its
\* connection being closed and freed, whatever else it sends and whatever the
\* other clients do, which may stall.
LastAnswerCloses ==
    \A c \in Conns :
        WF_vars(OnWrite(c)) =>
            ((writeReq[c] # 0 /\ ~ keepAlive[c]) ~> (stream[c] = "freed" \/ process # "up"))
============================================================================
