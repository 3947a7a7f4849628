---------------------------- MODULE GuavaStatic ----------------------------
(***************************************************************************)
(* How guava_handler_static answers with a file: the head goes to uv_write *)
(* on the connection's stream, the file to uv_fs_sendfile, which a thread  *)
(* of libuv's pool runs on the bare descriptor number of the socket.  The  *)
(* loop may close that descriptor first (on_write, on_read), and accept or *)
(* open, which take the lowest free number, may use it again.              *)
(*                                                                         *)
(* The steps of the loop thread are callbacks, as in GuavaConn; a client   *)
(* waits until it has all of an answer before it sends the next request.   *)
(***************************************************************************)
EXTENDS Naturals, Sequences, FiniteSets, FiniteSetsExt

CONSTANTS
    Conns,         \* connections, each made once
    Fds,           \* bound: the descriptor numbers the process may use
    MaxMsgs        \* bound: requests on one connection

ASSUME StaticAssumption == Fds \subseteq Nat \ {0} /\ MaxMsgs \in Nat

VARIABLES
    table,         \* descriptor table: Free, File(c) or Sock(c)
    stream,        \* conn->stream: none, open, closed
    fdOf,          \* its io_watcher.fd, NoFd when closed
    keepAlive,     \* conn->keep_alive
    out,           \* the head: none, queued in uv_write, sent but not called back
    jobs,          \* uv_fs_sendfile requests the pool has not run
    asked,         \* requests on each connection
    got,           \* what each client received, in order
    due,           \* what it waits for: head, file
    \* History:
    short,         \* some of the file of the last answer could not be sent
    waited,        \* a head had to wait for room in the socket
    left,          \* the client closed the connection
    early          \* a stream was closed while its sendfile was in the pool

clients == <<asked, got, due>>
ghost == <<short, waited, left, early>>
vars == <<table, stream, fdOf, keepAlive, out, jobs, clients, ghost>>

NoFd == 0
Free == [is |-> "free"]
File(c) == [is |-> "file", conn |-> c]      \* the file connection c asked for
Sock(c) == [is |-> "socket", conn |-> c]

Init ==
    /\ table = [f \in Fds |-> Free]
    /\ stream = [c \in Conns |-> "none"]
    /\ fdOf = [c \in Conns |-> NoFd]
    /\ keepAlive = [c \in Conns |-> FALSE]
    /\ out = [c \in Conns |-> "none"]
    /\ jobs = {}
    /\ asked = [c \in Conns |-> 0]
    /\ got = [c \in Conns |-> <<>>]
    /\ due = [c \in Conns |-> {}]
    /\ short = [c \in Conns |-> FALSE]
    /\ waited = [c \in Conns |-> FALSE]
    /\ left = [c \in Conns |-> FALSE]
    /\ early = FALSE

Unused == {f \in Fds : table[f] = Free}

\* A descriptor made is the lowest number unused.
NewFd == IF Unused = {} THEN NoFd ELSE Min(Unused)

Item(what, c) == [what |-> what, of |-> c]

Receive(c, items) == got' = [got EXCEPT ![c] = @ \o items]

----------------------------------------------------------------------------
\* guava_server_on_conn; without a descriptor libuv turns the client away.
OnConn(c) ==
    /\ stream[c] = "none" /\ NewFd # NoFd
    /\ stream' = [stream EXCEPT ![c] = "open"]
    /\ fdOf' = [fdOf EXCEPT ![c] = NewFd]
    /\ table' = [table EXCEPT ![NewFd] = Sock(c)]
    /\ UNCHANGED <<keepAlive, out, jobs, clients, ghost>>

\* guava_response_send: the socket takes the head at once or, when it has no
\* room, libuv queues it.
SendHead(c, ka, expected) ==
    /\ stream[c] = "open" /\ out[c] = "none" /\ due[c] = {} /\ asked[c] < MaxMsgs
    /\ asked' = [asked EXCEPT ![c] = @ + 1]
    /\ keepAlive' = [keepAlive EXCEPT ![c] = ka]
    /\ \/ /\ out' = [out EXCEPT ![c] = "sent"]
          /\ Receive(c, <<Item("head", c)>>)
          /\ due' = [due EXCEPT ![c] = expected]
          /\ UNCHANGED waited
       \/ /\ out' = [out EXCEPT ![c] = "queued"]
          /\ due' = [due EXCEPT ![c] = expected \cup {"head"}]
          /\ waited' = [waited EXCEPT ![c] = TRUE]
          /\ UNCHANGED got

\* guava_handler_static without a file to send: 404 or the list of a directory.
ServeText(c, ka) ==
    /\ SendHead(c, ka, {})
    /\ UNCHANGED <<table, stream, fdOf, jobs, short, left, early>>

Job(c, file) == [sock |-> fdOf[c], file |-> file, conn |-> c, number |-> asked[c] + 1]

\* The head, uv_fs_open, then work for the pool on whatever number that gave.
SendHeadAndOpen(c, ka, newJobs) ==
    /\ SendHead(c, ka, {"file"})
    /\ short' = [short EXCEPT ![c] = FALSE]
    /\ table' = IF NewFd = NoFd THEN table ELSE [table EXCEPT ![NewFd] = File(c)]
    /\ jobs' = jobs \cup newJobs
    /\ UNCHANGED <<stream, fdOf, left, early>>

\* Variants for the mutation checks: uv_fs_sendfile is called twice, or not.
ServeFileTwice(c, ka) ==
    SendHeadAndOpen(c, ka, {Job(c, NewFd), [Job(c, NewFd) EXCEPT !.number = 0]})
ServeFileNever(c, ka) == SendHeadAndOpen(c, ka, {})

\* guava_handler_static with a file, which is never closed.
ServeFile(c, ka) == SendHeadAndOpen(c, ka, {Job(c, NewFd)})

\* uv_close on the stream closes the descriptor at once.
CloseStream(c) ==
    /\ stream' = [stream EXCEPT ![c] = "closed"]
    /\ table' = [table EXCEPT ![fdOf[c]] = Free]
    /\ fdOf' = [fdOf EXCEPT ![c] = NoFd]
    /\ early' = (early \/ \E j \in jobs : j.conn = c)

\* The head is out, if need be now that there is room again.
HeadOut(c) ==
    /\ stream[c] = "open" /\ out[c] # "none"
    /\ out' = [out EXCEPT ![c] = "none"]
    /\ Receive(c, IF out[c] = "queued" THEN <<Item("head", c)>> ELSE <<>>)
    /\ due' = [due EXCEPT ![c] = @ \ {"head"}]
    /\ UNCHANGED <<keepAlive, jobs, asked, short, waited, left>>

\* Variant: on_write also closes the file.
OnWriteClosesFile(c) ==
    /\ HeadOut(c) /\ keepAlive[c]
    /\ table' = [f \in Fds |-> IF table[f] = File(c) THEN Free ELSE table[f]]
    /\ UNCHANGED <<stream, fdOf, early>>

\* on_write
OnWrite(c) ==
    /\ HeadOut(c)
    /\ IF keepAlive[c] THEN UNCHANGED <<stream, table, fdOf, early>> ELSE CloseStream(c)

\* guava_server_on_read, the client is gone; on_write, with UV_ECANCELED if
\* the head was still queued, does nothing more.
OnReadEof(c) ==
    /\ stream[c] = "open"
    /\ CloseStream(c)
    /\ out' = [out EXCEPT ![c] = "none"]
    /\ left' = [left EXCEPT ![c] = TRUE]
    /\ UNCHANGED <<keepAlive, jobs, clients, short, waited>>

Entry(f) == IF f \in Fds THEN table[f] ELSE Free

\* A thread runs sendfile on the two numbers.  Nothing is sent unless they are
\* a socket and a file by then; the socket takes all, a part or nothing, and
\* on_sendfile only reports errors.
SendFile(j) ==
    /\ j \in jobs /\ jobs' = jobs \ {j}
    /\ LET to == Entry(j.sock)
           from == Entry(j.file)
           Sends(what) == /\ to.is = "socket" /\ from.is = "file"
                          /\ Receive(to.conn, <<Item(what, from.conn)>>)
       IN  \/ /\ Sends("file")
              /\ due' = [due EXCEPT ![j.conn] = IF to.conn = j.conn THEN @ \ {"file"} ELSE @]
              /\ UNCHANGED short
           \/ /\ Sends("part") \/ UNCHANGED got
              /\ short' = [short EXCEPT ![j.conn] = TRUE]
              /\ UNCHANGED due
    /\ UNCHANGED <<table, stream, fdOf, keepAlive, out, asked, waited, left, early>>

Next ==
    \/ \E c \in Conns :
          \/ OnConn(c) \/ OnWrite(c) \/ OnReadEof(c)
          \/ \E ka \in BOOLEAN : ServeText(c, ka) \/ ServeFile(c, ka)
    \/ \E j \in jobs : SendFile(j)

Spec == Init /\ [][Next]_vars

----------------------------------------------------------------------------
(* Properties. *)

\* A client receives a piece of a file another client asked for only after the
\* loop has closed a stream whose sendfile was still in the pool: nothing else
\* can put another socket or file behind a number handed to uv_fs_sendfile.
StrayNeedsEarlyClose ==
    (\E c \in Conns : \E i \in DOMAIN got[c] : got[c][i].of # c) => early

\* As long as no stream is closed early, whatever arrives of a file follows the
\* head of its answer at once, unless that head had to wait for room.
FileFollowsHead ==
    ~ early => \A c \in Conns : ~ waited[c] =>
        \A i \in DOMAIN got[c] :
            got[c][i].what # "head" => i > 1 /\ got[c][i - 1].what = "head"

\* A client that is still connected and waits for its file has a sendfile in
\* the pool, on its own socket, or has lost the file for good because a
\* sendfile failed or fell short: there is no second attempt.
WaitingHasJob ==
    \A c \in Conns :
        stream[c] = "open" /\ "file" \in due[c] =>
            short[c] \/ \E j \in jobs : j.conn = c /\ j.sock = fdOf[c]

\* Like a server that serves the files of a directory, guava closes a
\* connection by itself only when its client has the file it asked for, unless
\* the socket did not take all of it.
ServedBeforeClose ==
    \A c \in Conns :
        stream[c] = "closed" /\ ~ left[c] => "file" \notin due[c] \/ short[c]
============================================================================
