--------------------------- MODULE GuavaResponse ---------------------------
(***************************************************************************)
(* A guava_response_t, from its making to the bytes on the wire.  Of a     *)
(* header or cookie there is its kind: it fits into the buffer of 1024     *)
(* bytes, is too long for it, or has a CR LF in its name or value; and the *)
(* number it gives.  Of the data there is the length.                      *)
(***************************************************************************)
EXTENDS Integers, FiniteSets

Line(number) == [kind |-> "fits", number |-> number]
LongLine == [kind |-> "long", number |-> 0]
BrokenLine == [kind |-> "crlf", number |-> 0]
Text == Line(0)

\* PyDict_SetItemString
Put(dict, key, line) == [k \in DOMAIN dict \cup {key} |-> IF k = key THEN line ELSE dict[k]]

\* guava_response_new
NewResponse ==
    [status |-> 200, headers |-> [h \in {"Server"} |-> Text], cookies |-> <<>>, data |-> 0, follows |-> 0,
     leaked |-> FALSE]

\* guava_response_set_status_code takes an uint16_t.
SetStatus(resp, code) == [resp EXCEPT !.status = code % 65536]

SetHeader(resp, h, line) == [resp EXCEPT !.headers = Put(resp.headers, h, line)]

\* Controller.set_cookie without expired and max_age: its keyword list is longer
\* than its format, and a call that gives one of these raises.
SetCookie(resp, name, line) == [resp EXCEPT !.cookies = Put(resp.cookies, name, line)]

\* guava_response_set_data does not free what was there.
SetData(resp, length) == [resp EXCEPT !.data = length, !.leaked = IF resp.data = 0 THEN @ ELSE TRUE]

\* Variant for the mutation checks: each write replaces the last.
WriteReplaces(resp, length) == SetData(resp, length)

\* guava_response_write_data
Write(resp, length) == [resp EXCEPT !.data = resp.data + length]

\* guava_response_404, guava_response_500, guava_response_302
NotFoundAnswer(resp) == SetData(SetStatus(resp, 404), 14)
ErrorAnswer(resp) == SetData(SetStatus(resp, 500), 26)
RedirectAnswer(resp, line) == SetHeader(SetStatus(resp, 303), "Location", line)

\* Variant: a listing, too, has the length that stat gives.
ListingSized(resp, length) ==
    SetData(SetHeader(SetHeader(resp, "Content-Type", Text), "Content-Length", Line(4096)), length)

\* guava_handler_static: a listing is the data of the response.
ListingAnswer(resp, length) == SetData(SetHeader(resp, "Content-Type", Text), length)

\* A file follows the head, as much of it as sendfile has sent when it returns,
\* nothing if it failed: on_sendfile does not send the rest.
FileAnswer(resp, size, passed) ==
    [SetHeader(SetHeader(resp, "Content-Type", Text), "Content-Length", Line(size)) EXCEPT !.follows = passed]

\* guava_response_send on a connection that is kept alive; a Content-Type the
\* application has set is kept.
Finished(resp) ==
    LET typed == IF "Content-Type" \in DOMAIN resp.headers THEN resp ELSE SetHeader(resp, "Content-Type", Text)
    IN  SetHeader(typed, "Connection", Text)

----------------------------------------------------------------------------
(* Reading it. *)

\* Headers by which the client, but not guava, finds the end of the body; the
\* second stands for every other spelling of Content-Length.
Framing == {"Transfer-Encoding", "content-length"}

\* An application that sends the header Set-Cookie sends no other cookies.
SentCookies(resp) == IF "Set-Cookie" \in DOMAIN resp.headers THEN {} ELSE DOMAIN resp.cookies

\* The line behind the headers: Content-Length if no header says it, a cookie,
\* or the empty line.
Behind(resp) ==
    IF "Content-Length" \notin DOMAIN resp.headers THEN "length"
    ELSE IF SentCookies(resp) # {} THEN "cookie" ELSE "blank"

LongLines(resp) == {h \in DOMAIN resp.headers : resp.headers[h].kind = "long"}

\* guava_response_serialize cuts a long line and its CR LF with it, and the
\* next line becomes part of it.  Headers stand in any order.
Swallowed(resp) ==
    LET long == LongLines(resp) IN
    {lines \in SUBSET (DOMAIN resp.headers \cup {Behind(resp)}) :
        Cardinality(lines) = Cardinality(long) /\ (lines = long => long = {})}

\* No line is split by a CR LF of its own, which is written as it is.
Unbroken(resp) ==
    /\ \A h \in DOMAIN resp.headers : resp.headers[h].kind # "crlf"
    /\ \A c \in SentCookies(resp) : resp.cookies[c].kind # "crlf"

\* Answers that end with their head.
Headless(resp, method) ==
    \/ method = "HEAD" \/ (method = "CONNECT" /\ resp.status \in 200 .. 299)
    \/ resp.status \in (100 .. 199) \cup {204, 304}

\* The client can read the head, and takes for the body what was sent behind
\* it, no more and no less, whichever lines are swallowed.
Understood(resp, method) ==
    /\ resp.status \in 100 .. 999
    /\ Unbroken(resp) /\ Framing \cap DOMAIN resp.headers = {}
    /\ \A lines \in Swallowed(resp) :
        /\ "blank" \notin lines
        /\ IF Headless(resp, method) THEN resp.data + resp.follows = 0
           ELSE IF "Content-Length" \in DOMAIN resp.headers
             THEN /\ "Content-Length" \notin lines
                  /\ resp.headers["Content-Length"].number = resp.data + resp.follows
             ELSE "length" \notin lines
============================================================================
