--------------------------- MODULE GuavaAssembly ---------------------------
(***************************************************************************)
(* How a Request is put together by the http-parser callbacks of           *)
(* guava_request.c, on one connection, when TCP may cut the bytes of the   *)
(* client anywhere.  http-parser hands a callback the part of an element   *)
(* (URL, header name, header value, body) that lies in one segment, so an  *)
(* element that a segment boundary cuts reaches its callback in pieces.    *)
(* It learns that a URL, a name or a value is over from the byte after it: *)
(* when that byte is in the next segment, the callback is called once more *)
(* with no bytes.                                                          *)
(***************************************************************************)
EXTENDS GuavaCodec

CONSTANTS
    Sends,         \* the messages a client may send
    MaxMsgs,       \* bound: messages on the connection
    HOST, COOKIE, CONTENT_TYPE,    \* the header names the callbacks look up
    FORM           \* the value application/x-www-form-urlencoded

\* A message: its URL, its headers in order and its body, all of it as sent.
ASSUME SendsAssumption ==
    /\ MaxMsgs \in Nat /\ HOST \in Seq(Int) /\ COOKIE \in Seq(Int)
    /\ \A m \in Sends :
          /\ m \in [url : Seq(Int), headers : Seq([name : Seq(Int), value : Seq(Int)]), body : Seq(Int)]
          /\ m.url # <<>> /\ \A k \in DOMAIN m.headers : m.headers[k].name # <<>>

VARIABLES
    status,        \* idle, receiving, complete, rejected (parser error), undefined
    count,         \* messages begun
    msg,           \* the message on the wire
    at, off,       \* the element being sent, how many bytes of it were
    cut,           \* the elements that arrived in pieces
    late,          \* those whose end came a segment after their last byte
    req,           \* the Request: url, path, GET, HEADERS, host, COOKIES, body, POST
    lastWasHeader, currentHeader    \* conn->auxiliary_*

wire == <<msg, at, off, cut, late>>
aux == <<lastWasHeader, currentHeader>>
vars == <<status, count, wire, req, aux>>

Absent == <<>>           \* a NULL string
NoDict == [n \in {} |-> <<>>]

NewRequest == [url |-> Absent, path |-> Absent, GET |-> NoDict, HEADERS |-> NoDict,
               host |-> Absent, COOKIES |-> NoDict, body |-> Absent, POST |-> NoDict]

\* The elements of a message in the order they are sent: the URL, names and
\* values in turn, the blank line, and the body if there is one.
Element(kind, text) == [kind |-> kind, text |-> text]

Elements(m) ==
    LET blank == 2 * Len(m.headers) + 2 IN
    [i \in 1 .. IF m.body = <<>> THEN blank ELSE blank + 1 |->
        IF i = 1 THEN Element("url", m.url)
        ELSE IF i = blank THEN Element("blank", <<>>)
        ELSE IF i = blank + 1 THEN Element("body", m.body)
        ELSE IF i % 2 = 0 THEN Element("field", m.headers[i \div 2].name)
        ELSE Element("value", m.headers[i \div 2].value)]

Init ==
    /\ status = "idle" /\ count = 0
    /\ msg \in Sends /\ at = 0 /\ off = 0 /\ cut = {} /\ late = {}
    /\ req = NewRequest
    /\ lastWasHeader = FALSE /\ currentHeader = Absent

----------------------------------------------------------------------------
\* What the n bytes do: they complete the element, or its end is not seen yet.
Ends(n) ==
    /\ off + n = Len(Elements(msg)[at].text)
    /\ at' = at + 1 /\ off' = 0
    /\ UNCHANGED <<cut, late>>

Continues(n) ==
    /\ n # 0
    /\ at' = at /\ off' = off + n
    /\ IF off' < Len(Elements(msg)[at].text)
         THEN cut' = cut \cup {at} /\ UNCHANGED late
         ELSE /\ Elements(msg)[at].kind # "body"
              /\ late' = late \cup {at} /\ UNCHANGED cut

\* http-parser is at element at of this kind and finds n more of its bytes in
\* the segment: none if the element is empty or all of it came before.  The
\* element ends there, or the segment does; a body ends with its last byte.
Piece(kind, n) ==
    /\ status = "receiving"
    /\ at <= Len(Elements(msg))
    /\ LET e == Elements(msg)[at] IN
        /\ e.kind = kind
        /\ n = 0 <=> off = Len(e.text)
        /\ off + n <= Len(e.text)
    /\ Ends(n) \/ Continues(n)
    /\ UNCHANGED <<msg, count>>

\* Those n bytes.
Bytes(n) == SubSeq(Elements(msg)[at].text, off + 1, off + n)

\* Variant: the dictionaries of the last request are used again.
OnMessageBeginReuses ==
    /\ status \in {"idle", "complete"} /\ count < MaxMsgs
    /\ status' = "receiving" /\ count' = count + 1
    /\ msg' \in Sends /\ at' = 1 /\ off' = 0 /\ cut' = {} /\ late' = {}
    /\ req' = [NewRequest EXCEPT !.GET = req.GET]
    /\ UNCHANGED aux

\* guava_request_on_message_begin, guava_request_new
OnMessageBegin ==
    /\ status \in {"idle", "complete"} /\ count < MaxMsgs
    /\ status' = "receiving" /\ count' = count + 1
    /\ msg' \in Sends /\ at' = 1 /\ off' = 0 /\ cut' = {} /\ late' = {}
    /\ req' = NewRequest
    /\ UNCHANGED aux

\* guava_request_on_url: the URL is this piece, whatever came before, and
\* nothing at all when only its end was still to come; its path and query are
\* taken at once.
OnUrl(n) ==
    /\ Piece("url", n)
    /\ LET q == ParseQuery(Query(Bytes(n))) IN
        /\ status' = IF q.negative THEN "undefined" ELSE status
        /\ req' = [req EXCEPT !.url = Bytes(n), !.path = Path(Bytes(n)),
                              !.GET = PutAll(@, q.pairs)]
    /\ UNCHANGED aux

\* guava_request_on_header_field: a second piece of a name, also one without
\* bytes, stops the parser.
OnHeaderField(n) ==
    /\ Piece("field", n)
    /\ IF lastWasHeader
         THEN status' = "rejected" /\ UNCHANGED aux
         ELSE lastWasHeader' = TRUE /\ currentHeader' = Bytes(n) /\ UNCHANGED status
    /\ UNCHANGED req

\* HEADERS[current header] = the piece
StoreHeader(n) == req' = [req EXCEPT !.HEADERS = PutAll(@, <<[name |-> currentHeader, value |-> Bytes(n)]>>)]

\* Variants: every piece of a value is stored; the flag stays set.
OnHeaderValueEvery(n) ==
    /\ Piece("value", n)
    /\ StoreHeader(n)
    /\ lastWasHeader' = FALSE
    /\ UNCHANGED <<status, currentHeader>>
OnHeaderValueKeepsFlag(n) ==
    /\ Piece("value", n)
    /\ StoreHeader(n)
    /\ UNCHANGED <<status, aux>>

\* guava_request_on_header_value: the first piece is stored, the rest dropped.
OnHeaderValue(n) ==
    /\ Piece("value", n)
    /\ IF lastWasHeader /\ currentHeader # Absent
         THEN StoreHeader(n) /\ currentHeader' = Absent
         ELSE UNCHANGED <<req, currentHeader>>
    /\ lastWasHeader' = FALSE
    /\ UNCHANGED status

Header(n, default) == IF n \in DOMAIN req.HEADERS THEN req.HEADERS[n] ELSE default

\* guava_request_on_headers_complete
OnHeadersComplete ==
    /\ Piece("blank", 0)
    /\ lastWasHeader' = FALSE /\ currentHeader' = Absent
    /\ LET cookies == ParseCookies(Header(COOKIE, <<>>)) IN
        /\ req' = [req EXCEPT !.host = Header(HOST, Absent), !.COOKIES = PutAll(@, cookies.pairs)]
        /\ status' = IF cookies.overrun THEN "undefined" ELSE status

\* The form is parsed from text.
TakeBody(n, text) ==
    /\ Piece("body", n)
    /\ LET form == IF Header(CONTENT_TYPE, <<>>) = FORM THEN ParseForm(text) ELSE NoPairs IN
        /\ req' = [req EXCEPT !.body = @ \o Bytes(n), !.POST = PutAll(@, form.pairs)]
        /\ status' = IF form.overrun THEN "undefined" ELSE status
    /\ UNCHANGED aux

\* Variant: the form is parsed piece by piece.
OnBodyByPiece(n) == TakeBody(n, Bytes(n))

\* guava_request_on_body: the piece is appended, and the form is parsed again
\* from the beginning of the body received so far.
OnBody(n) == TakeBody(n, req.body \o Bytes(n))

\* guava_request_on_message_complete takes the request as it is now.
OnMessageComplete ==
    /\ status = "receiving"
    /\ at = Len(Elements(msg)) + 1
    /\ status' = "complete"
    /\ UNCHANGED <<count, wire, req, aux>>

Lengths == 0 .. 16     \* bound: bytes of one piece

Next ==
    \/ OnMessageBegin
    \/ \E n \in Lengths : OnUrl(n) \/ OnHeaderField(n) \/ OnHeaderValue(n) \/ OnBody(n)
    \/ OnHeadersComplete
    \/ OnMessageComplete

Spec == Init /\ [][Next]_vars

----------------------------------------------------------------------------
(* Properties. *)

\* The positions, among the elements, of the values of the header called name.
ValuesOf(name) ==
    {i \in DOMAIN Elements(msg) :
        Elements(msg)[i].kind = "value" /\ Elements(msg)[i - 1].text = name}

SentNames == {h.name : h \in Range(msg.headers)}

\* A request that is dispatched has exactly the headers that were sent; each
\* value is the one sent last under that name if it came in one piece, and
\* otherwise the beginning of it.
HeadersTruncatedAtWorst ==
    status = "complete" =>
        /\ DOMAIN req.HEADERS = SentNames
        /\ \A name \in SentNames :
              LET i == Max(ValuesOf(name))
                  sent == Elements(msg)[i].text
              IN  IF i \in cut THEN IsStrictPrefix(req.HEADERS[name], sent)
                               ELSE req.HEADERS[name] = sent

\* Where the fields of text begin.
Starts(text, sep) == {i \in DOMAIN text : i = 1 \/ text[i - 1] = sep}

\* The end of text lies inside a name that has no '=' yet.
EndsInName(text, sep) ==
    \E i \in Starts(text, sep) : Find(text, EQ, i) = 0 /\ Find(text, sep, i) = 0

\* A message no part of which, taken whole, leads a parser astray: the query,
\* the cookies, and a body all of whose fields have names.
WellFormed(m) ==
    /\ ~ ParseQuery(Query(m.url)).negative
    /\ \A k \in DOMAIN m.headers : m.headers[k].name = COOKIE => ~ ParseCookies(m.headers[k].value).overrun
    /\ \A i \in Starts(m.body, AMP) :
          LET eq == Find(m.body, EQ, i)
              end == Find(m.body, AMP, i)
          IN  eq # 0 /\ (end # 0 => eq < end)

\* A callback stops the parser only if a header name of this very message did not
\* come with its end in one segment, nothing being left over from the message
\* before; and with a message that is well formed it reads out of bounds only if
\* the Cookie value or the URL was cut, or the body so far ends inside the name
\* of a form field.
FaultNeedsCut ==
    /\ status = "rejected" => \E i \in cut \cup late : Elements(msg)[i].kind = "field"
    /\ status = "undefined" /\ WellFormed(msg) =>
          \/ 1 \in cut
          \/ ValuesOf(COOKIE) \cap cut # {}
          \/ EndsInName(req.body, AMP)

\* The body of a request that is dispatched is the one sent, however it was cut,
\* and if it was parsed as a form, POST ends up what one parse of the whole body
\* gives: the parses of the incomplete body before it leave no trace.
BodyAsWhole ==
    status = "complete" =>
        /\ req.body = msg.body
        /\ Header(CONTENT_TYPE, <<>>) = FORM => req.POST = PutAll(NoDict, ParseForm(msg.body).pairs)

\* A request whose URL, names and values came uncut is dispatched as it was
\* sent: URL, path, query, host and cookies are those of this message alone.
\* Only the URL and its path are gone, though the query is not, if the segment
\* ended right behind the URL.
UncutExact ==
    status = "complete" /\ (\A i \in cut : Elements(msg)[i].kind = "body") =>
        LET sent == PutAll(NoDict, msg.headers)
            Sent(n) == IF n \in DOMAIN sent THEN sent[n] ELSE <<>>
            url == IF 1 \in late THEN <<>> ELSE msg.url
        IN  /\ req.url = url
            /\ req.path = Path(url)
            /\ req.GET = PutAll(NoDict, ParseQuery(Query(msg.url)).pairs)
            /\ req.host = Sent(HOST)
            /\ req.COOKIES = PutAll(NoDict, ParseCookies(Sent(COOKIE)).pairs)
============================================================================
