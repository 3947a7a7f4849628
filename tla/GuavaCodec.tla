---------------------------- MODULE GuavaCodec ----------------------------
(***************************************************************************)
(* The text formats guava reads and writes by itself: URL escapes          *)
(* (guava_url.c), the name=value lists of urlencoded bodies                *)
(* (guava_request.c) and of the Cookie header (guava_cookie.c), and the    *)
(* path and query of a URL.  A text is a sequence of signed chars without  *)
(* the terminating NUL.                                                    *)
(***************************************************************************)
EXTENDS Integers, Sequences, SequencesExt, FiniteSetsExt

SP == 32      PCT == 37      AMP == 38     PLUS == 43
SLASH == 47   SEMI == 59     EQ == 61      QM == 63

Spaces == (9 .. 13) \cup {SP}
Digits == 48 .. 57
Upper == 65 .. 90
Lower == 97 .. 122
Unreserved == Digits \cup Upper \cup Lower \cup {45, 95, 46, 126}   \* - _ . ~

\* The low eight bits of an int, as a signed char.
Char(i) == ((i + 128) % 256) - 128

\* The low eight bits of i | j.
BitOr(i, j) ==
    LET Bit(w) == IF (i \div w) % 2 = 1 \/ (j \div w) % 2 = 1 THEN w ELSE 0
    IN  Bit(1) + Bit(2) + Bit(4) + Bit(8) + Bit(16) + Bit(32) + Bit(64) + Bit(128)

\* What strlen leaves of a buffer that holds s: nothing after a NUL.
CString(s) == IF Contains(s, 0) THEN SubSeq(s, 1, SelectInSeq(s, LAMBDA c : c = 0) - 1) ELSE s

\* strchr from position i: the first position of c there or later, 0 if none.
Find(s, c, i) == SelectInSubSeq(s, i, Len(s), LAMBDA x : x = c)

----------------------------------------------------------------------------
(* URL escapes. *)

\* n_from_hex: right for hexadecimal digits, some int for anything else.
FromHex(c) ==
    IF c \in Digits THEN c - 48 ELSE (IF c \in Lower THEN c - 32 ELSE c) - 65 + 10

\* hex_codes[n & 15]
HexCode(n) == IF n < 10 THEN 48 + n ELSE 65 + (n - 10)

\* What guava_url_decode writes from i on when it writes rest[k] from k on, a
\* '+' being written as plus: an escape without its two digits loses the
\* percent sign.
DecodeAt(s, plus, rest, i) ==
    IF i > Len(s) THEN <<>>
    ELSE IF s[i] # PCT THEN <<IF s[i] = PLUS THEN plus ELSE s[i]>> \o rest[i + 1]
    ELSE IF i + 2 <= Len(s)
      THEN <<Char(BitOr(16 * FromHex(s[i + 1]), FromHex(s[i + 2])))>> \o rest[i + 3]
    ELSE rest[i + 1]

DecodeFrom(s, plus) == LET from[i \in 1 .. Len(s) + 1] == DecodeAt(s, plus, from, i) IN from

DecodeWith(s, plus) == DecodeFrom(s, plus)[1]

\* Variant for the mutation checks: a '+' stays.
UrlDecodeKeepsPlus(s) == CString(DecodeWith(s, PLUS))

\* guava_url_decode
UrlDecode(s) == CString(DecodeWith(s, SP))

\* What guava_url_encode writes for a char, which fails n_to_hex's assert if its
\* high bit is set.
Escaped(c) ==
    IF c \in Unreserved THEN <<c>>
    ELSE IF c = SP THEN <<PLUS>>
    ELSE <<PCT, HexCode(c \div 16), HexCode(c % 16)>>

\* What it writes from i on when it writes rest[k] from k on.
EncodeAt(s, rest, i) == IF i > Len(s) THEN <<>> ELSE Escaped(s[i]) \o rest[i + 1]

EncodeFrom(s) == LET from[i \in 1 .. Len(s) + 1] == EncodeAt(s, from, i) IN from

\* guava_url_encode
UrlEncode(s) == EncodeFrom(s)[1]

----------------------------------------------------------------------------
(* Lists of name=value. *)

Pair(s, first, eq, last) == [name |-> SubSeq(s, first, eq - 1), value |-> SubSeq(s, eq + 1, last)]

NoPairs == [pairs |-> <<>>, overrun |-> FALSE]

\* The first position at i or later that holds no space, 0 if none.
SkipSpaces(s, i) == SelectInSubSeq(s, i, Len(s), LAMBDA c : c \notin Spaces)

\* One round of the loops around guava_request_parse_form_data (sep is &) and
\* guava_cookie_parse (sep is ;), begun at i when rest[k] is made of the text
\* from k on.  Spaces are skipped before a name; the name runs to the next '='
\* and, unless checked, past the end of the text if there is none (overrun); a
\* '=' that ends the text ends the list without a pair; the next pair begins
\* step chars after the separator found.
PairsAt(s, sep, step, checked, rest, i) ==
    LET first == SkipSpaces(s, i)
        eq == IF first = 0 THEN 0 ELSE Find(s, EQ, first)
        end == IF eq = 0 THEN 0 ELSE Find(s, sep, eq + 1)
        last == IF end = 0 THEN Len(s) ELSE end - 1
        after == rest[IF end = 0 THEN Len(s) + 1 ELSE end + step]
    IN  IF first = 0 THEN NoPairs
        ELSE IF eq = 0 THEN [pairs |-> <<>>, overrun |-> ~ checked]
        ELSE IF eq = Len(s) THEN NoPairs
        ELSE [after EXCEPT !.pairs = <<Pair(s, first, eq, last)>> \o @]

\* What the loops make of s from each position on.
PairsFrom(s, sep, step, checked) ==
    LET from[i \in 1 .. Len(s) + 1] == PairsAt(s, sep, step, checked, from, i) IN from

PairsBy(s, sep, step, checked) == PairsFrom(s, sep, step, checked)[1]

\* Variants: the separator is not stepped over; the scan of a name is checked.
ParsePairsStuck(s, sep) == PairsBy(s, sep, 0, FALSE)
ParsePairsChecked(s, sep) == PairsBy(s, sep, 1, TRUE)

ParsePairs(s, sep) == PairsBy(s, sep, 1, FALSE)

\* A form's values are unescaped, its names and all of a cookie are not.
ParseForm(s) ==
    LET p == ParsePairs(s, AMP)
    IN  [pairs |-> [i \in DOMAIN p.pairs |-> [p.pairs[i] EXCEPT !.value = UrlDecode(@)]],
         overrun |-> p.overrun]

ParseCookies(s) == ParsePairs(s, SEMI)

\* A Cookie as Controller.set_cookie and Cookie() make it: domain and path are
\* sets of the text that was given, if any was.  Without expired and max_age,
\* which cannot be given, it has neither.
NewCookie(name, value, domain, path, secure, httponly) ==
    [name |-> name, value |-> value, domain |-> domain, path |-> path,
     secure |-> secure, httponly |-> httponly]

\* One attribute, its name abbreviated to a letter.
Attribute(separator, letter, texts) ==
    IF texts = {} THEN <<>> ELSE separator \o <<letter>> \o CHOOSE t \in texts : TRUE

CookieTextBy(separator, c) ==
    c.name \o <<EQ>> \o c.value \o Attribute(separator, 68, c.domain) \o Attribute(separator, 80, c.path)
        \o Attribute(separator, 83, IF c.secure THEN {<<>>} ELSE {})
        \o Attribute(separator, 72, IF c.httponly THEN {<<>>} ELSE {})

\* Variant: the attributes are not separated.
CookieTextRuns(c) == CookieTextBy(<<SP>>, c)

\* A cookie as guava_response_serialize writes it behind Set-Cookie.
CookieText(c) == CookieTextBy(<<SP, SEMI>>, c)

\* What a browser keeps of it: the two parts of what stands before the first
\* ';', without spaces around them; nothing if there is no '=' or no name.
Trim(s) ==
    LET inner == {i \in DOMAIN s : s[i] \notin Spaces} IN
    IF inner = {} THEN <<>> ELSE SubSeq(s, Min(inner), Max(inner))

Kept(text) ==
    LET pair == IF Find(text, SEMI, 1) = 0 THEN text ELSE SubSeq(text, 1, Find(text, SEMI, 1) - 1)
        eq == Find(pair, EQ, 1)
        name == Trim(SubSeq(pair, 1, eq - 1))
    IN  IF eq = 0 \/ name = <<>> THEN <<>>
        ELSE <<[name |-> name, value |-> Trim(SubSeq(pair, eq + 1, Len(pair)))]>>

\* The Cookie header it sends: name=value; name=value; ...
CookieHeader(kept) ==
    FlattenSeq([k \in DOMAIN kept |->
        (IF k = 1 THEN <<>> ELSE <<SEMI, SP>>) \o kept[k].name \o <<EQ>> \o kept[k].value])

----------------------------------------------------------------------------
(* guava_request_extract_from_url *)

Path(url) == IF Find(url, QM, 1) = 0 THEN url ELSE SubSeq(url, 1, Find(url, QM, 1) - 1)

Query(url) == IF Find(url, QM, 1) = 0 THEN <<>> ELSE SubSeq(url, Find(url, QM, 1) + 1, Len(url))

\* One round of the loop over a query, begun at i when rest[k] is made of it from
\* k on: a piece between '&'s gives a pair if it has a '=' at or after its start.
\* Unless bounded the search for '=' does not stop at the '&': when it finds one
\* beyond, the value's length is negative, no string can be made of it and
\* PyDict_SetItem is given a NULL (negative).  A value ends extra chars after the
\* one before the '&'.
QueryAt(q, bounded, extra, rest, i) ==
    LET amp == Find(q, AMP, i)
        last == IF amp = 0 THEN Len(q) ELSE amp - 1 + extra
        eq == SelectInSubSeq(q, i, IF bounded THEN last ELSE Len(q), LAMBDA c : c = EQ)
        here == IF eq = 0 THEN <<>> ELSE <<Pair(q, i, eq, last)>>
        after == rest[amp + 1]
    IN  IF amp = 0 THEN [pairs |-> here, negative |-> FALSE]
        ELSE IF eq > amp THEN [pairs |-> <<>>, negative |-> TRUE]
        ELSE [after EXCEPT !.pairs = here \o @]

\* What the loop makes of q from each position on.
QueryFrom(q, bounded, extra) ==
    LET from[i \in 1 .. Len(q) + 1] == QueryAt(q, bounded, extra, from, i) IN from

QueryBy(q, bounded, extra) == QueryFrom(q, bounded, extra)[1]

\* Variants: the search for '=' is bounded; a value takes the '&' in.
ParseQueryBounded(q) == QueryBy(q, TRUE, 0)
ParseQueryLong(q) == QueryBy(q, FALSE, 1)

ParseQuery(q) == QueryBy(q, FALSE, 0)

Names(pairs) == {pairs[i].name : i \in DOMAIN pairs}

\* PyDict_SetItem for each pair in turn: a later value replaces an earlier one.
PutAll(dict, pairs) ==
    [n \in DOMAIN dict \cup Names(pairs) |->
        IF n \in Names(pairs) THEN pairs[Max({i \in DOMAIN pairs : pairs[i].name = n})].value ELSE dict[n]]
============================================================================
