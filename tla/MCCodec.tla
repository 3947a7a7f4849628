------------------------------ MODULE MCCodec ------------------------------
(***************************************************************************)
(* GuavaCodec on every short text: the text grows by one char at a time.   *)
(* The definitions it is compared with say where the fields begin and look *)
(* at each field by itself.                                                *)
(***************************************************************************)
EXTENDS GuavaCodec

CONSTANTS Alphabet, MaxLen

ASSUME CodecAssumption == Alphabet \subseteq Int /\ MaxLen \in Nat

VARIABLE text

Init == text = <<>>

Grow(c) == Len(text) < MaxLen /\ text' = Append(text, c)

Next == \E c \in Alphabet : Grow(c)

Spec == Init /\ [][Next]_text

----------------------------------------------------------------------------
\* The positions where the fields between separators begin, and each field.
Starts(s, sep) == {1} \cup {i \in 2 .. Len(s) + 1 : s[i - 1] = sep}

Field(s, sep, i) ==
    SubSeq(s, i, IF Find(s, sep, i) = 0 THEN Len(s) ELSE Find(s, sep, i) - 1)

SplitField(f) ==
    [name |-> SubSeq(f, 1, Find(f, EQ, 1) - 1), value |-> SubSeq(f, Find(f, EQ, 1) + 1, Len(f))]

\* Each field is name=value, and no field starts with a space.
WellFormed(s, sep) ==
    \A i \in Starts(s, sep) :
        LET f == Field(s, sep, i) IN Contains(f, EQ) /\ f[1] \notin Spaces

\* values are those of a function of positions, in the order of the positions.
InOrder(values, at) ==
    /\ Len(values) = Cardinality(DOMAIN at)
    /\ \A i \in DOMAIN at : values[Cardinality({j \in DOMAIN at : j <= i})] = at[i]

\* pairs are the fields that begin at the positions in chosen, in their order.
FieldsInOrder(pairs, s, sep, chosen) ==
    InOrder(pairs, [i \in chosen |-> SplitField(Field(s, sep, i))])

\* A well-formed list is parsed into the pairs of its fields, whatever
\* characters its values hold; only an empty value at the very end is lost.
PairsOfFields ==
    \A sep \in {AMP, SEMI} :
        WellFormed(text, sep) =>
            LET parsed == ParsePairs(text, sep)
                lost == {i \in Starts(text, sep) :
                            Find(text, sep, i) = 0 /\ SplitField(Field(text, sep, i)).value = <<>>}
            IN  /\ ~ parsed.overrun
                /\ FieldsInOrder(parsed.pairs, text, sep, Starts(text, sep) \ lost)

\* The parsers read past the end of their text exactly when something other
\* than spaces follows the last separator after the last '='.
OverrunExactly ==
    \A sep \in {AMP, SEMI} :
        LET lastEq == SelectLastInSeq(text, LAMBDA c : c = EQ)
            tail == IF lastEq = 0 THEN text
                    ELSE IF Find(text, sep, lastEq) = 0 THEN <<>>
                    ELSE SubSeq(text, Find(text, sep, lastEq) + 1, Len(text))
        IN  ParsePairs(text, sep).overrun <=> \E i \in DOMAIN tail : tail[i] \notin Spaces

\* The fields of a query that have a '='.
Named(q) == {i \in Starts(q, AMP) : Contains(Field(q, AMP, i), EQ)}

\* Making the GET dictionary hands PyDict_SetItem a NULL exactly when a field
\* without '=' comes before one that has it.
NegativeExactly ==
    ParseQuery(text).negative <=>
        \E i \in Starts(text, AMP) \ Named(text), j \in Named(text) : i < j

\* When it does not, GET holds every field that has a '=' and nothing else.
QueryOfFields ==
    ~ ParseQuery(text).negative => FieldsInOrder(ParseQuery(text).pairs, text, AMP, Named(text))

\* Any C string of 7-bit chars that was escaped with guava_url_encode comes back
\* from guava_url_decode.
DecodeInvertsEncode == text \in Seq(1 .. 127) => UrlDecode(UrlEncode(text)) = text

Other == [name |-> <<98>>, value |-> <<98>>]

\* A text that survives on either side of a '=', between ';'s and trimming.
Plain(s) == ~ Contains(s, SEMI) /\ (s # <<>> => {s[1], Last(s)} \cap Spaces = {})

\* A cookie set with name and value, kept by a browser and sent back by it, alone
\* or before one of another name, is found in COOKIES exactly if its parts are
\* plain, the name has no '=' and is not empty, and an empty value is not the
\* last in the header.
CookieComesBack ==
    \A i \in DOMAIN text, path \in {{}, {<<SLASH>>}}, secure \in BOOLEAN,
       others \in {<<>>, <<Other>>} :
        text[i] = EQ =>
            LET name == SubSeq(text, 1, i - 1)
                value == SubSeq(text, i + 1, Len(text))
                kept == Kept(CookieText(NewCookie(name, value, {}, path, secure, FALSE)))
                cookies == PutAll(<<>>, ParseCookies(CookieHeader(kept \o others)).pairs)
            IN  (name # Other.name \/ others = <<>>) =>
                ((kept # <<>> /\ name \in DOMAIN cookies /\ cookies[name] = value) <=>
                    /\ Plain(name) /\ name # <<>> /\ ~ Contains(name, EQ)
                    /\ Plain(value) /\ (value # <<>> \/ others # <<>>))
=============================================================================
