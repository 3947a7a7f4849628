------------------------ MODULE GuavaAssemblyProofs ------------------------
(***************************************************************************)
(* Proofs about GuavaAssembly for every set of messages, of any length and *)
(* cut anywhere.                                                           *)
(***************************************************************************)
EXTENDS GuavaAssembly, GuavaTextProofs

Blank == 2 * Len(msg.headers) + 2
End == Len(Elements(msg))
KindAt(i) == Elements(msg)[i].kind
TextAt(i) == Elements(msg)[i].text

\* A request under way, or dispatched.
Live == status \in {"receiving", "complete"}

Fields == {"url", "path", "GET", "HEADERS", "host", "COOKIES", "body", "POST"}

TypeOK ==
    /\ status \in {"idle", "receiving", "complete", "rejected", "undefined"}
    /\ msg \in Sends /\ at \in Nat /\ off \in Nat
    /\ cut \in SUBSET (Nat \ {0}) /\ late \in SUBSET (Nat \ {0})
    /\ lastWasHeader \in BOOLEAN
    /\ req = [f \in Fields |-> req[f]]

\* Where the message is: the elements behind at are through, off bytes of the
\* one at at; an element is cut once a proper part of it has come, and late once
\* all of it has but not its end.
PlaceInv ==
    /\ status = "receiving" =>
          /\ at \in 1 .. (End + 1)
          /\ off > 0 => at <= End /\ off <= Len(TextAt(at)) /\ (at \notin cut => off = Len(TextAt(at)))
    /\ status = "complete" => at = End + 1 /\ off = 0
    /\ Live => /\ off > 0 <=> at \in cut \cup late
               /\ cut \cup late \subseteq 1 .. at

\* The flag is set in a name that is through or begun, and nowhere else.
FlagInv ==
    /\ status \in {"idle", "complete"} => ~ lastWasHeader
    /\ status = "receiving" =>
          IF at <= End /\ KindAt(at) = "value" /\ off = 0
            THEN lastWasHeader /\ currentHeader = TextAt(at - 1)
            ELSE lastWasHeader <=> at <= End /\ KindAt(at) = "field" /\ off > 0

\* No name behind at came in more than one callback.
NamesWhole == Live => \A i \in cut \cup late : i < at => KindAt(i) # "field"

\* The values of which a first piece has come.
Stored == {i \in 1 .. End : KindAt(i) = "value" /\ (i < at \/ (i = at /\ off > 0))}

LastOfName(i) == \A j \in Stored : TextAt(j - 1) = TextAt(i - 1) => j <= i

HeadersInv ==
    Live => /\ req.HEADERS = [n \in {TextAt(i - 1) : i \in Stored} |-> req.HEADERS[n]]
            /\ \A i \in Stored :
                  LastOfName(i) =>
                     IF i \in cut THEN IsStrictPrefix(req.HEADERS[TextAt(i - 1)], TextAt(i))
                                  ELSE req.HEADERS[TextAt(i - 1)] = TextAt(i)

\* The URL as it is kept when it was not cut: nothing of it once a last callback
\* came without bytes.
UrlKept == IF at # 1 /\ 1 \in late THEN <<>> ELSE msg.url

UrlInv ==
    Live /\ 1 \notin cut =>
        IF at = 1 /\ off = 0 THEN req.GET = NoDict
        ELSE /\ req.url = UrlKept
             /\ req.path = Path(UrlKept)
             /\ req.GET = PutAll(NoDict, ParseQuery(Query(msg.url)).pairs)

LookupsInv ==
    Live => IF at <= Blank THEN req.COOKIES = NoDict
            ELSE /\ req.host = Header(HOST, Absent)
                 /\ req.COOKIES = PutAll(NoDict, ParseCookies(Header(COOKIE, <<>>)).pairs)

BodyInv ==
    Live => /\ req.body = IF at <= Blank THEN <<>>
                          ELSE SubSeq(msg.body, 1, IF at = Blank + 1 THEN off ELSE Len(msg.body))
            /\ at <= Blank => req.POST = NoDict
            /\ at > Blank /\ Header(CONTENT_TYPE, <<>>) = FORM =>
                  req.POST = PutAll(NoDict, ParseForm(req.body).pairs)

AssemblyInv ==
    /\ TypeOK /\ PlaceInv /\ FlagInv /\ NamesWhole /\ HeadersInv /\ UrlInv /\ LookupsInv /\ BodyInv
    /\ FaultNeedsCut
----------------------------------------------------------------------------
(* The elements of a message. *)

\* Which element stands where: kinds and texts, two elements for each header.
Laid(m) ==
    LET E == Elements(m)
        blank == 2 * Len(m.headers) + 2
    IN  /\ Len(m.headers) \in Nat
        /\ Len(E) = IF m.body = <<>> THEN blank ELSE blank + 1
        /\ E[1].kind = "url" /\ E[1].text = m.url
        /\ E[blank].kind = "blank" /\ E[blank].text = <<>>
        /\ m.body # <<>> => E[blank + 1].kind = "body" /\ E[blank + 1].text = m.body
        /\ \A k \in 1 .. Len(m.headers) :
              /\ E[2 * k].kind = "field" /\ E[2 * k].text = m.headers[k].name
              /\ E[2 * k + 1].kind = "value" /\ E[2 * k + 1].text = m.headers[k].value

LEMMA ElementsLaid ==
    ASSUME NEW m \in Sends
    PROVE  Laid(m)
  <1> DEFINE E == Elements(m)
             H == Len(m.headers)
             N == IF m.body = <<>> THEN 2 * H + 2 ELSE 2 * H + 3
  <1>1. H \in Nat /\ N \in Nat
    BY SendsAssumption
  <1>2. E = [i \in 1 .. N |->
                IF i = 1 THEN Element("url", m.url)
                ELSE IF i = 2 * H + 2 THEN Element("blank", <<>>)
                ELSE IF i = 2 * H + 3 THEN Element("body", m.body)
                ELSE IF i % 2 = 0 THEN Element("field", m.headers[i \div 2].name)
                ELSE Element("value", m.headers[i \div 2].value)]
    BY <1>1 DEF Elements
  <1>3. Len(E) = N
    BY <1>1, <1>2
  <1> HIDE DEF E, N
  <1>4. E[1] = Element("url", m.url)
    BY <1>1, <1>2 DEF N
  <1>5. E[2 * H + 2] = Element("blank", <<>>)
    BY <1>1, <1>2 DEF N
  <1>6. m.body # <<>> => E[2 * H + 3] = Element("body", m.body)
    BY <1>1, <1>2 DEF N
  <1>7. ASSUME NEW k \in 1 .. H
        PROVE  /\ E[2 * k] = Element("field", m.headers[k].name)
               /\ E[2 * k + 1] = Element("value", m.headers[k].value)
    <2>1. /\ 2 * k \in 1 .. N /\ 2 * k + 1 \in 1 .. N
          /\ 2 * k # 1 /\ 2 * k # 2 * H + 2 /\ 2 * k # 2 * H + 3
          /\ 2 * k + 1 # 1 /\ 2 * k + 1 # 2 * H + 2 /\ 2 * k + 1 # 2 * H + 3
      BY <1>1 DEF N
    <2>2. (2 * k) % 2 = 0 /\ (2 * k) \div 2 = k /\ (2 * k + 1) % 2 = 1 /\ (2 * k + 1) \div 2 = k
      BY <1>1
    <2> QED
      BY <1>2, <2>1, <2>2
  <1>8. 2 * H + 2 + 1 = 2 * H + 3
    BY <1>1
  <1>9. /\ E[1].kind = "url" /\ E[1].text = m.url
        /\ E[2 * H + 2].kind = "blank" /\ E[2 * H + 2].text = <<>>
        /\ m.body # <<>> => E[2 * H + 3].kind = "body" /\ E[2 * H + 3].text = m.body
    BY <1>4, <1>5, <1>6 DEF Element
  <1>10. \A k \in 1 .. H :
            /\ E[2 * k].kind = "field" /\ E[2 * k].text = m.headers[k].name
            /\ E[2 * k + 1].kind = "value" /\ E[2 * k + 1].text = m.headers[k].value
    <2> TAKE k \in 1 .. H
    <2>1. /\ E[2 * k] = Element("field", m.headers[k].name)
          /\ E[2 * k + 1] = Element("value", m.headers[k].value)
      BY <1>7
    <2> QED
      BY <2>1 DEF Element
  <1>11. Len(E) = IF m.body = <<>> THEN 2 * H + 2 ELSE 2 * H + 2 + 1
    BY <1>3, <1>8 DEF N
  <1> QED
    BY <1>1, <1>8, <1>9, <1>10, <1>11 DEF Laid, E

LEMMA ElementsSeq ==
    ASSUME msg \in Sends
    PROVE  End \in Nat /\ DOMAIN Elements(msg) = 1 .. End
  <1>1. PICK n \in Nat : n = (IF msg.body = <<>> THEN 2 * Len(msg.headers) + 2 ELSE 2 * Len(msg.headers) + 3)
    BY ElementsLaid DEF Laid
  <1>2. DOMAIN Elements(msg) = 1 .. n
    <2>1. Len(msg.headers) \in Nat
      BY ElementsLaid DEF Laid
    <2> QED
      BY <1>1, <2>1 DEF Elements
  <1>3. End = n
    BY <1>1, ElementsLaid DEF Laid, End
  <1> QED
    BY <1>2, <1>3

LEMMA SendsTyped ==
    ASSUME NEW m \in Sends
    PROVE  /\ m.url \in Seq(Int) /\ m.url # <<>> /\ m.body \in Seq(Int)
           /\ m.headers \in Seq([name : Seq(Int), value : Seq(Int)])
           /\ \A k \in 1 .. Len(m.headers) :
                 m.headers[k].name \in Seq(Int) /\ m.headers[k].name # <<>> /\ m.headers[k].value \in Seq(Int)
  <1>1. m \in [url : Seq(Int), headers : Seq([name : Seq(Int), value : Seq(Int)]), body : Seq(Int)]
    BY SendsAssumption
  <1>2. m.url # <<>> /\ \A k \in DOMAIN m.headers : m.headers[k].name # <<>>
    BY SendsAssumption
  <1>3. m.headers \in Seq([name : Seq(Int), value : Seq(Int)])
    BY <1>1
  <1>4. PICK h \in Seq(NameValue) : h = m.headers
    BY <1>3 DEF NameValue
  <1>5. \A k \in 1 .. Len(h) : k \in DOMAIN h /\ h[k] \in NameValue
    OBVIOUS
  <1>6. \A k \in 1 .. Len(h) : h[k].name \in Seq(Int) /\ h[k].name # <<>> /\ h[k].value \in Seq(Int)
    BY <1>2, <1>4, <1>5 DEF NameValue
  <1> QED
    BY <1>1, <1>2, <1>4, <1>6

\* Every element is one of these.
LEMMA Which ==
    ASSUME msg \in Sends, NEW i \in 1 .. End
    PROVE  \/ i = 1
           \/ i = Blank
           \/ i = Blank + 1 /\ msg.body # <<>>
           \/ \E k \in 1 .. Len(msg.headers) : i = 2 * k \/ i = 2 * k + 1
  <1>1. Len(msg.headers) \in Nat /\ (End = IF msg.body = <<>> THEN Blank ELSE Blank + 1)
    BY ElementsLaid DEF Laid, End, Blank
  <1>2. Blank = 2 * Len(msg.headers) + 2
    BY DEF Blank
  <1>3. CASE i = 1 \/ i >= Blank
    BY <1>1, <1>2, <1>3
  <1>4. CASE i > 1 /\ i < Blank
    <2>1. PICK k : k = i \div 2
      OBVIOUS
    <2>2. i \in Int /\ i > 1 /\ i < 2 * Len(msg.headers) + 2
      BY <1>1, <1>2, <1>4
    <2>3. k \in Int /\ (i = 2 * k \/ i = 2 * k + 1)
      BY <2>1, <2>2
    <2>4. k \in 1 .. Len(msg.headers)
      BY <1>1, <2>2, <2>3
    <2> QED
      BY <2>3, <2>4
  <1> QED
    BY <1>1, <1>2, <1>3, <1>4

LEMMA Kinds ==
    ASSUME msg \in Sends
    PROVE  /\ Blank \in Nat /\ Blank >= 2 /\ End \in Nat /\ (End = IF msg.body = <<>> THEN Blank ELSE Blank + 1)
           /\ TextAt(1) = msg.url
           /\ TextAt(Blank) = <<>>
           /\ msg.body # <<>> => TextAt(Blank + 1) = msg.body
           /\ \A i \in 1 .. End :
                 /\ TextAt(i) \in Seq(Int)
                 /\ KindAt(i) = "url" <=> i = 1
                 /\ KindAt(i) = "blank" <=> i = Blank
                 /\ KindAt(i) = "body" <=> i = Blank + 1
                 /\ KindAt(i) = "field" => i + 1 < Blank /\ KindAt(i + 1) = "value" /\ TextAt(i) # <<>>
                 /\ KindAt(i) = "value" => i > 2 /\ i < Blank /\ KindAt(i - 1) = "field" /\ TextAt(i - 1) # <<>>
                 /\ KindAt(i) \in {"url", "field", "value", "blank", "body"}
  <1>1. PICK H : H = Len(msg.headers)
    OBVIOUS
  <1>2. /\ H \in Nat /\ Blank = 2 * H + 2
        /\ (End = IF msg.body = <<>> THEN Blank ELSE Blank + 1)
        /\ KindAt(1) = "url" /\ TextAt(1) = msg.url
        /\ KindAt(Blank) = "blank" /\ TextAt(Blank) = <<>>
        /\ msg.body # <<>> => KindAt(Blank + 1) = "body" /\ TextAt(Blank + 1) = msg.body
    BY <1>1, ElementsLaid DEF Laid, End, Blank, KindAt, TextAt
  <1>3. ASSUME NEW k \in 1 .. H
        PROVE  /\ KindAt(2 * k) = "field" /\ TextAt(2 * k) \in Seq(Int) \ {<<>>}
               /\ KindAt(2 * k + 1) = "value" /\ TextAt(2 * k + 1) \in Seq(Int)
    <2>1. /\ KindAt(2 * k) = "field" /\ TextAt(2 * k) = msg.headers[k].name
          /\ KindAt(2 * k + 1) = "value" /\ TextAt(2 * k + 1) = msg.headers[k].value
      BY <1>1, ElementsLaid DEF Laid, KindAt, TextAt
    <2>2. msg.headers[k].name \in Seq(Int) /\ msg.headers[k].name # <<>> /\ msg.headers[k].value \in Seq(Int)
      BY <1>1, SendsTyped
    <2> QED
      BY <2>1, <2>2
  <1>4. msg.url \in Seq(Int) /\ msg.body \in Seq(Int) /\ <<>> \in Seq(Int)
    BY SendsTyped
  <1>5. ASSUME NEW i \in 1 .. End
        PROVE  /\ TextAt(i) \in Seq(Int)
               /\ KindAt(i) = "url" <=> i = 1
               /\ KindAt(i) = "blank" <=> i = Blank
               /\ KindAt(i) = "body" <=> i = Blank + 1
               /\ KindAt(i) = "field" => i + 1 < Blank /\ KindAt(i + 1) = "value" /\ TextAt(i) # <<>>
               /\ KindAt(i) = "value" => i > 2 /\ i < Blank /\ KindAt(i - 1) = "field" /\ TextAt(i - 1) # <<>>
               /\ KindAt(i) \in {"url", "field", "value", "blank", "body"}
    <2>1. CASE i = 1
      BY <1>2, <1>4, <2>1
    <2>2. CASE i = Blank
      <3>1. KindAt(i) = "blank" /\ TextAt(i) = <<>>
        BY <1>2, <2>2
      <3>2. i # 1 /\ i # Blank + 1
        BY <1>2, <2>2
      <3> QED
        BY <1>4, <2>2, <3>1, <3>2
    <2>3. CASE i = Blank + 1 /\ msg.body # <<>>
      <3>1. KindAt(i) = "body" /\ TextAt(i) = msg.body
        BY <1>2, <2>3
      <3>2. i # 1 /\ i # Blank
        BY <1>2, <2>3
      <3> QED
        BY <1>4, <2>3, <3>1, <3>2
    <2>4. ASSUME NEW k \in 1 .. H, i = 2 * k
          PROVE  /\ KindAt(i) = "field" /\ KindAt(i + 1) = "value" /\ TextAt(i) # <<>> /\ TextAt(i) \in Seq(Int)
                 /\ i # 1 /\ i + 1 < Blank
      <3>1. KindAt(i) = "field" /\ KindAt(i + 1) = "value" /\ TextAt(i) # <<>> /\ TextAt(i) \in Seq(Int)
        BY <1>3, <2>4
      <3>2. i # 1 /\ i + 1 < Blank
        BY <1>2, <2>4
      <3> QED
        BY <3>1, <3>2
    <2>5. ASSUME NEW k \in 1 .. H, i = 2 * k + 1
          PROVE  /\ KindAt(i) = "value" /\ KindAt(i - 1) = "field" /\ TextAt(i - 1) # <<>> /\ TextAt(i) \in Seq(Int)
                 /\ i > 2 /\ i < Blank
      <3>1. i - 1 = 2 * k
        BY <2>5
      <3>2. KindAt(i) = "value" /\ KindAt(i - 1) = "field" /\ TextAt(i - 1) # <<>> /\ TextAt(i) \in Seq(Int)
        BY <1>3, <2>5, <3>1
      <3>3. i > 2 /\ i < Blank
        BY <1>2, <2>5
      <3> QED
        BY <3>2, <3>3
    <2>6. \/ i = 1
          \/ i = Blank
          \/ i = Blank + 1 /\ msg.body # <<>>
          \/ \E k \in 1 .. H : i = 2 * k \/ i = 2 * k + 1
      BY <1>1, Which
    <2>7. CASE \E k \in 1 .. H : i = 2 * k
      BY <1>2, <2>4, <2>7
    <2>8. CASE \E k \in 1 .. H : i = 2 * k + 1
      BY <1>2, <2>5, <2>8
    <2> QED
      BY <2>1, <2>2, <2>3, <2>6, <2>7, <2>8
  <1> QED
    BY <1>2, <1>5
----------------------------------------------------------------------------
(* What every callback does to the place. *)

LEMMA FieldPlace ==
    ASSUME msg \in Sends, NEW i \in 1 .. End, KindAt(i) = "field"
    PROVE  /\ Blank \in Nat /\ Blank <= End /\ i + 1 < Blank
           /\ KindAt(i + 1) = "value" /\ TextAt(i) # <<>>
  BY Kinds

LEMMA ValuePlace ==
    ASSUME msg \in Sends, NEW i \in 1 .. End, KindAt(i) = "value"
    PROVE  Blank \in Nat /\ Blank <= End /\ i < Blank /\ TextAt(i - 1) # <<>>
  BY Kinds

\* The piece that has come ends its element, or it does not.
Through(n) == off + n = Len(TextAt(at)) /\ at' = at + 1 /\ off' = 0 /\ cut' = cut /\ late' = late
Begun(n) ==
    /\ n > 0 /\ at' = at /\ off' = off + n
    /\ \/ off + n < Len(TextAt(at)) /\ cut' = cut \cup {at} /\ late' = late
       \/ off + n = Len(TextAt(at)) /\ cut' = cut /\ late' = late \cup {at}

LEMMA PieceAt ==
    ASSUME TypeOK, PlaceInv, NEW kind, NEW n \in Lengths, Piece(kind, n)
    PROVE  /\ status = "receiving" /\ n \in Nat /\ End \in Nat /\ at \in 1 .. End /\ KindAt(at) = kind
           /\ TextAt(at) \in Seq(Int) /\ off \in Nat
           /\ n = 0 <=> off = Len(TextAt(at))
           /\ msg' = msg /\ count' = count
           /\ Through(n) \/ Begun(n)
  <1>1. status = "receiving" /\ at <= End /\ msg' = msg /\ count' = count /\ KindAt(at) = kind
    BY DEF Piece, End, KindAt
  <1>2. n \in Nat /\ End \in Nat /\ at \in 1 .. End /\ off \in Nat
    <2>1. n \in Nat
      BY DEF Lengths
    <2>2. off \in Nat /\ at \in 1 .. (End + 1)
      BY <1>1 DEF TypeOK, PlaceInv
    <2>3. End \in Nat
      BY Kinds DEF TypeOK
    <2> QED
      BY <1>1, <2>1, <2>2, <2>3
  <1>3. TextAt(at) \in Seq(Int)
    BY <1>2, Kinds DEF TypeOK
  <1>4. (n = 0 <=> off = Len(TextAt(at))) /\ off + n <= Len(TextAt(at)) /\ (Ends(n) \/ Continues(n))
    BY DEF Piece, TextAt
  <1>5. Through(n) \/ Begun(n)
    <2>1. CASE Ends(n)
      BY <2>1 DEF Through, Ends, TextAt
    <2>2. CASE Continues(n)
      <3>1. n # 0 /\ at' = at /\ off' = off + n
            /\ IF off' < Len(TextAt(at)) THEN cut' = cut \cup {at} /\ late' = late
                                         ELSE late' = late \cup {at} /\ cut' = cut
        BY <2>2 DEF Continues, TextAt
      <3>2. PICK l \in Nat : l = Len(TextAt(at))
        BY <1>3
      <3>3. n > 0 /\ off + n <= l
        BY <1>2, <1>4, <3>1, <3>2
      <3>4. off + n < l \/ (off + n = l /\ ~ (off + n < l))
        BY <1>2, <3>2, <3>3
      <3> QED
        BY <3>1, <3>2, <3>3, <3>4 DEF Begun
    <2> QED
      BY <1>4, <2>1, <2>2
  <1> QED
    BY <1>1, <1>2, <1>3, <1>4, <1>5

\* Nothing that is not cut is in the middle.
LEMMA WholeOrCut ==
    ASSUME TypeOK, PlaceInv, NEW kind, NEW n \in Lengths, Piece(kind, n), off > 0, at \notin cut
    PROVE  off = Len(TextAt(at)) /\ n = 0 /\ Through(n)
  <1>1. off = Len(TextAt(at)) /\ n = 0
    BY PieceAt DEF PlaceInv
  <1> QED
    BY <1>1, PieceAt DEF Begun

LEMMA SameMessage ==
    ASSUME msg' = msg
    PROVE  /\ Blank' = Blank /\ End' = End
           /\ \A i : KindAt(i)' = KindAt(i) /\ TextAt(i)' = TextAt(i)
  BY DEF Blank, End, KindAt, TextAt

LEMMA PieceKeepsPlace ==
    ASSUME TypeOK, PlaceInv, NEW kind, NEW n \in Lengths, Piece(kind, n),
           status' \in {"receiving", "rejected", "undefined"}
    PROVE  /\ at' \in Nat /\ off' \in Nat /\ msg' \in Sends
           /\ cut' \in SUBSET (Nat \ {0}) /\ late' \in SUBSET (Nat \ {0})
           /\ PlaceInv'
           /\ off > 0 => at \in cut' \cup late'
  <1>1. /\ status = "receiving" /\ n \in Nat /\ End \in Nat /\ at \in 1 .. End
        /\ msg' = msg /\ End' = End /\ \A i : TextAt(i)' = TextAt(i)
        /\ off \in Nat /\ cut \in SUBSET (Nat \ {0}) /\ late \in SUBSET (Nat \ {0}) /\ msg \in Sends
        /\ Len(TextAt(at)) \in Nat
    BY PieceAt, SameMessage DEF TypeOK
  <1>2. (off > 0 <=> at \in cut \cup late) /\ cut \cup late \subseteq 1 .. at
    BY <1>1 DEF PlaceInv, Live
  <1>3. CASE Through(n)
    <2>1. at' = at + 1 /\ off' = 0 /\ cut' = cut /\ late' = late /\ at + 1 \notin cut \cup late
      BY <1>1, <1>2, <1>3 DEF Through
    <2>2. at' \in 1 .. (End' + 1) /\ ~ (off' > 0)
      BY <1>1, <2>1
    <2>3. at' \notin cut' \cup late' /\ cut' \cup late' \subseteq 1 .. at'
      BY <1>1, <1>2, <2>1
    <2>4. PlaceInv'
      BY <2>2, <2>3, status' # "complete" DEF PlaceInv
    <2> QED
      BY <1>1, <1>2, <2>1, <2>4
  <1>4. CASE Begun(n)
    <2>1. /\ at' = at /\ off' = off + n /\ n > 0 /\ off + n <= Len(TextAt(at))
          /\ cut' \cup late' = cut \cup late \cup {at}
          /\ at \notin cut' => off + n = Len(TextAt(at))
          /\ cut' \in SUBSET (Nat \ {0}) /\ late' \in SUBSET (Nat \ {0})
      <3>1. at \in Nat \ {0}
        BY <1>1
      <3>2. CASE off + n < Len(TextAt(at)) /\ cut' = cut \cup {at} /\ late' = late
        <4>1. off + n <= Len(TextAt(at)) /\ at \in cut'
          BY <1>1, <3>2
        <4> QED
          BY <1>1, <1>4, <3>1, <3>2, <4>1 DEF Begun
      <3>3. CASE off + n = Len(TextAt(at)) /\ cut' = cut /\ late' = late \cup {at}
        <4>1. off + n <= Len(TextAt(at))
          BY <1>1, <3>3
        <4> QED
          BY <1>1, <1>4, <3>1, <3>3, <4>1 DEF Begun
      <3> QED
        BY <1>4, <3>2, <3>3 DEF Begun
    <2>2. at' \in 1 .. (End' + 1) /\ off' > 0 /\ at' <= End' /\ off' <= Len(TextAt(at)')
          /\ (at' \notin cut' => off' = Len(TextAt(at)'))
      BY <1>1, <2>1 DEF TextAt
    <2>3. at' \in cut' \cup late' /\ cut' \cup late' \subseteq 1 .. at'
      BY <1>1, <1>2, <2>1
    <2>4. PlaceInv'
      BY <2>2, <2>3, status' # "complete" DEF PlaceInv
    <2> QED
      BY <1>1, <2>1, <2>3, <2>4
  <1> QED
    BY <1>3, <1>4, PieceAt

LEMMA PieceKeepsNames ==
    ASSUME TypeOK, PlaceInv, NamesWhole, NEW kind, NEW n \in Lengths, Piece(kind, n),
           status' = "receiving", kind # "field" \/ off = 0
    PROVE  NamesWhole'
  <1>1. /\ status = "receiving" /\ n \in Nat /\ End \in Nat /\ at \in 1 .. End /\ KindAt(at) = kind
        /\ \A i : KindAt(i)' = KindAt(i)
    BY PieceAt, SameMessage
  <1>2. /\ off > 0 <=> at \in cut \cup late
        /\ cut \cup late \subseteq 1 .. at /\ \A i \in cut \cup late : i < at => KindAt(i) # "field"
    BY <1>1 DEF PlaceInv, NamesWhole, Live
  <1>3. \A i \in cut' \cup late' : i < at' => KindAt(i) # "field"
    <2>1. CASE Through(n)
      BY <1>1, <1>2, <2>1 DEF Through
    <2>2. CASE Begun(n)
      <3>1. at' = at /\ cut' \cup late' = cut \cup late \cup {at}
        BY <2>2 DEF Begun
      <3> QED
        BY <1>1, <1>2, <3>1
    <2> QED
      BY <2>1, <2>2, PieceAt
  <1> QED
    BY <1>1, <1>3 DEF NamesWhole

\* Only the first piece of a value is stored.
LEMMA StoredSame ==
    ASSUME TypeOK, PlaceInv, NEW kind, NEW n \in Lengths, Piece(kind, n), kind # "value" \/ off > 0
    PROVE  Stored' = Stored /\ \A i \in Stored : i \in cut' <=> i \in cut
  <1>1. /\ status = "receiving" /\ n \in Nat /\ End \in Nat /\ at \in 1 .. End /\ KindAt(at) = kind
        /\ End' = End /\ \A i : KindAt(i)' = KindAt(i)
        /\ off \in Nat
    BY PieceAt, SameMessage DEF TypeOK
  <1>2. off > 0 /\ Begun(n) => at \in cut
    BY <1>1, WholeOrCut DEF Begun, Through
  <1>3. CASE Through(n)
    <2>1. \A i \in 1 .. End : (i < at' \/ (i = at' /\ off' > 0)) <=> i <= at
      BY <1>1, <1>3 DEF Through
    <2>2. \A i \in 1 .. End : KindAt(i) = "value" => ((i < at \/ (i = at /\ off > 0)) <=> i <= at)
      BY <1>1
    <2> QED
      BY <1>1, <1>3, <2>1, <2>2 DEF Stored, Through
  <1>4. CASE Begun(n)
    <2>1. \A i \in 1 .. End : (i < at' \/ (i = at' /\ off' > 0)) <=> i <= at
      BY <1>1, <1>4 DEF Begun
    <2>2. \A i \in 1 .. End : KindAt(i) = "value" => ((i < at \/ (i = at /\ off > 0)) <=> i <= at)
      BY <1>1
    <2>3. \A i \in Stored : i \in cut' <=> i \in cut
      BY <1>1, <1>2, <1>4 DEF Stored, Begun
    <2> QED
      BY <1>1, <2>1, <2>2, <2>3 DEF Stored
  <1> QED
    BY <1>3, <1>4, PieceAt

LEMMA HeadersSame ==
    ASSUME HeadersInv, Live, msg' = msg, Stored' = Stored, req'.HEADERS = req.HEADERS,
           \A i \in Stored : i \in cut' <=> i \in cut
    PROVE  HeadersInv'
  <1>1. \A i : KindAt(i)' = KindAt(i) /\ TextAt(i)' = TextAt(i)
    BY SameMessage
  <1>2. /\ req.HEADERS = [n \in {TextAt(i - 1) : i \in Stored} |-> req.HEADERS[n]]
        /\ \A i \in Stored :
              LastOfName(i) =>
                 IF i \in cut THEN IsStrictPrefix(req.HEADERS[TextAt(i - 1)], TextAt(i))
                              ELSE req.HEADERS[TextAt(i - 1)] = TextAt(i)
    BY DEF HeadersInv
  <1>3. {TextAt(i - 1) : i \in Stored}' = {TextAt(i - 1) : i \in Stored}
    BY <1>1
  <1>4. \A i \in Stored : LastOfName(i)' => LastOfName(i)
    BY <1>1 DEF LastOfName
  <1>5. \A i \in Stored :
           LastOfName(i)' =>
              IF i \in cut' THEN IsStrictPrefix(req'.HEADERS[TextAt(i - 1)'], TextAt(i)')
                            ELSE req'.HEADERS[TextAt(i - 1)'] = TextAt(i)'
    BY <1>1, <1>2, <1>4
  <1>6. req'.HEADERS = [n \in {TextAt(i - 1) : i \in Stored}' |-> req'.HEADERS[n]]
    BY <1>2, <1>3
  <1> QED
    BY <1>5, <1>6 DEF HeadersInv

\* A URL without bytes has no query and adds nothing to GET.
LEMMA EmptyQuery == ParseQuery(Query(<<>>)) = [pairs |-> <<>>, negative |-> FALSE]
  <1> DEFINE Nothing == [pairs |-> <<>>, negative |-> FALSE]
             Solves(g) == g = [i \in 1 .. 1 |-> QueryAt(<<>>, FALSE, 0, g, i)]
  <1>1. <<>> \in Seq(Int) /\ Len(<<>>) = 0 /\ Len(<<>>) + 1 = 1
    OBVIOUS
  <1>2. \A c : Find(<<>>, c, 1) = 0
    <2> TAKE c
    <2>1. PICK s \in Seq(Int) : s = <<>>
      BY <1>1
    <2>2. \A k \in 1 .. Len(s) : s[k] # c
      BY <1>1, <2>1
    <2>3. Find(s, c, 1) = 0
      BY <2>2, FindNone
    <2> QED
      BY <2>1, <2>3
  <1>3. \A g : QueryAt(<<>>, FALSE, 0, g, 1) = Nothing
    <2> TAKE g
    <2>1. SelectInSubSeq(<<>>, 1, Len(<<>>), LAMBDA c : c = EQ) = Find(<<>>, EQ, 1)
      BY DEF Find
    <2> QED
      BY <1>2, <2>1 DEF QueryAt
  <1>4. Solves([i \in 1 .. 1 |-> Nothing])
    <2>1. PICK g : g = [i \in 1 .. 1 |-> Nothing]
      OBVIOUS
    <2>2. \A i \in 1 .. 1 : QueryAt(<<>>, FALSE, 0, g, i) = Nothing
      <3>1. \A i \in 1 .. 1 : i = 1
        OBVIOUS
      <3> QED
        BY <1>3, <3>1
    <2>3. Solves(g)
      BY <2>1, <2>2
    <2> QED
      BY <2>1, <2>3
  <1>5. QueryFrom(<<>>, FALSE, 0) = CHOOSE g : Solves(g)
    BY <1>1 DEF QueryFrom
  <1>6. Solves(CHOOSE g : Solves(g))
    <2> HIDE DEF Solves
    <2> QED
      BY <1>4
  <1>7. PICK from : from = QueryFrom(<<>>, FALSE, 0) /\ from = [i \in 1 .. 1 |-> QueryAt(<<>>, FALSE, 0, from, i)]
    BY <1>5, <1>6
  <1>8. from[1] = Nothing
    <2>1. 1 \in 1 .. 1
      OBVIOUS
    <2>2. from[1] = QueryAt(<<>>, FALSE, 0, from, 1)
      BY <1>7, <2>1
    <2> QED
      BY <1>3, <2>2
  <1>9. Query(<<>>) = <<>>
    BY <1>2 DEF Query
  <1> QED
    BY <1>7, <1>8, <1>9 DEF ParseQuery, QueryBy

LEMMA PutNone ==
    ASSUME NEW d, NEW p
    PROVE  PutAll(PutAll(d, p), <<>>) = PutAll(d, p)
  <1>1. Names(<<>>) = {}
    BY DEF Names
  <1> QED
    BY <1>1 DEF PutAll

LEMMA OnUrlKeeps ==
    ASSUME AssemblyInv, NEW n \in Lengths, OnUrl(n)
    PROVE  AssemblyInv'
  <1> USE DEF AssemblyInv
  <1>1. Piece("url", n) /\ UNCHANGED aux
    BY DEF OnUrl
  <1>2. PICK b, q : b = Bytes(n) /\ q = ParseQuery(Query(b))
    OBVIOUS
  <1>3. /\ status' = IF q.negative THEN "undefined" ELSE status
        /\ req' = [req EXCEPT !.url = b, !.path = Path(b), !.GET = PutAll(@, q.pairs)]
    BY <1>2 DEF OnUrl
  <1>4. /\ status = "receiving" /\ n \in Nat /\ End \in Nat /\ at \in 1 .. End /\ KindAt(at) = "url"
        /\ TextAt(at) \in Seq(Int) /\ msg' = msg /\ msg \in Sends
        /\ End' = End /\ Blank' = Blank /\ \A i : KindAt(i)' = KindAt(i) /\ TextAt(i)' = TextAt(i)
        /\ off \in Nat /\ Live
    BY <1>1, PieceAt, SameMessage DEF TypeOK, Live
  <1>5. at = 1 /\ Blank \in Nat /\ Blank >= 2 /\ TextAt(1) = msg.url
    BY <1>4, Kinds
  <1>6. status' \in {"receiving", "undefined"}
    BY <1>3, <1>4
  <1>7. /\ at' \in Nat /\ off' \in Nat /\ msg' \in Sends
        /\ cut' \in SUBSET (Nat \ {0}) /\ late' \in SUBSET (Nat \ {0})
        /\ PlaceInv'
    BY <1>1, <1>6, PieceKeepsPlace
  <1>8. /\ req' = [f \in Fields |-> req'[f]]
        /\ req'.url = b /\ req'.path = Path(b) /\ req'.GET = PutAll(req.GET, q.pairs)
        /\ req'.HEADERS = req.HEADERS /\ req'.host = req.host /\ req'.COOKIES = req.COOKIES
        /\ req'.body = req.body /\ req'.POST = req.POST
    BY <1>3 DEF TypeOK, Fields
  <1>9. TypeOK'
    BY <1>1, <1>6, <1>7, <1>8 DEF TypeOK, aux
  <1>10. at' \in {1, 2} /\ at' <= Blank /\ ~ lastWasHeader /\ lastWasHeader' = lastWasHeader
    BY <1>1, <1>4, <1>5, PieceAt DEF Through, Begun, FlagInv, aux
  <1>11. FlagInv'
    <2>1. at' = 2 => off' = 0
      BY <1>1, <1>5, PieceAt DEF Through, Begun
    <2>2. KindAt(1) = "url" /\ (2 <= End => KindAt(2) # "value")
      BY <1>4, <1>5, Kinds
    <2> QED
      BY <1>4, <1>6, <1>10, <2>1, <2>2 DEF FlagInv
  <1>12. 1 \notin cut' => \/ off = 0 /\ b = msg.url /\ 1 \notin late /\ (1 \in late' <=> Begun(n))
                          \/ off > 0 /\ n = 0 /\ b = <<>> /\ 1 \in late /\ late' = late /\ Through(n)
    <2>1. SUFFICES ASSUME 1 \notin cut'
                   PROVE  \/ off = 0 /\ b = msg.url /\ 1 \notin late /\ (1 \in late' <=> Begun(n))
                          \/ off > 0 /\ n = 0 /\ b = <<>> /\ 1 \in late /\ late' = late /\ Through(n)
      OBVIOUS
    <2>2. 1 \notin cut /\ off + n = Len(TextAt(1)) /\ (Through(n) => late' = late)
          /\ (Begun(n) => 1 \in late' /\ n > 0)
      BY <1>1, <1>4, <1>5, <2>1, PieceAt DEF Through, Begun
    <2>3. 1 \in late <=> off > 0
      BY <1>4, <1>5, <2>2 DEF PlaceInv
    <2>4. b = SubSeq(TextAt(1), off + 1, off + n)
      BY <1>2, <1>5 DEF Bytes, TextAt
    <2>5. CASE off = 0
      <3>1. b = SubSeq(TextAt(1), 1, Len(TextAt(1)))
        BY <1>4, <2>2, <2>4, <2>5
      <3>2. b = msg.url
        BY <1>4, <1>5, <3>1
      <3> QED
        BY <1>1, <1>4, <2>2, <2>3, <2>5, <3>2, PieceAt
    <2>6. CASE off > 0
      <3>1. n = 0 /\ Through(n)
        BY <1>1, <1>5, <2>2, <2>6, WholeOrCut
      <3>2. b = <<>>
        BY <1>4, <1>5, <2>4, <3>1
      <3> QED
        BY <2>2, <2>3, <2>6, <3>1, <3>2
    <2> QED
      BY <1>4, <2>5, <2>6
  <1>13. CASE status' = "undefined"
    <2>1. ~ Live' /\ status' # "rejected"
      BY <1>13 DEF Live
    <2>2. WellFormed(msg) => 1 \in cut'
      BY <1>2, <1>3, <1>4, <1>12, <1>13, EmptyQuery DEF WellFormed
    <2>3. FaultNeedsCut'
      BY <1>4, <2>1, <2>2 DEF FaultNeedsCut
    <2> QED
      BY <1>7, <1>9, <1>11, <2>1, <2>3 DEF NamesWhole, HeadersInv, UrlInv, LookupsInv, BodyInv
  <1>14. CASE status' = "receiving"
    <2>1. Live /\ Live'
      BY <1>4, <1>14 DEF Live
    <2>2. NamesWhole'
      BY <1>1, <1>14, PieceKeepsNames
    <2>3. HeadersInv'
      BY <1>1, <1>4, <1>8, <2>1, StoredSame, HeadersSame
    <2>4. UrlInv'
      <3>1. SUFFICES ASSUME 1 \notin cut'
                     PROVE  /\ ~ (at' = 1 /\ off' = 0) /\ b = UrlKept'
                            /\ req'.GET = PutAll(NoDict, ParseQuery(Query(msg.url)).pairs)
        BY <1>4, <1>8 DEF UrlInv
      <3>2. 1 \notin cut /\ ~ (at' = 1 /\ off' = 0) /\ (Through(n) => at' # 1) /\ (Begun(n) => at' = 1)
        BY <1>1, <1>4, <1>5, <3>1, PieceAt DEF Through, Begun
      <3>3. CASE off = 0 /\ b = msg.url /\ 1 \notin late /\ (1 \in late' <=> Begun(n))
        <4>1. req.GET = NoDict
          BY <1>4, <1>5, <3>2, <3>3 DEF UrlInv
        <4>2. UrlKept' = msg.url
          BY <1>1, <1>4, <3>2, <3>3, PieceAt DEF UrlKept
        <4> QED
          BY <1>2, <1>8, <3>2, <3>3, <4>1, <4>2
      <3>4. CASE off > 0 /\ n = 0 /\ b = <<>> /\ 1 \in late /\ late' = late /\ Through(n)
        <4>1. req.GET = PutAll(NoDict, ParseQuery(Query(msg.url)).pairs)
          BY <1>4, <1>5, <3>2, <3>4 DEF UrlInv
        <4>2. q.pairs = <<>>
          BY <1>2, <3>4, EmptyQuery
        <4>3. PutAll(req.GET, q.pairs) = req.GET
          BY <4>1, <4>2, PutNone
        <4>4. UrlKept' = <<>>
          BY <3>2, <3>4 DEF UrlKept
        <4> QED
          BY <1>8, <3>2, <3>4, <4>1, <4>3, <4>4
      <3> QED
        BY <1>12, <3>1, <3>3, <3>4
    <2>5. LookupsInv'
      BY <1>4, <1>5, <1>8, <1>10, <2>1 DEF LookupsInv
    <2>6. BodyInv'
      BY <1>4, <1>5, <1>8, <1>10, <2>1 DEF BodyInv
    <2>7. FaultNeedsCut'
      BY <1>14 DEF FaultNeedsCut
    <2> QED
      BY <1>7, <1>9, <1>11, <2>2, <2>3, <2>4, <2>5, <2>6, <2>7
  <1> QED
    BY <1>6, <1>13, <1>14

\* Behind the URL, the URL is settled.
LEMMA UrlSame ==
    ASSUME TypeOK, PlaceInv, UrlInv, NEW kind, NEW n \in Lengths, Piece(kind, n), kind # "url",
           req'.url = req.url, req'.path = req.path, req'.GET = req.GET
    PROVE  UrlInv'
  <1>1. /\ status = "receiving" /\ End \in Nat /\ at \in 1 .. End /\ KindAt(at) = kind /\ msg' = msg
        /\ off \in Nat /\ msg \in Sends
    BY PieceAt DEF TypeOK
  <1>2. at # 1
    BY <1>1, Kinds
  <1>3. at' # 1 /\ (1 \in cut' <=> 1 \in cut) /\ (1 \in late' <=> 1 \in late)
    BY <1>1, <1>2, PieceAt DEF Through, Begun
  <1>4. 1 \notin cut => req.url = UrlKept /\ req.path = Path(UrlKept)
                        /\ req.GET = PutAll(NoDict, ParseQuery(Query(msg.url)).pairs)
    BY <1>1, <1>2 DEF UrlInv, Live
  <1>5. UrlKept' = UrlKept
    BY <1>1, <1>2, <1>3 DEF UrlKept
  <1> QED
    BY <1>1, <1>3, <1>4, <1>5 DEF UrlInv

\* Before the blank line, nothing is looked up and no body taken.
LEMMA RestSame ==
    ASSUME TypeOK, PlaceInv, LookupsInv, BodyInv, NEW kind, NEW n \in Lengths, Piece(kind, n),
           kind \in {"field", "value"},
           req'.COOKIES = req.COOKIES, req'.body = req.body, req'.POST = req.POST
    PROVE  LookupsInv' /\ BodyInv'
  <1>1. /\ status = "receiving" /\ End \in Nat /\ at \in 1 .. End /\ KindAt(at) = kind /\ msg' = msg
        /\ Blank' = Blank /\ msg \in Sends
    BY PieceAt, SameMessage DEF TypeOK
  <1>2. Blank \in Nat /\ at < Blank
    BY <1>1, Kinds
  <1>3. at' <= Blank
    BY <1>1, <1>2, PieceAt DEF Through, Begun
  <1>4. req.COOKIES = NoDict /\ req.body = <<>> /\ req.POST = NoDict
    BY <1>1, <1>2 DEF LookupsInv, BodyInv, Live
  <1>5. LookupsInv'
    BY <1>1, <1>3, <1>4 DEF LookupsInv
  <1>6. BodyInv'
    <2>1. ~ (at' > Blank)
      BY <1>1, <1>2, <1>3, PieceAt DEF Through, Begun
    <2> QED
      BY <1>1, <1>3, <1>4, <2>1 DEF BodyInv
  <1> QED
    BY <1>5, <1>6

LEMMA OnHeaderFieldKeeps ==
    ASSUME AssemblyInv, NEW n \in Lengths, OnHeaderField(n)
    PROVE  AssemblyInv'
  <1> USE DEF AssemblyInv
  <1>1. Piece("field", n) /\ req' = req
    BY DEF OnHeaderField
  <1>2. IF lastWasHeader
          THEN status' = "rejected" /\ lastWasHeader' = lastWasHeader
          ELSE lastWasHeader' = TRUE /\ currentHeader' = Bytes(n) /\ status' = status
    BY DEF OnHeaderField, aux
  <1>3. /\ status = "receiving" /\ n \in Nat /\ End \in Nat /\ at \in 1 .. End /\ KindAt(at) = "field"
        /\ TextAt(at) \in Seq(Int) /\ msg' = msg /\ msg \in Sends
        /\ End' = End /\ \A i : KindAt(i)' = KindAt(i) /\ TextAt(i)' = TextAt(i)
        /\ off \in Nat
    BY <1>1, PieceAt, SameMessage DEF TypeOK
  <1>4. /\ Blank \in Nat /\ at + 1 < Blank /\ KindAt(at + 1) = "value" /\ TextAt(at) # <<>>
        /\ Blank <= End
    BY <1>3, FieldPlace
  <1>5. status' \in {"receiving", "rejected"}
    BY <1>2, <1>3
  <1>6. /\ at' \in Nat /\ off' \in Nat /\ msg' \in Sends
        /\ cut' \in SUBSET (Nat \ {0}) /\ late' \in SUBSET (Nat \ {0})
        /\ PlaceInv'
        /\ off > 0 => at \in cut' \cup late'
    BY <1>1, <1>5, PieceKeepsPlace
  <1>7. TypeOK'
    BY <1>1, <1>2, <1>5, <1>6 DEF TypeOK
  <1>8. lastWasHeader <=> off > 0
    BY <1>3 DEF FlagInv
  <1>9. CASE status' = "rejected"
    <2>1. ~ Live' /\ status' # "receiving"
      BY <1>9 DEF Live
    <2>2. off > 0 /\ at \in cut' \cup late'
      BY <1>2, <1>3, <1>6, <1>8, <1>9
    <2>3. at \in cut' \cup late' /\ Elements(msg')[at].kind = "field"
      BY <1>3, <2>2 DEF KindAt
    <2>4. FaultNeedsCut'
      BY <1>9, <2>3 DEF FaultNeedsCut
    <2>5. FlagInv'
      BY <1>9 DEF FlagInv
    <2> QED
      BY <1>6, <1>7, <2>1, <2>4, <2>5 DEF NamesWhole, HeadersInv, UrlInv, LookupsInv, BodyInv
  <1>10. CASE status' = "receiving"
    <2>1. Live /\ Live'
      BY <1>3, <1>10 DEF Live
    <2>2. off = 0 /\ lastWasHeader' = TRUE /\ currentHeader' = Bytes(n)
      BY <1>2, <1>3, <1>8, <1>10
    <2>3. NamesWhole'
      BY <1>1, <1>10, <2>2, PieceKeepsNames
    <2>4. HeadersInv'
      BY <1>1, <1>3, <2>1, StoredSame, HeadersSame
    <2>5. UrlInv'
      BY <1>1, UrlSame
    <2>6. LookupsInv' /\ BodyInv'
      BY <1>1, RestSame
    <2>7. FlagInv'
      <3>1. CASE Through(n)
        <4>1. currentHeader' = SubSeq(TextAt(at), 1, Len(TextAt(at)))
          BY <1>3, <2>2, <3>1 DEF Through, Bytes, TextAt
        <4>2. at' = at + 1 /\ off' = 0 /\ currentHeader' = TextAt(at)
          BY <1>3, <3>1, <4>1 DEF Through
        <4>3. at' - 1 = at /\ at + 1 <= End /\ off' = 0
          BY <1>3, <1>4, <4>2
        <4>4. KindAt(at)' = "value" /\ TextAt(at - 1)' = TextAt(at)
          BY <1>3, <1>4, <4>2, <4>3 DEF KindAt, TextAt
        <4> QED
          BY <1>3, <1>10, <2>2, <4>2, <4>3, <4>4 DEF FlagInv
      <3>2. CASE Begun(n)
        <4>1. at' = at /\ off' > 0
          BY <1>3, <3>2 DEF Begun
        <4> QED
          BY <1>3, <1>10, <2>2, <4>1 DEF FlagInv
      <3> QED
        BY <1>1, <3>1, <3>2, PieceAt
    <2>8. FaultNeedsCut'
      BY <1>10 DEF FaultNeedsCut
    <2> QED
      BY <1>6, <1>7, <2>3, <2>4, <2>5, <2>6, <2>7, <2>8
  <1> QED
    BY <1>5, <1>9, <1>10

LEMMA StoredGrows ==
    ASSUME TypeOK, PlaceInv, NEW n \in Lengths, Piece("value", n), off = 0
    PROVE  /\ Stored' = Stored \cup {at}
           /\ \A i \in Stored : i < at /\ (i \in cut' <=> i \in cut)
  <1>1. /\ status = "receiving" /\ n \in Nat /\ End \in Nat /\ at \in 1 .. End /\ KindAt(at) = "value"
        /\ End' = End /\ \A i : KindAt(i)' = KindAt(i)
    BY PieceAt, SameMessage DEF TypeOK
  <1>2. Stored = {i \in 1 .. End : KindAt(i) = "value" /\ i < at}
    BY off = 0 DEF Stored
  <1>3. \A i \in 1 .. End : (i < at' \/ (i = at' /\ off' > 0)) <=> i <= at
    BY <1>1, off = 0, PieceAt DEF Through, Begun
  <1>4. Stored' = {i \in 1 .. End : KindAt(i) = "value" /\ i <= at}
    BY <1>1, <1>3 DEF Stored
  <1>5. \A i \in Stored : i < at
    BY <1>2
  <1>6. \A i \in Stored : i \in cut' <=> i \in cut
    BY <1>5, <1>1, PieceAt DEF Through, Begun
  <1> QED
    BY <1>1, <1>2, <1>4, <1>5, <1>6

\* The first piece of a value becomes what is stored under its name.
LEMMA HeadersStored ==
    ASSUME TypeOK, PlaceInv, HeadersInv, NEW n \in Lengths, Piece("value", n), off = 0, Live',
           req'.HEADERS = PutAll(req.HEADERS, <<[name |-> TextAt(at - 1), value |-> Bytes(n)]>>)
    PROVE  HeadersInv'
  <1>1. /\ status = "receiving" /\ n \in Nat /\ End \in Nat /\ at \in 1 .. End
        /\ TextAt(at) \in Seq(Int) /\ msg' = msg
        /\ \A i : TextAt(i)' = TextAt(i)
    BY PieceAt, SameMessage
  <1>2. Stored' = Stored \cup {at} /\ \A i \in Stored : i < at /\ (i \in cut' <=> i \in cut)
    BY off = 0, StoredGrows
  <1>3. PICK a, v : a = TextAt(at - 1) /\ v = Bytes(n)
    OBVIOUS
  <1>4. req'.HEADERS = [m \in DOMAIN req.HEADERS \cup {a} |-> IF m = a THEN v ELSE req.HEADERS[m]]
    <2>1. PICK d : d = req.HEADERS
      OBVIOUS
    <2>2. req'.HEADERS = PutAll(d, <<[name |-> a, value |-> v]>>)
      BY <1>3, <2>1
    <2>3. PutAll(d, <<[name |-> a, value |-> v]>>) = [m \in DOMAIN d \cup {a} |-> IF m = a THEN v ELSE d[m]]
      <3>1. PutsOne(d, a, v)
        BY PutOne
      <3> QED
        BY <3>1 DEF PutsOne
    <2> QED
      BY <2>1, <2>2, <2>3
  <1>5. /\ req.HEADERS = [m \in {TextAt(i - 1) : i \in Stored} |-> req.HEADERS[m]]
        /\ \A i \in Stored :
              LastOfName(i) =>
                 IF i \in cut THEN IsStrictPrefix(req.HEADERS[TextAt(i - 1)], TextAt(i))
                              ELSE req.HEADERS[TextAt(i - 1)] = TextAt(i)
    BY <1>1 DEF HeadersInv, Live
  <1>6. DOMAIN req.HEADERS = {TextAt(i - 1) : i \in Stored}
    BY <1>5
  <1>7. {TextAt(i - 1) : i \in Stored}' = DOMAIN req.HEADERS \cup {a}
    BY <1>1, <1>2, <1>3, <1>6
  <1>8. req'.HEADERS = [m \in {TextAt(i - 1) : i \in Stored}' |-> req'.HEADERS[m]]
    BY <1>4, <1>7
  <1>9. IF at \in cut' THEN IsStrictPrefix(v, TextAt(at)) ELSE v = TextAt(at)
    <2>1. at \notin cut
      BY <1>1, off = 0 DEF PlaceInv, Live
    <2>2. v = SubSeq(TextAt(at), 1, n)
      BY <1>1, <1>3, off = 0 DEF Bytes, TextAt
    <2>3. \/ at \notin cut' /\ n = Len(TextAt(at))
          \/ at \in cut' /\ n < Len(TextAt(at))
      BY <1>1, <2>1, off = 0, PieceAt DEF Through, Begun
    <2>4. CASE at \notin cut' /\ n = Len(TextAt(at))
      BY <1>1, <2>2, <2>4
    <2>5. CASE at \in cut' /\ n < Len(TextAt(at))
      <3>1. v \in Seq(Int) /\ Len(v) = n /\ v # TextAt(at)
        BY <1>1, <2>2, <2>5
      <3>2. SubSeq(v, 1, Len(v)) = SubSeq(TextAt(at), 1, Len(v))
        BY <2>2, <3>1
      <3> QED
        BY <1>1, <2>5, <3>1, <3>2 DEF IsStrictPrefix, IsPrefix
    <2> QED
      BY <2>3, <2>4, <2>5
  <1>10. ASSUME NEW i \in Stored', LastOfName(i)'
         PROVE  IF i \in cut' THEN IsStrictPrefix(req'.HEADERS[TextAt(i - 1)'], TextAt(i)')
                              ELSE req'.HEADERS[TextAt(i - 1)'] = TextAt(i)'
    <2>1. \A j \in Stored' : TextAt(j - 1) = TextAt(i - 1) => j <= i
      BY <1>1, <1>10 DEF LastOfName
    <2>2. CASE TextAt(i - 1) = a
      <3>1. at <= i
        BY <1>2, <1>3, <2>1, <2>2
      <3>2. i = at
        <4>1. i \in Stored => i \in Nat /\ i < at
          BY <1>2 DEF Stored
        <4> QED
          BY <1>1, <1>2, <3>1, <4>1
      <3>3. req'.HEADERS[a] = v
        BY <1>4
      <3> QED
        BY <1>1, <1>3, <1>9, <3>2, <3>3
    <2>3. CASE TextAt(i - 1) # a
      <3>1. i \in Stored
        BY <1>2, <1>3, <2>3
      <3>2. LastOfName(i)
        BY <1>2, <2>1 DEF LastOfName
      <3>3. TextAt(i - 1) \in DOMAIN req.HEADERS
        BY <1>6, <3>1
      <3>4. req'.HEADERS[TextAt(i - 1)] = req.HEADERS[TextAt(i - 1)]
        BY <1>4, <2>3, <3>3
      <3> QED
        BY <1>1, <1>2, <1>5, <3>1, <3>2, <3>4
    <2> QED
      BY <2>2, <2>3
  <1> QED
    BY <1>8, <1>10 DEF HeadersInv

LEMMA OnHeaderValueKeeps ==
    ASSUME AssemblyInv, NEW n \in Lengths, OnHeaderValue(n)
    PROVE  AssemblyInv'
  <1> USE DEF AssemblyInv
  <1>1. Piece("value", n) /\ lastWasHeader' = FALSE /\ status' = status
    BY DEF OnHeaderValue
  <1>2. /\ status = "receiving" /\ n \in Nat /\ End \in Nat /\ at \in 1 .. End /\ KindAt(at) = "value"
        /\ msg' = msg /\ msg \in Sends
        /\ End' = End /\ \A i : KindAt(i)' = KindAt(i) /\ TextAt(i)' = TextAt(i)
        /\ off \in Nat
    BY <1>1, PieceAt, SameMessage DEF TypeOK
  <1>3. /\ Blank \in Nat /\ at < Blank /\ Blank <= End /\ TextAt(at - 1) # <<>>
        /\ KindAt(at + 1) # "value"
    <2>1. Blank \in Nat /\ at < Blank /\ Blank <= End /\ TextAt(at - 1) # <<>>
      BY <1>2, ValuePlace
    <2>2. at + 1 \in 1 .. End /\ (at + 1) - 1 = at
      BY <1>2, <2>1
    <2>3. KindAt(at + 1) = "value" => KindAt((at + 1) - 1) = "field"
      BY <1>2, <2>2, Kinds
    <2> QED
      BY <1>2, <2>1, <2>2, <2>3
  <1>4. /\ at' \in Nat /\ off' \in Nat /\ msg' \in Sends
        /\ cut' \in SUBSET (Nat \ {0}) /\ late' \in SUBSET (Nat \ {0})
        /\ PlaceInv'
    BY <1>1, <1>2, PieceKeepsPlace
  <1>5. Live /\ Live'
    BY <1>1, <1>2 DEF Live
  <1>6. IF off = 0 THEN lastWasHeader /\ currentHeader = TextAt(at - 1) ELSE ~ lastWasHeader
    BY <1>2 DEF FlagInv
  <1>7. IF off = 0 THEN req' = [req EXCEPT !.HEADERS = PutAll(@, <<[name |-> currentHeader, value |-> Bytes(n)]>>)]
                   ELSE req' = req
    BY <1>3, <1>6 DEF OnHeaderValue, StoreHeader, Absent
  <1>8. /\ req' = [f \in Fields |-> req'[f]]
        /\ req'.url = req.url /\ req'.path = req.path /\ req'.GET = req.GET
        /\ req'.COOKIES = req.COOKIES /\ req'.body = req.body /\ req'.POST = req.POST
        /\ req'.HEADERS = IF off = 0
                            THEN PutAll(req.HEADERS, <<[name |-> currentHeader, value |-> Bytes(n)]>>)
                            ELSE req.HEADERS
    BY <1>7 DEF TypeOK, Fields
  <1>9. TypeOK'
    BY <1>1, <1>2, <1>4, <1>8 DEF TypeOK
  <1>10. FlagInv'
    <2>1. CASE Through(n)
      <3>1. at' = at + 1 /\ off' = 0
        BY <2>1 DEF Through
      <3>2. KindAt(at)' # "value"
        BY <1>2, <1>3, <3>1 DEF KindAt
      <3> QED
        BY <1>1, <1>2, <3>1, <3>2 DEF FlagInv
    <2>2. CASE Begun(n)
      <3>1. at' = at /\ off' > 0
        BY <1>2, <2>2 DEF Begun
      <3> QED
        BY <1>1, <1>2, <3>1 DEF FlagInv
    <2> QED
      BY <1>1, <2>1, <2>2, PieceAt
  <1>11. NamesWhole'
    BY <1>1, <1>2, PieceKeepsNames
  <1>12. HeadersInv'
    <2>1. CASE off = 0
      BY <1>1, <1>5, <1>6, <1>8, <2>1, HeadersStored
    <2>2. CASE off # 0
      <3>1. Stored' = Stored /\ \A i \in Stored : i \in cut' <=> i \in cut
        BY <1>1, <1>2, <2>2, StoredSame
      <3> QED
        BY <1>2, <1>5, <1>8, <2>2, <3>1, HeadersSame
    <2> QED
      BY <2>1, <2>2
  <1>13. UrlInv'
    BY <1>1, <1>8, UrlSame
  <1>14. LookupsInv' /\ BodyInv'
    BY <1>1, <1>8, RestSame
  <1>15. FaultNeedsCut'
    BY <1>1, <1>2 DEF FaultNeedsCut
  <1> QED
    BY <1>4, <1>9, <1>10, <1>11, <1>12, <1>13, <1>14, <1>15

\* Every value is the value of a header.
LEMMA ValueOfHeader ==
    ASSUME msg \in Sends, NEW i \in 1 .. End, KindAt(i) = "value"
    PROVE  \E k \in 1 .. Len(msg.headers) :
              i = 2 * k + 1 /\ TextAt(i - 1) = msg.headers[k].name /\ TextAt(i) = msg.headers[k].value
  <1>1. /\ Len(msg.headers) \in Nat
        /\ \A k \in 1 .. Len(msg.headers) :
              /\ KindAt(2 * k) = "field" /\ TextAt(2 * k) = msg.headers[k].name
              /\ KindAt(2 * k + 1) = "value" /\ TextAt(2 * k + 1) = msg.headers[k].value
    BY ElementsLaid DEF Laid, KindAt, TextAt
  <1>2. i # 1 /\ i # Blank /\ i # Blank + 1
    <2>1. i > 2 /\ i < Blank /\ Blank \in Nat
      BY Kinds
    <2> QED
      BY <2>1
  <1>3. PICK k \in 1 .. Len(msg.headers) : i = 2 * k \/ i = 2 * k + 1
    BY <1>2, Which
  <1>4. i = 2 * k + 1
    <2>1. i = 2 * k => KindAt(i) = "field"
      BY <1>1
    <2> QED
      BY <1>3, <2>1
  <1>5. TextAt(2 * k) = msg.headers[k].name /\ TextAt(2 * k + 1) = msg.headers[k].value
    BY <1>1
  <1>6. i - 1 = 2 * k
    BY <1>4
  <1> QED
    BY <1>4, <1>5, <1>6

\* What is stored under a name is some value's, the last one's.
LEMMA LastStored ==
    ASSUME TypeOK, HeadersInv, Live, NEW name \in DOMAIN req.HEADERS
    PROVE  \E i \in Stored : TextAt(i - 1) = name /\ LastOfName(i)
  <1> DEFINE S == {i \in Stored : TextAt(i - 1) = name}
  <1>1. End \in Nat
    BY Kinds DEF TypeOK
  <1>2. req.HEADERS = [n \in {TextAt(i - 1) : i \in Stored} |-> req.HEADERS[n]]
    BY DEF HeadersInv
  <1>3. S # {}
    BY <1>2
  <1>4. S \in SUBSET (1 .. End)
    BY DEF Stored
  <1>5. PICK i \in S : \A j \in S : j <= i
    <2> HIDE DEF S
    <2> QED
      BY <1>1, <1>3, <1>4, GreatestNumber
  <1> QED
    BY <1>5 DEF LastOfName

LEMMA NothingParsed ==
    /\ ParsePairs(<<>>, AMP) = NoPairs /\ ParsePairs(<<>>, SEMI) = NoPairs
    /\ PutAll(NoDict, ParseForm(<<>>).pairs) = NoDict
  <1>1. <<>> \in Seq(Int) /\ Len(<<>>) + 1 = 1
    OBVIOUS
  <1>2. ASSUME NEW sep PROVE ParsePairs(<<>>, sep) = NoPairs
    <2>1. PairsFrom(<<>>, sep, 1, FALSE)[Len(<<>>) + 1] = NoPairs
      BY <1>1, PairsAtEnd
    <2> QED
      BY <1>1, <2>1 DEF ParsePairs, PairsBy
  <1>3. DOMAIN ParseForm(<<>>).pairs = {}
    <2>1. DOMAIN ParsePairs(<<>>, AMP).pairs = {}
      BY <1>2 DEF NoPairs
    <2> QED
      BY <1>1, <2>1, FormIsPairs
  <1>4. PutAll(NoDict, ParseForm(<<>>).pairs) = NoDict
    BY <1>3, PutNothing DEF NoDict
  <1> QED
    BY <1>2, <1>4

LEMMA OnHeadersCompleteKeeps ==
    ASSUME AssemblyInv, OnHeadersComplete
    PROVE  AssemblyInv'
  <1> USE DEF AssemblyInv
  <1>1. Piece("blank", 0) /\ lastWasHeader' = FALSE /\ 0 \in Lengths
    BY DEF OnHeadersComplete, Lengths
  <1>2. PICK cookies : cookies = ParseCookies(Header(COOKIE, <<>>))
    OBVIOUS
  <1>3. /\ status' = IF cookies.overrun THEN "undefined" ELSE status
        /\ req' = [req EXCEPT !.host = Header(HOST, Absent), !.COOKIES = PutAll(@, cookies.pairs)]
    BY <1>2 DEF OnHeadersComplete
  <1>4. /\ status = "receiving" /\ End \in Nat /\ at \in 1 .. End /\ KindAt(at) = "blank"
        /\ msg' = msg /\ msg \in Sends
        /\ Blank' = Blank /\ End' = End /\ \A i : KindAt(i)' = KindAt(i) /\ TextAt(i)' = TextAt(i)
        /\ off \in Nat
    BY <1>1, PieceAt, SameMessage DEF TypeOK
  <1>5. at = Blank /\ Blank \in Nat /\ TextAt(Blank) = <<>> /\ (Blank + 1 <= End => KindAt(Blank + 1) = "body")
    BY <1>4, Kinds
  <1>6. Through(0) /\ off = 0
    <2>1. Len(TextAt(at)) = 0
      BY <1>5
    <2> QED
      BY <1>1, <1>4, <2>1, PieceAt DEF Through, Begun
  <1>7. at' = Blank + 1 /\ off' = 0 /\ cut' = cut /\ late' = late
    BY <1>5, <1>6 DEF Through
  <1>8. status' \in {"receiving", "undefined"}
    BY <1>3, <1>4
  <1>9. /\ at' \in Nat /\ off' \in Nat /\ msg' \in Sends
        /\ cut' \in SUBSET (Nat \ {0}) /\ late' \in SUBSET (Nat \ {0})
        /\ PlaceInv'
    BY <1>1, <1>8, PieceKeepsPlace
  <1>10. /\ req' = [f \in Fields |-> req'[f]]
         /\ req'.url = req.url /\ req'.path = req.path /\ req'.GET = req.GET
         /\ req'.HEADERS = req.HEADERS /\ req'.host = Header(HOST, Absent)
         /\ req'.COOKIES = PutAll(req.COOKIES, cookies.pairs)
         /\ req'.body = req.body /\ req'.POST = req.POST
    BY <1>3 DEF TypeOK, Fields
  <1>11. TypeOK'
    BY <1>1, <1>8, <1>9, <1>10 DEF TypeOK
  <1>12. FlagInv'
    <2>1. at' <= End' => KindAt(at)' = "body"
      BY <1>4, <1>5, <1>7 DEF KindAt
    <2> QED
      BY <1>1, <1>7, <1>8, <2>1 DEF FlagInv
  <1>13. Live
    BY <1>4 DEF Live
  <1>14. CASE status' = "undefined"
    <2>1. ~ Live' /\ status' # "rejected" /\ cookies.overrun
      BY <1>3, <1>4, <1>14 DEF Live
    <2>2. SUFFICES ASSUME WellFormed(msg) PROVE ValuesOf(COOKIE) \cap cut # {}
      <3>1. (WellFormed(msg) => ValuesOf(COOKIE) \cap cut # {}) => FaultNeedsCut'
        BY <1>4, <1>7, <2>1 DEF FaultNeedsCut, ValuesOf
      <3> QED
        BY <1>9, <1>11, <1>12, <2>1, <3>1 DEF NamesWhole, HeadersInv, UrlInv, LookupsInv, BodyInv
    <2>3. COOKIE \in DOMAIN req.HEADERS
      <3>1. COOKIE \notin DOMAIN req.HEADERS => cookies = ParsePairs(<<>>, SEMI)
        BY <1>2 DEF Header, ParseCookies
      <3> QED
        BY <2>1, <3>1, NothingParsed DEF NoPairs
    <2>4. PICK i \in Stored : TextAt(i - 1) = COOKIE /\ LastOfName(i)
      BY <1>13, <2>3, LastStored
    <2>5. i \in 1 .. End /\ KindAt(i) = "value"
      BY DEF Stored
    <2>6. i \in cut
      <3>1. SUFFICES ASSUME i \notin cut PROVE FALSE
        OBVIOUS
      <3>2. req.HEADERS[COOKIE] = TextAt(i)
        BY <1>13, <2>4, <3>1 DEF HeadersInv
      <3>3. PICK k \in 1 .. Len(msg.headers) : COOKIE = msg.headers[k].name /\ TextAt(i) = msg.headers[k].value
        BY <1>4, <2>4, <2>5, ValueOfHeader
      <3>4. k \in DOMAIN msg.headers
        <4>1. PICK h \in Seq(NameValue) : h = msg.headers
          BY <1>4, SendsTyped DEF NameValue
        <4> QED
          BY <4>1
      <3>5. ~ ParseCookies(msg.headers[k].value).overrun
        BY <2>2, <3>3, <3>4 DEF WellFormed
      <3> QED
        BY <1>2, <2>1, <2>3, <3>2, <3>3, <3>5 DEF Header
    <2>7. i \in ValuesOf(COOKIE)
      <3>1. DOMAIN Elements(msg) = 1 .. End
        BY <1>4, ElementsSeq
      <3> QED
        BY <2>4, <2>5, <3>1 DEF ValuesOf, KindAt, TextAt
    <2> QED
      BY <2>6, <2>7
  <1>15. CASE status' = "receiving"
    <2>1. Live'
      BY <1>15 DEF Live
    <2>2. NamesWhole'
      BY <1>1, <1>15, PieceKeepsNames
    <2>3. HeadersInv'
      BY <1>1, <1>4, <1>10, <1>13, StoredSame, HeadersSame
    <2>4. UrlInv'
      BY <1>1, <1>10, UrlSame
    <2>5. LookupsInv'
      <3>1. req.COOKIES = NoDict
        BY <1>5, <1>13 DEF LookupsInv
      <3>2. ~ (at' <= Blank')
        BY <1>4, <1>5, <1>7
      <3>3. Header(HOST, Absent)' = Header(HOST, Absent) /\ Header(COOKIE, <<>>)' = Header(COOKIE, <<>>)
        BY <1>10 DEF Header
      <3> QED
        BY <1>2, <1>10, <3>1, <3>2, <3>3 DEF LookupsInv
    <2>6. BodyInv'
      <3>1. req.body = <<>> /\ req.POST = NoDict
        BY <1>5, <1>13 DEF BodyInv
      <3>2. SubSeq(msg.body, 1, 0) = <<>>
        BY <1>4, SendsTyped
      <3>3. at' = Blank' + 1 /\ ~ (at' <= Blank')
        BY <1>4, <1>5, <1>7
      <3> QED
        BY <1>4, <1>7, <1>10, <3>1, <3>2, <3>3, NothingParsed DEF BodyInv
    <2>7. FaultNeedsCut'
      BY <1>15 DEF FaultNeedsCut
    <2> QED
      BY <1>9, <1>11, <1>12, <2>2, <2>3, <2>4, <2>5, <2>6, <2>7
  <1> QED
    BY <1>8, <1>14, <1>15

\* The parser leaves a form that is still growing only inside a name.
LEMMA OverrunInName ==
    ASSUME NEW w \in Seq(Int), NEW k \in 0 .. Len(w), ParsePairs(SubSeq(w, 1, k), AMP).overrun,
           \A i \in Starts(w, AMP) : Find(w, EQ, i) # 0 /\ (Find(w, AMP, i) # 0 => Find(w, EQ, i) < Find(w, AMP, i))
    PROVE  EndsInName(SubSeq(w, 1, k), AMP)
  <1>1. PICK s \in Seq(Int) : s = SubSeq(w, 1, k)
    <2>1. k \in Nat /\ Len(w) \in Nat /\ k <= Len(w)
      OBVIOUS
    <2>2. SubSeq(w, 1, k) \in Seq(Int)
      BY <2>1
    <2> QED
      BY <2>2
  <1>2. s \in Seq(Int) /\ Len(s) = k /\ Len(w) \in Nat /\ k \in Nat /\ \A j \in 1 .. k : s[j] = w[j]
    BY <1>1
  <1>3. PICK i \in 1 .. Len(s) : (i = 1 \/ s[i - 1] = AMP) /\ NameOverruns(s, i)
    BY <1>1, <1>2, OverrunSomewhere
  <1>4. i \in Nat \ {0} /\ i <= k /\ i - 1 \in 0 .. k
    BY <1>2, <1>3
  <1>5. i \in Starts(s, AMP) /\ i \in Starts(w, AMP)
    <2>1. i = 1 \/ (i - 1 \in 1 .. k /\ w[i - 1] = AMP)
      BY <1>2, <1>3, <1>4
    <2>2. DOMAIN s = 1 .. k /\ DOMAIN w = 1 .. Len(w) /\ i \in 1 .. k /\ i \in 1 .. Len(w)
      BY <1>2, <1>4
    <2> QED
      BY <1>3, <2>1, <2>2 DEF Starts
  <1>6. \A j \in i .. k : s[j] # EQ
    <2>1. PICK first \in i .. k :
              (\A j \in i .. (first - 1) : s[j] \in Spaces) /\ \A j \in first .. k : s[j] # EQ
      BY <1>2, <1>3 DEF NameOverruns
    <2>2. EQ \notin Spaces
      BY DEF EQ, Spaces, SP
    <2>3. \A j \in i .. k : j \in i .. (first - 1) \/ j \in first .. k
      BY <1>2, <1>4
    <2> QED
      BY <2>1, <2>2, <2>3
  <1>7. Find(s, EQ, i) = 0
    BY <1>2, <1>4, <1>6, FindNone
  <1>8. Find(s, AMP, i) = 0
    <2>1. SUFFICES ASSUME Find(s, AMP, i) # 0 PROVE FALSE
      OBVIOUS
    <2>2. PICK e : e = Find(s, AMP, i)
      OBVIOUS
    <2>3. e \in i .. k /\ s[e] = AMP /\ \A j \in i .. (e - 1) : s[j] # AMP
      <3>1. \/ e = 0 /\ \A j \in i .. Len(s) : s[j] # AMP
            \/ e \in i .. Len(s) /\ s[e] = AMP /\ \A j \in i .. (e - 1) : s[j] # AMP
        <4>1. s \in Seq(Int) /\ i \in Nat \ {0}
          BY <1>2, <1>4
        <4> QED
          BY <2>2, <4>1, FindFinds
      <3> QED
        BY <1>2, <2>1, <2>2, <3>1
    <2>4. e \in i .. Len(w) /\ w[e] = AMP /\ \A j \in i .. (e - 1) : w[j] # AMP
      BY <1>2, <1>4, <2>3
    <2>5. Find(w, AMP, i) = e
      BY <1>4, <2>4, FindIs
    <2>6. PICK q : q = Find(w, EQ, i)
      OBVIOUS
    <2>7. q # 0 /\ q < e
      BY <1>4, <1>5, <2>3, <2>5, <2>6
    <2>8. q \in i .. Len(w) /\ w[q] = EQ
      BY <1>4, <2>6, <2>7, FindFinds
    <2>9. q \in i .. k /\ s[q] = w[q]
      BY <1>2, <1>4, <2>3, <2>7, <2>8
    <2> QED
      BY <1>6, <2>8, <2>9
  <1> QED
    BY <1>1, <1>5, <1>7, <1>8 DEF EndsInName

LEMMA Concat ==
    ASSUME NEW x \in Seq(Int), NEW y \in Seq(Int)
    PROVE  /\ x \o y \in Seq(Int) /\ Len(x \o y) = Len(x) + Len(y)
           /\ \A i \in 1 .. Len(x) : (x \o y)[i] = x[i]
           /\ \A i \in (Len(x) + 1) .. (Len(x) + Len(y)) : (x \o y)[i] = y[i - Len(x)]
  OBVIOUS

LEMMA Joined ==
    ASSUME NEW w \in Seq(Int), NEW a \in 0 .. Len(w), NEW b \in a .. Len(w)
    PROVE  /\ SubSeq(w, 1, a) \o SubSeq(w, a + 1, b) = SubSeq(w, 1, b)
           /\ SubSeq(SubSeq(w, 1, b), 1, a) = SubSeq(w, 1, a)
           /\ SubSeq(w, 1, b) \in Seq(Int) /\ Len(SubSeq(w, 1, b)) = b
  <1>1. Len(w) \in Nat /\ a \in Nat /\ b \in Nat /\ a <= b /\ b <= Len(w)
    OBVIOUS
  <1>2. PICK x, y, z, v :
            x = SubSeq(w, 1, a) /\ y = SubSeq(w, a + 1, b) /\ z = SubSeq(w, 1, b) /\ v = SubSeq(z, 1, a)
    OBVIOUS
  <1>3. x \in Seq(Int) /\ Len(x) = a
    BY <1>1, <1>2
  <1>4. \A i \in 1 .. a : x[i] = w[i]
    BY <1>1, <1>2
  <1>5. y \in Seq(Int) /\ Len(y) = b - a
    BY <1>1, <1>2
  <1>6. \A i \in 1 .. (b - a) : y[i] = w[a + i]
    BY <1>1, <1>2
  <1>7. z \in Seq(Int) /\ Len(z) = b
    BY <1>1, <1>2
  <1>8. \A i \in 1 .. b : z[i] = w[i]
    BY <1>1, <1>2
  <1>9. PICK c : c = x \o y
    OBVIOUS
  <1>10. c \in Seq(Int) /\ Len(c) = b
    <2>1. c \in Seq(Int) /\ Len(c) = Len(x) + Len(y)
      BY <1>3, <1>5, <1>9, Concat
    <2> QED
      BY <1>1, <1>3, <1>5, <2>1
  <1>11. ASSUME NEW i \in 1 .. b PROVE c[i] = z[i]
    <2>1. CASE i <= a
      <3>1. c[i] = x[i] /\ i \in 1 .. a
        BY <1>1, <1>3, <1>5, <1>9, <2>1, Concat
      <3> QED
        BY <1>4, <1>8, <3>1
    <2>2. CASE i > a
      <3>1. i - a \in 1 .. (b - a) /\ a + (i - a) = i
        BY <1>1, <2>2
      <3>2. c[i] = y[i - a]
        BY <1>1, <1>3, <1>5, <1>9, <2>2, Concat, SMTT(30)
      <3> QED
        BY <1>6, <1>8, <3>1, <3>2
    <2> QED
      BY <1>1, <2>1, <2>2
  <1>12. c = z
    BY <1>7, <1>10, <1>11
  <1>13. v \in Seq(Int) /\ Len(v) = a
    BY <1>1, <1>2, <1>7
  <1>14. \A i \in 1 .. a : v[i] = z[i]
    BY <1>1, <1>2, <1>7
  <1>15. \A i \in 1 .. a : v[i] = x[i]
    BY <1>1, <1>4, <1>8, <1>14
  <1>16. v = x
    BY <1>3, <1>13, <1>15
  <1> QED
    BY <1>2, <1>7, <1>9, <1>12, <1>16

LEMMA OnBodyKeeps ==
    ASSUME AssemblyInv, NEW n \in Lengths, OnBody(n)
    PROVE  AssemblyInv'
  <1> USE DEF AssemblyInv
  <1>1. Piece("body", n) /\ UNCHANGED aux
    BY DEF OnBody, TakeBody
  <1>2. PICK text, form :
            text = req.body \o Bytes(n)
            /\ form = IF Header(CONTENT_TYPE, <<>>) = FORM THEN ParseForm(text) ELSE NoPairs
    OBVIOUS
  <1>3. /\ req' = [req EXCEPT !.body = text, !.POST = PutAll(@, form.pairs)]
        /\ status' = IF form.overrun THEN "undefined" ELSE status
    BY <1>2 DEF OnBody, TakeBody
  <1>4. /\ status = "receiving" /\ n \in Nat /\ End \in Nat /\ at \in 1 .. End /\ KindAt(at) = "body"
        /\ msg' = msg /\ msg \in Sends
        /\ Blank' = Blank /\ End' = End /\ \A i : KindAt(i)' = KindAt(i) /\ TextAt(i)' = TextAt(i)
        /\ off \in Nat /\ Live
    BY <1>1, PieceAt, SameMessage DEF TypeOK, Live
  <1>5. /\ at = Blank + 1 /\ Blank \in Nat /\ Blank >= 2 /\ TextAt(at) = msg.body /\ msg.body \in Seq(Int)
        /\ End = at
    <2>1. at = Blank + 1 /\ Blank \in Nat /\ Blank >= 2 /\ (End = IF msg.body = <<>> THEN Blank ELSE Blank + 1)
      BY <1>4, Kinds
    <2>2. msg.body # <<>>
      BY <1>4, <2>1
    <2>3. TextAt(Blank + 1) = msg.body
      BY <1>4, <2>2, Kinds
    <2> QED
      BY <1>4, <2>1, <2>2, <2>3, SendsTyped
  <1>6. PICK w, k, m : w = msg.body /\ k = off /\ m = off + n
    OBVIOUS
  <1>7. w \in Seq(Int) /\ Len(w) \in Nat /\ k \in 0 .. Len(w) /\ m \in k .. Len(w)
    <2>1. off + n <= Len(w) /\ w \in Seq(Int)
      BY <1>1, <1>4, <1>5, <1>6, PieceAt DEF Through, Begun
    <2>2. Len(w) \in Nat
      BY <2>1
    <2> QED
      BY <1>4, <1>6, <2>1, <2>2
  <1>8. req.body = SubSeq(w, 1, k) /\ text = SubSeq(w, 1, m)
    <2>1. req.body = SubSeq(w, 1, k)
      <3>1. ~ (at <= Blank)
        BY <1>5
      <3> QED
        BY <1>4, <1>5, <1>6, <3>1 DEF BodyInv
    <2>2. Bytes(n) = SubSeq(w, k + 1, m)
      BY <1>4, <1>5, <1>6 DEF Bytes, TextAt
    <2> QED
      BY <1>2, <1>7, <2>1, <2>2, Joined
  <1>9. status' \in {"receiving", "undefined"}
    BY <1>3, <1>4
  <1>10. /\ at' \in Nat /\ off' \in Nat /\ msg' \in Sends
         /\ cut' \in SUBSET (Nat \ {0}) /\ late' \in SUBSET (Nat \ {0})
         /\ PlaceInv'
    BY <1>1, <1>9, PieceKeepsPlace
  <1>11. /\ req' = [f \in Fields |-> req'[f]]
         /\ req'.url = req.url /\ req'.path = req.path /\ req'.GET = req.GET
         /\ req'.HEADERS = req.HEADERS /\ req'.host = req.host /\ req'.COOKIES = req.COOKIES
         /\ req'.body = text /\ req'.POST = PutAll(req.POST, form.pairs)
    BY <1>3 DEF TypeOK, Fields
  <1>12. TypeOK'
    BY <1>1, <1>9, <1>10, <1>11 DEF TypeOK, aux
  <1>13. \/ at' = at + 1 /\ off' = 0 /\ m = Len(w)
         \/ at' = at /\ off' = m
    BY <1>1, <1>4, <1>5, <1>6, PieceAt DEF Through, Begun
  <1>14. ~ lastWasHeader /\ lastWasHeader' = lastWasHeader
    BY <1>1, <1>4 DEF FlagInv, aux
  <1>15. FlagInv'
    <2>1. at' = at => KindAt(at)' = "body"
      BY <1>4 DEF KindAt
    <2>2. at' # at => ~ (at' <= End')
      BY <1>4, <1>5, <1>13
    <2> QED
      BY <1>9, <1>14, <2>1, <2>2 DEF FlagInv
  <1>16. CASE status' = "undefined"
    <2>1. ~ Live' /\ status' # "rejected" /\ form.overrun
      BY <1>3, <1>4, <1>16 DEF Live
    <2>2. SUFFICES ASSUME WellFormed(msg) PROVE EndsInName(text, AMP)
      <3>1. (WellFormed(msg) => EndsInName(text, AMP)) => FaultNeedsCut'
        BY <1>4, <1>11, <2>1 DEF FaultNeedsCut
      <3> QED
        BY <1>10, <1>12, <1>15, <2>1, <3>1 DEF NamesWhole, HeadersInv, UrlInv, LookupsInv, BodyInv
    <2>3. form = ParseForm(text)
      BY <1>2, <2>1 DEF NoPairs
    <2>4. text \in Seq(Int) /\ m \in 0 .. Len(w)
      BY <1>7, <1>8, Joined
    <2>5. ParsePairs(text, AMP).overrun
      BY <2>1, <2>3, <2>4, FormIsPairs
    <2>6. \A i \in Starts(w, AMP) : Find(w, EQ, i) # 0 /\ (Find(w, AMP, i) # 0 => Find(w, EQ, i) < Find(w, AMP, i))
      BY <1>6, <2>2 DEF WellFormed
    <2> QED
      BY <1>7, <1>8, <2>4, <2>5, <2>6, OverrunInName
  <1>17. CASE status' = "receiving"
    <2>1. Live'
      BY <1>17 DEF Live
    <2>2. NamesWhole'
      BY <1>1, <1>17, PieceKeepsNames
    <2>3. HeadersInv'
      BY <1>1, <1>4, <1>11, StoredSame, HeadersSame
    <2>4. UrlInv'
      BY <1>1, <1>11, UrlSame
    <2>5. ~ (at <= Blank) /\ ~ (at' <= Blank') /\ at > Blank /\ at' > Blank'
      BY <1>4, <1>5, <1>13
    <2>6. \A name, default : Header(name, default)' = Header(name, default)
      BY <1>11 DEF Header
    <2>7. LookupsInv'
      BY <1>4, <1>11, <2>5, <2>6 DEF LookupsInv
    <2>8. BodyInv'
      <3>1. req'.body = SubSeq(msg'.body, 1, IF at' = Blank' + 1 THEN off' ELSE Len(msg'.body))
        BY <1>4, <1>5, <1>6, <1>8, <1>11, <1>13
      <3>2. ASSUME Header(CONTENT_TYPE, <<>>) = FORM
            PROVE  req'.POST = PutAll(NoDict, ParseForm(text).pairs)
        <4>1. req.POST = PutAll(NoDict, ParseForm(SubSeq(w, 1, k)).pairs)
          BY <1>4, <1>8, <2>5, <3>2 DEF BodyInv
        <4>2. form = ParseForm(text)
          BY <1>2, <3>2
        <4>3. text \in Seq(Int) /\ k \in 0 .. Len(text) /\ SubSeq(text, 1, k) = SubSeq(w, 1, k)
              /\ SubSeq(w, 1, k) \in Seq(Int)
          BY <1>7, <1>8, Joined
        <4>4. Names(ParsePairs(SubSeq(w, 1, k), AMP).pairs) \subseteq Names(ParsePairs(text, AMP).pairs)
          BY <4>3, NamesOfPrefix
        <4>5. Names(ParseForm(SubSeq(w, 1, k)).pairs) \subseteq Names(ParseForm(text).pairs)
          BY <4>3, <4>4, FormIsPairs
        <4> QED
          BY <1>11, <4>1, <4>2, <4>5, PutAgain
      <3> QED
        BY <1>11, <2>5, <2>6, <3>1, <3>2 DEF BodyInv
    <2>9. FaultNeedsCut'
      BY <1>17 DEF FaultNeedsCut
    <2> QED
      BY <1>10, <1>12, <1>15, <2>2, <2>3, <2>4, <2>7, <2>8, <2>9
  <1> QED
    BY <1>9, <1>16, <1>17

LEMMA OnMessageCompleteKeeps ==
    ASSUME AssemblyInv, OnMessageComplete
    PROVE  AssemblyInv'
  <1> USE DEF AssemblyInv
  <1>1. /\ status = "receiving" /\ at = End + 1 /\ status' = "complete"
        /\ msg' = msg /\ at' = at /\ off' = off /\ cut' = cut /\ late' = late /\ req' = req
        /\ lastWasHeader' = lastWasHeader /\ currentHeader' = currentHeader
    BY DEF OnMessageComplete, End, wire, aux
  <1>2. Live /\ Live' /\ End \in Nat
    BY <1>1, Kinds DEF Live, TypeOK
  <1>3. Blank' = Blank /\ End' = End /\ \A i : KindAt(i)' = KindAt(i) /\ TextAt(i)' = TextAt(i)
    BY <1>1, SameMessage
  <1>4. TypeOK'
    BY <1>1 DEF TypeOK
  <1>5. PlaceInv'
    <2>1. ~ (off > 0) /\ off \in Nat
      BY <1>1, <1>2 DEF PlaceInv, TypeOK
    <2> QED
      BY <1>1, <1>2, <1>3, <2>1 DEF PlaceInv
  <1>6. FlagInv'
    BY <1>1, <1>2 DEF FlagInv
  <1>7. NamesWhole'
    BY <1>1, <1>2, <1>3 DEF NamesWhole
  <1>8. HeadersInv'
    <2>1. Stored' = Stored
      BY <1>1, <1>3 DEF Stored
    <2> QED
      BY <1>1, <1>2, <2>1, HeadersSame
  <1>9. UrlInv'
    BY <1>1, <1>2 DEF UrlInv, UrlKept
  <1>10. LookupsInv' /\ BodyInv'
    BY <1>1, <1>2, <1>3 DEF LookupsInv, BodyInv, Header
  <1>11. FaultNeedsCut'
    BY <1>1 DEF FaultNeedsCut
  <1> QED
    BY <1>4, <1>5, <1>6, <1>7, <1>8, <1>9, <1>10, <1>11

LEMMA OnMessageBeginKeeps ==
    ASSUME AssemblyInv, OnMessageBegin
    PROVE  AssemblyInv'
  <1> USE DEF AssemblyInv
  <1>1. /\ status \in {"idle", "complete"} /\ status' = "receiving"
        /\ msg' \in Sends /\ at' = 1 /\ off' = 0 /\ cut' = {} /\ late' = {} /\ req' = NewRequest
        /\ lastWasHeader' = lastWasHeader
    BY DEF OnMessageBegin, aux
  <1>2. PICK m \in Sends : m = msg'
    BY <1>1
  <1>3. End' \in Nat /\ Blank' \in Nat /\ Blank' >= 2 /\ KindAt(1)' = "url"
    BY <1>1, <1>2, ElementsLaid DEF Laid, End, Blank, KindAt
  <1>4. /\ req' = [f \in Fields |-> req'[f]]
        /\ req'.GET = NoDict /\ req'.HEADERS = NoDict /\ req'.COOKIES = NoDict
        /\ req'.body = <<>> /\ req'.POST = NoDict
    BY <1>1 DEF NewRequest, Fields, Absent
  <1>5. TypeOK'
    BY <1>1, <1>4 DEF TypeOK
  <1>6. PlaceInv'
    <2>1. at' \in 1 .. (End' + 1) /\ ~ (off' > 0) /\ at' \notin cut' \cup late' /\ cut' \cup late' \subseteq 1 .. at'
      <3>1. 1 \in 1 .. (End' + 1) /\ ~ (0 > 0)
        <4>1. PICK e \in Nat : e = End'
          BY <1>3
        <4>2. 1 \in 1 .. (e + 1)
          OBVIOUS
        <4>3. ~ (0 > 0)
          OBVIOUS
        <4> QED
          BY <4>1, <4>2, <4>3
      <3>2. 1 \notin {} \cup {} /\ {} \cup {} \subseteq 1 .. 1
        OBVIOUS
      <3> QED
        BY <1>1, <3>1, <3>2, Zenon
    <2> QED
      BY <1>1, <2>1 DEF PlaceInv
  <1>7. FlagInv'
    <2>1. KindAt(at)' = "url"
      BY <1>1, <1>3 DEF KindAt
    <2> QED
      BY <1>1, <2>1 DEF FlagInv
  <1>8. NamesWhole'
    BY <1>1 DEF NamesWhole
  <1>9. HeadersInv'
    <2>1. Stored' = {}
      <3>1. ASSUME NEW i \in 1 .. End', KindAt(i)' = "value" /\ (i < 1 \/ (i = 1 /\ 0 > 0))
            PROVE  FALSE
        BY <1>3, <3>1
      <3> QED
        BY <1>1, <1>3, <3>1 DEF Stored
    <2>2. {TextAt(i - 1) : i \in Stored}' = {}
      BY <2>1
    <2> QED
      BY <1>4, <2>1, <2>2 DEF HeadersInv, NoDict
  <1>10. UrlInv'
    BY <1>1, <1>4 DEF UrlInv
  <1>11. LookupsInv' /\ BodyInv'
    <2>1. at' <= Blank' /\ ~ (at' > Blank')
      BY <1>1, <1>3
    <2> QED
      BY <1>1, <1>4, <2>1 DEF LookupsInv, BodyInv
  <1>12. FaultNeedsCut'
    BY <1>1 DEF FaultNeedsCut
  <1> QED
    BY <1>5, <1>6, <1>7, <1>8, <1>9, <1>10, <1>11, <1>12

LEMMA InitAssembles == Init => AssemblyInv
  <1> SUFFICES ASSUME Init PROVE AssemblyInv
    OBVIOUS
  <1>1. /\ status = "idle" /\ msg \in Sends /\ at = 0 /\ off = 0
        /\ cut = {} /\ late = {} /\ req = NewRequest /\ lastWasHeader = FALSE
    BY DEF Init
  <1>2. TypeOK
    BY <1>1 DEF TypeOK, NewRequest, Fields
  <1>3. ~ Live
    BY <1>1 DEF Live
  <1> QED
    BY <1>1, <1>2, <1>3 DEF AssemblyInv, PlaceInv, FlagInv, NamesWhole, HeadersInv, UrlInv,
       LookupsInv, BodyInv, FaultNeedsCut

LEMMA StutterAssembles ==
    ASSUME AssemblyInv, UNCHANGED vars
    PROVE  AssemblyInv'
  <1> USE DEF AssemblyInv
  <1>1. /\ status' = status /\ msg' = msg /\ at' = at /\ off' = off
        /\ cut' = cut /\ late' = late /\ req' = req
        /\ lastWasHeader' = lastWasHeader /\ currentHeader' = currentHeader
    BY DEF vars, wire, aux
  <1>2. /\ Blank' = Blank /\ End' = End /\ Live' = Live
        /\ \A i : KindAt(i)' = KindAt(i) /\ TextAt(i)' = TextAt(i)
    BY <1>1, SameMessage DEF Live
  <1>3. TypeOK' /\ PlaceInv' /\ FlagInv'
    BY <1>1, <1>2 DEF TypeOK, PlaceInv, FlagInv, KindAt, TextAt
  <1>4. NamesWhole' /\ UrlInv' /\ LookupsInv' /\ BodyInv'
    BY <1>1, <1>2 DEF NamesWhole, UrlInv, UrlKept, LookupsInv, BodyInv, Header
  <1>5. HeadersInv'
    <2>1. CASE Live
      <3>1. Stored' = Stored
        BY <1>1, <1>2 DEF Stored
      <3> QED
        BY <1>1, <2>1, <3>1, HeadersSame
    <2>2. CASE ~ Live
      BY <1>2, <2>2 DEF HeadersInv
    <2> QED
      BY <2>1, <2>2
  <1>6. FaultNeedsCut'
    BY <1>1 DEF FaultNeedsCut, ValuesOf
  <1> QED
    BY <1>3, <1>4, <1>5, <1>6

LEMMA NextAssembles == AssemblyInv /\ [Next]_vars => AssemblyInv'
  <1> SUFFICES ASSUME AssemblyInv, [Next]_vars PROVE AssemblyInv'
    OBVIOUS
  <1>1. CASE OnMessageBegin
    BY <1>1, OnMessageBeginKeeps
  <1>2. CASE \E n \in Lengths : OnUrl(n) \/ OnHeaderField(n) \/ OnHeaderValue(n) \/ OnBody(n)
    BY <1>2, OnUrlKeeps, OnHeaderFieldKeeps, OnHeaderValueKeeps, OnBodyKeeps
  <1>3. CASE OnHeadersComplete
    BY <1>3, OnHeadersCompleteKeeps
  <1>4. CASE OnMessageComplete
    BY <1>4, OnMessageCompleteKeeps
  <1>5. CASE UNCHANGED vars
    BY <1>5, StutterAssembles
  <1> QED
    BY <1>1, <1>2, <1>3, <1>4, <1>5 DEF Next

LEMMA SpecAssembles == Spec => []AssemblyInv
  BY InitAssembles, NextAssembles, PTL DEF Spec

----------------------------------------------------------------------------
(* What a dispatched request holds. *)

LEMMA AllStored ==
    ASSUME AssemblyInv, status = "complete"
    PROVE  /\ Live /\ Stored = {i \in 1 .. End : KindAt(i) = "value"}
           /\ DOMAIN Elements(msg) = 1 .. End /\ msg \in Sends /\ at > Blank /\ Blank \in Nat
  <1>1. Live /\ msg \in Sends /\ at = End + 1 /\ off = 0
    BY DEF AssemblyInv, TypeOK, PlaceInv, Live
  <1>2. End \in Nat /\ DOMAIN Elements(msg) = 1 .. End
    BY <1>1, ElementsSeq
  <1>3. Blank \in Nat /\ Blank <= End
    BY <1>1, Kinds
  <1>4. \A i \in 1 .. End : i < at
    BY <1>1, <1>2
  <1>5. Stored = {i \in 1 .. End : KindAt(i) = "value"}
    BY <1>1, <1>4 DEF Stored
  <1> QED
    BY <1>1, <1>2, <1>3, <1>5

\* The values sent under a name, and the last of them.
LEMMA LastSent ==
    ASSUME AssemblyInv, status = "complete", NEW name \in SentNames
    PROVE  LET i == Max(ValuesOf(name)) IN
           i \in Stored /\ TextAt(i - 1) = name /\ LastOfName(i)
  <1>1. /\ Stored = {i \in 1 .. End : KindAt(i) = "value"} /\ DOMAIN Elements(msg) = 1 .. End
        /\ msg \in Sends
    BY AllStored
  <1>2. ValuesOf(name) = {i \in Stored : TextAt(i - 1) = name}
    BY <1>1 DEF ValuesOf, KindAt, TextAt
  <1>3. ValuesOf(name) # {}
    <2>1. PICK k \in 1 .. Len(msg.headers) : msg.headers[k].name = name
      <3>1. PICK h \in Seq(NameValue) : h = msg.headers
        BY <1>1, SendsTyped DEF NameValue
      <3>2. DOMAIN h = 1 .. Len(h)
        OBVIOUS
      <3> QED
        BY <3>1, <3>2 DEF SentNames, Range
    <2>2. 2 * k + 1 \in 1 .. End /\ KindAt(2 * k + 1) = "value" /\ TextAt(2 * k) = name /\ (2 * k + 1) - 1 = 2 * k
      <3>1. KindAt(2 * k + 1) = "value" /\ TextAt(2 * k) = name
        BY <1>1, <2>1, ElementsLaid DEF Laid, KindAt, TextAt
      <3>2. Len(msg.headers) \in Nat /\ End \in Nat /\ End >= 2 * Len(msg.headers) + 2
        BY <1>1, ElementsLaid DEF Laid, End
      <3> QED
        BY <3>1, <3>2
    <2> QED
      BY <1>1, <1>2, <2>2
  <1>4. ValuesOf(name) \in SUBSET (1 .. End) /\ End \in Nat
    BY <1>1, <1>2, ElementsSeq
  <1>5. PICK i \in ValuesOf(name) : i = Max(ValuesOf(name)) /\ \A j \in ValuesOf(name) : j <= i
    BY <1>3, <1>4, GreatestNumber
  <1> QED
    BY <1>2, <1>5 DEF LastOfName

\* A dispatched request has exactly the headers that were sent; each value is
\* the one sent last under that name, or a beginning of it if it came in pieces
\* (guava_request_on_header_value keeps the first piece).
THEOREM HeadersKept == Spec => []HeadersTruncatedAtWorst
  <1>1. ASSUME AssemblyInv, status = "complete"
        PROVE  /\ DOMAIN req.HEADERS = SentNames
               /\ \A name \in SentNames :
                     LET i == Max(ValuesOf(name))
                         sent == Elements(msg)[i].text
                     IN  IF i \in cut THEN IsStrictPrefix(req.HEADERS[name], sent)
                                      ELSE req.HEADERS[name] = sent
    <2>1. /\ Live /\ Stored = {i \in 1 .. End : KindAt(i) = "value"} /\ msg \in Sends
      BY <1>1, AllStored
    <2>2. /\ DOMAIN req.HEADERS = {TextAt(i - 1) : i \in Stored}
          /\ \A i \in Stored :
                LastOfName(i) =>
                   IF i \in cut THEN IsStrictPrefix(req.HEADERS[TextAt(i - 1)], TextAt(i))
                                ELSE req.HEADERS[TextAt(i - 1)] = TextAt(i)
      BY <1>1, <2>1 DEF AssemblyInv, HeadersInv
    <2>3. ASSUME NEW name \in DOMAIN req.HEADERS PROVE name \in SentNames
      <3>1. PICK i \in 1 .. End : KindAt(i) = "value" /\ TextAt(i - 1) = name
        BY <2>1, <2>2
      <3>2. PICK k \in 1 .. Len(msg.headers) : name = msg.headers[k].name
        BY <2>1, <3>1, ValueOfHeader
      <3>3. PICK h \in Seq(NameValue) : h = msg.headers
        BY <2>1, SendsTyped DEF NameValue
      <3>4. DOMAIN h = 1 .. Len(h)
        OBVIOUS
      <3> QED
        BY <3>2, <3>3, <3>4 DEF SentNames, Range
    <2>4. ASSUME NEW name \in SentNames
          PROVE  /\ name \in DOMAIN req.HEADERS
                 /\ LET i == Max(ValuesOf(name))
                        sent == Elements(msg)[i].text
                    IN  IF i \in cut THEN IsStrictPrefix(req.HEADERS[name], sent)
                                     ELSE req.HEADERS[name] = sent
      <3>1. PICK i \in Stored : i = Max(ValuesOf(name)) /\ TextAt(i - 1) = name /\ LastOfName(i)
        BY <1>1, LastSent
      <3> QED
        BY <2>2, <3>1 DEF TextAt
    <2> QED
      BY <2>3, <2>4
  <1>2. AssemblyInv => HeadersTruncatedAtWorst
    BY <1>1 DEF HeadersTruncatedAtWorst
  <1> QED
    BY <1>2, SpecAssembles, PTL

\* The parser stops on its own only for a header name that was cut, or whose end
\* came in the segment after it, and with a
\* well-formed message it reads out of bounds only if the URL or the Cookie
\* value was cut or the body so far ends inside a name.
THEOREM FaultsNeedCuts == Spec => []FaultNeedsCut
  <1>1. AssemblyInv => FaultNeedsCut
    BY DEF AssemblyInv
  <1> QED
    BY <1>1, SpecAssembles, PTL

\* The body of a dispatched request is the one sent, however it was cut, and a
\* form ends up as one parse of the whole body gives it
\* (guava_request_on_body parses what there is at every piece).
THEOREM BodiesWhole == Spec => []BodyAsWhole
  <1>1. ASSUME AssemblyInv, status = "complete"
        PROVE  /\ req.body = msg.body
               /\ Header(CONTENT_TYPE, <<>>) = FORM => req.POST = PutAll(NoDict, ParseForm(msg.body).pairs)
    <2>1. Live /\ msg \in Sends /\ at > Blank /\ Blank \in Nat /\ at = End + 1 /\ off = 0
      BY <1>1, AllStored DEF AssemblyInv, PlaceInv
    <2>2. msg.body \in Seq(Int) /\ (End = IF msg.body = <<>> THEN Blank ELSE Blank + 1)
      BY <2>1, Kinds, SendsTyped
    <2>3. req.body = SubSeq(msg.body, 1, IF at = Blank + 1 THEN 0 ELSE Len(msg.body))
      <3>1. ~ (at <= Blank)
        BY <2>1, <2>2
      <3> QED
        BY <1>1, <2>1, <3>1 DEF AssemblyInv, BodyInv
    <2>4. req.body = msg.body
      <3>1. CASE msg.body = <<>>
        <4>1. at = Blank + 1
          BY <2>1, <2>2, <3>1
        <4> QED
          BY <2>2, <2>3, <3>1, <4>1
      <3>2. CASE msg.body # <<>>
        <4>1. at # Blank + 1
          BY <2>1, <2>2, <3>2
        <4> QED
          BY <2>2, <2>3, <4>1
      <3> QED
        BY <3>1, <3>2
    <2> QED
      BY <1>1, <2>1, <2>4 DEF AssemblyInv, BodyInv
  <1>2. AssemblyInv => BodyAsWhole
    BY <1>1 DEF BodyAsWhole
  <1> QED
    BY <1>2, SpecAssembles, PTL

\* What all of the headers of the message put together say under a name.
LEMMA SentIsLast ==
    ASSUME AssemblyInv, status = "complete", \A i \in cut : KindAt(i) = "body", NEW name
    PROVE  LET sent == PutAll(NoDict, msg.headers) IN
           (name \in DOMAIN sent <=> name \in DOMAIN req.HEADERS)
           /\ (name \in DOMAIN sent => sent[name] = req.HEADERS[name])
  <1>1. Live /\ Stored = {i \in 1 .. End : KindAt(i) = "value"} /\ msg \in Sends /\ End \in Nat
    BY AllStored, ElementsSeq
  <1>2. PICK h \in Seq(NameValue) : h = msg.headers
    BY <1>1, SendsTyped DEF NameValue
  <1>3. DOMAIN h = 1 .. Len(h) /\ Len(h) \in Nat
    OBVIOUS
  <1>4. PICK S : S = {k \in DOMAIN h : h[k].name = name}
    OBVIOUS
  <1>5. PutAll(NoDict, h) = [n \in Names(h) |-> h[Max({k \in DOMAIN h : h[k].name = n})].value]
    BY DEF PutAll, NoDict
  <1>6. name \in Names(h) => PutAll(NoDict, h)[name] = h[Max(S)].value
    BY <1>4, <1>5
  <1>7. name \in Names(h) <=> S # {}
    BY <1>4 DEF Names
  <1>8. ASSUME NEW k \in 1 .. Len(h)
        PROVE  /\ 2 * k + 1 \in Stored /\ TextAt(2 * k) = h[k].name /\ TextAt(2 * k + 1) = h[k].value
               /\ (2 * k + 1) - 1 = 2 * k
    <2>1. KindAt(2 * k + 1) = "value" /\ TextAt(2 * k) = h[k].name /\ TextAt(2 * k + 1) = h[k].value
      BY <1>1, <1>2, ElementsLaid DEF Laid, KindAt, TextAt
    <2>2. End >= 2 * Len(h) + 2
      BY <1>1, <1>2, ElementsLaid DEF Laid, End
    <2> QED
      BY <1>1, <2>1, <2>2
  <1>9. /\ DOMAIN req.HEADERS = {TextAt(i - 1) : i \in Stored}
        /\ \A i \in Stored : LastOfName(i) /\ i \notin cut => req.HEADERS[TextAt(i - 1)] = TextAt(i)
    BY <1>1 DEF AssemblyInv, HeadersInv
  <1>10. ASSUME NEW i \in Stored
         PROVE  i \notin cut /\ \E k \in 1 .. Len(h) : i = 2 * k + 1 /\ TextAt(i - 1) = h[k].name
    BY <1>1, <1>2, ValueOfHeader
  <1>11. name \in DOMAIN req.HEADERS <=> S # {}
    <2>1. ASSUME NEW k \in S PROVE name \in DOMAIN req.HEADERS
      BY <1>3, <1>4, <1>8, <1>9
    <2>2. ASSUME name \in DOMAIN req.HEADERS PROVE S # {}
      <3>1. PICK i \in Stored : name = TextAt(i - 1)
        BY <1>9, <2>2
      <3> QED
        BY <1>3, <1>4, <1>10, <3>1
    <2> QED
      BY <2>1, <2>2
  <1>12. ASSUME S # {} PROVE req.HEADERS[name] = h[Max(S)].value
    <2>1. PICK k \in S : k = Max(S) /\ \A j \in S : j <= k
      <3>1. S \in SUBSET (1 .. Len(h))
        BY <1>3, <1>4
      <3> QED
        BY <1>3, <1>12, <3>1, GreatestNumber
    <2>2. PICK i : i = 2 * k + 1
      OBVIOUS
    <2>3. i \in Stored /\ TextAt(i - 1) = name /\ TextAt(i) = h[k].value
      BY <1>3, <1>4, <1>8, <2>2
    <2>4. LastOfName(i)
      <3>1. ASSUME NEW j \in Stored, TextAt(j - 1) = TextAt(i - 1) PROVE j <= i
        <4>1. PICK l \in 1 .. Len(h) : j = 2 * l + 1 /\ TextAt(j - 1) = h[l].name
          BY <1>10
        <4>2. l \in S
          BY <1>3, <1>4, <2>3, <3>1, <4>1
        <4>3. l <= k /\ l \in Nat /\ k \in Nat
          BY <1>3, <1>4, <2>1, <4>2
        <4> QED
          BY <2>2, <4>1, <4>3
      <3> QED
        BY <3>1 DEF LastOfName
    <2> QED
      BY <1>9, <1>10, <2>1, <2>3, <2>4
  <1> QED
    BY <1>2, <1>5, <1>6, <1>7, <1>11, <1>12

\* A request of which at most the body was cut is dispatched as it was sent,
\* with nothing of an earlier request of the connection; but its URL and path are
\* empty if the end of the URL came in the segment after it.
THEOREM UncutAsSent == Spec => []UncutExact
  <1>1. ASSUME AssemblyInv, status = "complete", \A i \in cut : Elements(msg)[i].kind = "body"
        PROVE  LET sent == PutAll(NoDict, msg.headers)
                   Sent(n) == IF n \in DOMAIN sent THEN sent[n] ELSE <<>>
                   url == IF 1 \in late THEN <<>> ELSE msg.url
               IN  /\ req.url = url
                   /\ req.path = Path(url)
                   /\ req.GET = PutAll(NoDict, ParseQuery(Query(msg.url)).pairs)
                   /\ req.host = Sent(HOST)
                   /\ req.COOKIES = PutAll(NoDict, ParseCookies(Sent(COOKIE)).pairs)
    <2>1. Live /\ msg \in Sends /\ at > Blank /\ Blank \in Nat /\ Blank >= 2 /\ at = End + 1 /\ End \in Nat
      BY <1>1, AllStored, Kinds DEF AssemblyInv, PlaceInv
    <2>2. KindAt(1) = "url" /\ 1 \notin cut
      <3>1. KindAt(1) = "url"
        BY <2>1, ElementsLaid DEF Laid, KindAt
      <3> QED
        BY <1>1, <3>1 DEF KindAt
    <2>3. /\ req.url = UrlKept /\ req.path = Path(UrlKept)
          /\ req.GET = PutAll(NoDict, ParseQuery(Query(msg.url)).pairs)
          /\ UrlKept = IF 1 \in late THEN <<>> ELSE msg.url
      <3>1. at # 1
        BY <2>1
      <3> QED
        BY <1>1, <2>1, <2>2, <3>1 DEF AssemblyInv, UrlInv, UrlKept
    <2>4. /\ req.host = Header(HOST, Absent)
          /\ req.COOKIES = PutAll(NoDict, ParseCookies(Header(COOKIE, <<>>)).pairs)
      <3>1. ~ (at <= Blank)
        BY <2>1
      <3> QED
        BY <1>1, <2>1, <3>1 DEF AssemblyInv, LookupsInv
    <2>5. PICK sent : sent = PutAll(NoDict, msg.headers)
      OBVIOUS
    <2>6. \A n : Header(n, <<>>) = IF n \in DOMAIN sent THEN sent[n] ELSE <<>>
      <3> TAKE n
      <3>1. (n \in DOMAIN sent <=> n \in DOMAIN req.HEADERS) /\ (n \in DOMAIN sent => sent[n] = req.HEADERS[n])
        BY <1>1, <2>5, SentIsLast DEF KindAt
      <3> QED
        BY <3>1 DEF Header
    <2> QED
      BY <2>3, <2>4, <2>5, <2>6 DEF Absent
  <1>2. AssemblyInv => UncutExact
    BY <1>1 DEF UncutExact
  <1> QED
    BY <1>2, SpecAssembles, PTL
============================================================================
