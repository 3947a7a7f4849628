-------------------------- MODULE GuavaCodecProofs --------------------------
(***************************************************************************)
(* What MCCodec and MCRouting check of short texts over a few chars and of *)
(* a few mount points, for texts of every length over any chars and all    *)
(* mount points and lists of routers.                                      *)
(***************************************************************************)
EXTENDS MCRouting, GuavaTextProofs, SequenceTheorems, FiniteSetTheorems

LEMMA TextsAreTexts == Spec => [](text \in Seq(Int))
  <1>1. Init => text \in Seq(Int)
    BY DEF Init
  <1>2. text \in Seq(Int) /\ [Next]_text => (text \in Seq(Int))'
    <2> SUFFICES ASSUME text \in Seq(Int), [Next]_text PROVE text' \in Seq(Int)
      OBVIOUS
    <2>1. CASE UNCHANGED text
      BY <2>1
    <2>2. CASE Next
      <3>1. PICK c \in Alphabet : Grow(c)
        BY <2>2 DEF Next
      <3>2. c \in Int
        BY CodecAssumption
      <3> QED
        BY <3>1, <3>2 DEF Grow
    <2> QED
      BY <2>1, <2>2
  <1> QED
    BY <1>1, <1>2, PTL DEF Spec

----------------------------------------------------------------------------
(* The scan past the end. *)

\* From i on there is something other than a space, at k, that a separator parts
\* from every '=' before it, and no '=' behind it.
Unnamed(s, sep, i) ==
    \E k \in i .. Len(s) :
        /\ s[k] \notin Spaces
        /\ \A j \in i .. Len(s) : s[j] = EQ => \E m \in (j + 1) .. (k - 1) : s[m] = sep

\* Taking a field changes nothing about that.
LEMMA UnnamedBehind ==
    ASSUME NEW s \in Seq(Int), NEW sep, sep # EQ, NEW i \in Positions(s), NEW first, NEW eq, NEW end,
           FieldAt(s, sep, i, first, eq, end)
    PROVE  Unnamed(s, sep, i) <=> Unnamed(s, sep, AfterField(s, end))
  <1>1. i \in Nat \ {0} /\ Len(s) \in Nat
    BY DEF Positions
  <1>2. /\ eq \in Nat /\ i <= eq /\ eq < Len(s) /\ s[eq] = EQ
        /\ eq \in i .. Len(s)
    BY <1>1 DEF FieldAt
  <1>3. CASE end = 0
    <2>1. \A k \in (eq + 1) .. Len(s) : s[k] # sep
      BY <1>2, <1>3 DEF FieldAt
    <2>2. ~ Unnamed(s, sep, i)
      <3>1. SUFFICES ASSUME NEW k \in i .. Len(s), \E m \in (eq + 1) .. (k - 1) : s[m] = sep PROVE FALSE
        BY <1>2 DEF Unnamed
      <3> QED
        BY <1>1, <1>2, <2>1, <3>1
    <2>3. ~ Unnamed(s, sep, Len(s) + 1)
      BY <1>1 DEF Unnamed
    <2> QED
      BY <1>3, <2>2, <2>3 DEF AfterField
  <1>4. CASE end # 0
    <2>1. end \in (eq + 1) .. Len(s) /\ s[end] = sep /\ \A k \in (eq + 1) .. (end - 1) : s[k] # sep
      BY <1>4 DEF FieldAt
    <2>2. end \in Nat /\ i < end /\ AfterField(s, end) = end + 1
      BY <1>1, <1>2, <1>4, <2>1 DEF AfterField
    <2>3. ASSUME Unnamed(s, sep, i) PROVE Unnamed(s, sep, end + 1)
      <3>1. PICK k \in i .. Len(s) :
                /\ s[k] \notin Spaces
                /\ \A j \in i .. Len(s) : s[j] = EQ => \E m \in (j + 1) .. (k - 1) : s[m] = sep
        BY <2>3 DEF Unnamed
      <3>2. PICK m \in (eq + 1) .. (k - 1) : s[m] = sep
        BY <1>2, <3>1
      <3>3. end <= m
        BY <1>1, <1>2, <2>1, <3>2
      <3>4. k \in (end + 1) .. Len(s)
        BY <1>1, <1>2, <2>2, <3>2, <3>3
      <3>5. \A j \in (end + 1) .. Len(s) : j \in i .. Len(s)
        BY <1>1, <2>2
      <3> QED
        BY <3>1, <3>4, <3>5 DEF Unnamed
    <2>4. ASSUME Unnamed(s, sep, end + 1) PROVE Unnamed(s, sep, i)
      <3>1. PICK k \in (end + 1) .. Len(s) :
                /\ s[k] \notin Spaces
                /\ \A j \in (end + 1) .. Len(s) : s[j] = EQ => \E m \in (j + 1) .. (k - 1) : s[m] = sep
        BY <2>4 DEF Unnamed
      <3>2. ASSUME NEW j \in i .. Len(s), s[j] = EQ PROVE \E m \in (j + 1) .. (k - 1) : s[m] = sep
        <4>1. j # end
          BY <2>1, <3>2
        <4>2. CASE j < end
          <5>1. end \in (j + 1) .. (k - 1)
            BY <1>1, <2>2, <3>1, <4>2
          <5> QED
            BY <2>1, <5>1
        <4>3. CASE end < j
          <5>1. j \in (end + 1) .. Len(s)
            BY <1>1, <2>2, <4>3
          <5> QED
            BY <3>1, <3>2, <5>1
        <4> QED
          BY <1>1, <2>2, <4>1, <4>2, <4>3
      <3>3. k \in i .. Len(s)
        BY <1>1, <2>2, <3>1
      <3> QED
        BY <3>1, <3>2, <3>3 DEF Unnamed
    <2> QED
      BY <2>2, <2>3, <2>4
  <1> QED
    BY <1>3, <1>4

LEMMA OverrunFrom ==
    ASSUME NEW s \in Seq(Int), NEW sep, sep # EQ
    PROVE  \A i \in Positions(s) : PairsFrom(s, sep, 1, FALSE)[i].overrun <=> Unnamed(s, sep, i)
  <1> DEFINE n == Len(s) + 1
  <1>1. PICK from : from = PairsFrom(s, sep, 1, FALSE)
    OBVIOUS
  <1>2. n \in Nat /\ Len(s) \in Nat /\ Positions(s) = 1 .. n
    BY DEF Positions
  <1> DEFINE K == {i \in 1 .. n : from[i].overrun <=> Unnamed(s, sep, i)}
  <1>3. EQ \notin Spaces
    BY DEF Spaces, SP, EQ
  <1>4. ASSUME NEW i \in 1 .. n, \A j \in (i + 1) .. n : j \in K
        PROVE  from[i].overrun <=> Unnamed(s, sep, i)
    <2> HIDE DEF K
    <2>1. \/ from[i] = NoPairs /\ NothingLeft(s, i)
          \/ from[i] = [pairs |-> <<>>, overrun |-> TRUE] /\ NameOverruns(s, i)
          \/ \E first, eq, end : FieldAt(s, sep, i, first, eq, end)
      BY <1>1, <1>2, FieldOrEnd
    <2>2. CASE from[i] = NoPairs /\ NothingLeft(s, i)
      <3>1. from[i].overrun = FALSE
        BY <2>2 DEF NoPairs
      <3>2. ~ Unnamed(s, sep, i)
        <4>1. CASE \A k \in i .. Len(s) : s[k] \in Spaces
          BY <4>1 DEF Unnamed
        <4>2. CASE i <= Len(s) /\ s[Len(s)] = EQ
          <5>1. Len(s) \in i .. Len(s)
            BY <1>2, <4>2
          <5>2. \A k \in i .. Len(s) : ~ \E m \in (Len(s) + 1) .. (k - 1) : s[m] = sep
            BY <1>2
          <5> QED
            BY <4>2, <5>1, <5>2 DEF Unnamed
        <4> QED
          BY <2>2, <4>1, <4>2 DEF NothingLeft
      <3> QED
        BY <3>1, <3>2
    <2>3. CASE from[i] = [pairs |-> <<>>, overrun |-> TRUE] /\ NameOverruns(s, i)
      <3>1. from[i].overrun = TRUE
        BY <2>3
      <3>2. PICK first \in i .. Len(s) :
                /\ s[first] \notin Spaces /\ \A k \in i .. (first - 1) : s[k] \in Spaces
                /\ \A k \in first .. Len(s) : s[k] # EQ
        BY <2>3 DEF NameOverruns
      <3>3. \A j \in i .. Len(s) : s[j] # EQ
        <4> TAKE j \in i .. Len(s)
        <4>1. j \in i .. (first - 1) \/ j \in first .. Len(s)
          BY <1>2, <3>2
        <4> QED
          BY <1>3, <3>2, <4>1
      <3>4. Unnamed(s, sep, i)
        BY <3>2, <3>3 DEF Unnamed
      <3> QED
        BY <3>1, <3>4
    <2>4. CASE \E first, eq, end : FieldAt(s, sep, i, first, eq, end)
      <3>1. PICK first, eq, end : FieldAt(s, sep, i, first, eq, end)
        BY <2>4
      <3>2. TakesField(s, sep, i, first, eq, end)
        BY <1>2, <3>1, FieldTaken
      <3>3. PICK m : m = AfterField(s, end)
        OBVIOUS
      <3>4. m \in (i + 1) .. n /\ from[i].overrun = from[m].overrun
        BY <1>1, <3>2, <3>3 DEF TakesField
      <3>5. from[m].overrun <=> Unnamed(s, sep, m)
        BY <1>4, <3>4 DEF K
      <3>6. Unnamed(s, sep, i) <=> Unnamed(s, sep, m)
        BY <1>2, <3>1, <3>3, UnnamedBehind
      <3> QED
        BY <3>4, <3>5, <3>6
    <2> QED
      BY <2>1, <2>2, <2>3, <2>4
  <1>5. K = 1 .. n
    <2>1. K \in SUBSET (1 .. n)
      OBVIOUS
    <2>2. \A i \in 1 .. n : (\A j \in (i + 1) .. n : j \in K) => i \in K
      BY <1>4
    <2> HIDE DEF K, n
    <2> QED
      BY <1>2, <2>1, <2>2, DownwardInduction
  <1> QED
    BY <1>1, <1>2, <1>5

\* The parsers of forms and cookies read past the end of a text exactly when
\* something other than spaces follows the last separator after the last '=',
\* whatever the text.
THEOREM OverrunsExactly == Spec => []OverrunExactly
  <1>1. text \in Seq(Int) => OverrunExactly
    <2> SUFFICES ASSUME text \in Seq(Int), NEW sep \in {AMP, SEMI}
                 PROVE  LET lastEq == SelectLastInSeq(text, LAMBDA c : c = EQ)
                            tail == IF lastEq = 0 THEN text
                                    ELSE IF Find(text, sep, lastEq) = 0 THEN <<>>
                                    ELSE SubSeq(text, Find(text, sep, lastEq) + 1, Len(text))
                        IN  ParsePairs(text, sep).overrun <=> \E i \in DOMAIN tail : tail[i] \notin Spaces
      BY DEF OverrunExactly
    <2> DEFINE S == {i \in 1 .. Len(text) : text[i] = EQ}
    <2>1. PICK lastEq : lastEq = SelectLastInSeq(text, LAMBDA c : c = EQ)
      OBVIOUS
    <2>2. lastEq = IF S # {} THEN Max(S) ELSE 0
      BY <2>1 DEF SelectLastInSeq
    <2>3. Len(text) \in Nat /\ sep # EQ /\ 1 \in Positions(text)
      BY DEF Positions, AMP, SEMI, EQ
    <2>4. ParsePairs(text, sep).overrun <=> Unnamed(text, sep, 1)
      BY <2>3, OverrunFrom DEF ParsePairs, PairsBy
    <2> DEFINE tail == IF lastEq = 0 THEN text
                       ELSE IF Find(text, sep, lastEq) = 0 THEN <<>>
                       ELSE SubSeq(text, Find(text, sep, lastEq) + 1, Len(text))
               Stray == \E i \in DOMAIN tail : tail[i] \notin Spaces
    <2>5. CASE S = {}
      <3>1. lastEq = 0 /\ tail = text /\ \A j \in 1 .. Len(text) : text[j] # EQ
        BY <2>2, <2>5
      <3>2. Stray <=> \E i \in 1 .. Len(text) : text[i] \notin Spaces
        BY <3>1
      <3>3. Unnamed(text, sep, 1) <=> \E i \in 1 .. Len(text) : text[i] \notin Spaces
        BY <3>1 DEF Unnamed
      <3> QED
        BY <2>1, <2>4, <3>2, <3>3
    <2>6. CASE S # {}
      <3>1. lastEq \in 1 .. Len(text) /\ text[lastEq] = EQ /\ \A j \in S : j <= lastEq
        <4>1. S \in SUBSET (1 .. Len(text))
          OBVIOUS
        <4>2. Max(S) \in S /\ \A j \in S : j <= Max(S)
          BY <2>3, <2>6, <4>1, GreatestNumber
        <4> QED
          BY <2>2, <2>6, <4>2
      <3>2. PICK end : end = Find(text, sep, lastEq)
        OBVIOUS
      <3>3. \/ end = 0 /\ \A k \in lastEq .. Len(text) : text[k] # sep
            \/ end \in lastEq .. Len(text) /\ text[end] = sep /\ \A k \in lastEq .. (end - 1) : text[k] # sep
        <4>1. lastEq \in Nat \ {0}
          BY <3>1
        <4> QED
          BY <3>2, <4>1, FindFinds
      <3>4. Unnamed(text, sep, 1) <=>
                \E k \in 1 .. Len(text) : text[k] \notin Spaces /\ \E m \in (lastEq + 1) .. (k - 1) : text[m] = sep
        <4>1. ASSUME NEW k \in 1 .. Len(text), \E m \in (lastEq + 1) .. (k - 1) : text[m] = sep
              PROVE  \A j \in 1 .. Len(text) : text[j] = EQ => \E m \in (j + 1) .. (k - 1) : text[m] = sep
          <5> SUFFICES ASSUME NEW j \in 1 .. Len(text), text[j] = EQ
                       PROVE  \E m \in (j + 1) .. (k - 1) : text[m] = sep
            OBVIOUS
          <5>1. j <= lastEq
            BY <3>1
          <5>2. PICK m \in (lastEq + 1) .. (k - 1) : text[m] = sep
            BY <4>1
          <5>3. m \in (j + 1) .. (k - 1)
            BY <3>1, <5>1
          <5> QED
            BY <5>2, <5>3
        <4> QED
          BY <3>1, <4>1 DEF Unnamed
      <3>5. CASE end = 0
        <4>1. ~ Unnamed(text, sep, 1)
          BY <3>1, <3>3, <3>4, <3>5
        <4>2. lastEq # 0 /\ Find(text, sep, lastEq) = 0
          BY <3>1, <3>2, <3>5
        <4>3. tail = <<>>
          BY <4>2
        <4> HIDE DEF tail
        <4>4. ~ Stray
          BY <4>3
        <4> QED
          BY <2>1, <2>4, <4>1, <4>4 DEF tail
      <3>6. CASE end # 0
        <4>1. /\ end \in Nat /\ lastEq < end /\ end <= Len(text) /\ text[end] = sep
              /\ \A k \in lastEq .. (end - 1) : text[k] # sep
          BY <2>3, <3>1, <3>3, <3>6
        <4>2. tail = SubSeq(text, end + 1, Len(text))
          <5>1. lastEq # 0 /\ Find(text, sep, lastEq) = end
            BY <3>1, <3>2
          <5>2. tail = IF end = 0 THEN <<>> ELSE SubSeq(text, end + 1, Len(text))
            BY <5>1
          <5> QED
            BY <3>6, <5>2
        <4>3. /\ DOMAIN tail = 1 .. (Len(text) - end)
              /\ \A i \in 1 .. (Len(text) - end) : tail[i] = text[end + i]
          <5>1. PICK u : u = SubSeq(text, end + 1, Len(text))
            OBVIOUS
          <5>2. DOMAIN u = 1 .. (Len(text) - end) /\ \A i \in 1 .. (Len(text) - end) : u[i] = text[end + i]
            BY <2>3, <4>1, <5>1
          <5> QED
            BY <4>2, <5>1, <5>2
        <4> HIDE DEF tail
        <4>4. ASSUME Stray PROVE Unnamed(text, sep, 1)
          <5>1. PICK i \in 1 .. (Len(text) - end) : text[end + i] \notin Spaces
            BY <4>3, <4>4
          <5>2. end + i \in 1 .. Len(text) /\ end \in (lastEq + 1) .. ((end + i) - 1)
            BY <2>3, <3>1, <4>1
          <5> QED
            BY <3>4, <4>1, <5>1, <5>2
        <4>5. ASSUME Unnamed(text, sep, 1) PROVE Stray
          <5>1. PICK k \in 1 .. Len(text) : text[k] \notin Spaces /\ \E m \in (lastEq + 1) .. (k - 1) : text[m] = sep
            BY <3>4, <4>5
          <5>2. PICK m \in (lastEq + 1) .. (k - 1) : text[m] = sep
            BY <5>1
          <5>3. end <= m
            BY <2>3, <3>1, <4>1, <5>2
          <5>4. k - end \in 1 .. (Len(text) - end) /\ end + (k - end) = k
            BY <2>3, <3>1, <4>1, <5>2, <5>3
          <5> QED
            BY <4>3, <5>1, <5>4
        <4> QED
          BY <2>1, <2>4, <4>4, <4>5 DEF tail
      <3> QED
        BY <3>5, <3>6
    <2> QED
      BY <2>5, <2>6
  <1> QED
    BY <1>1, TextsAreTexts, PTL

----------------------------------------------------------------------------
(* Fields, and pairs in the order of fields. *)

\* Where the field that begins at i ends.
End(s, sep, i) == IF Find(s, sep, i) = 0 THEN Len(s) ELSE Find(s, sep, i) - 1

StartsFrom(s, sep, i) == {j \in Starts(s, sep) : i <= j}

\* A part of a part is a part.
LEMMA PartOfPart ==
    ASSUME NEW s \in Seq(Int), NEW i \in Nat \ {0}, NEW last \in Nat, last <= Len(s),
           NEW a \in Nat \ {0}, NEW b \in Nat, b <= (last - i) + 1
    PROVE  SubSeq(SubSeq(s, i, last), a, b) = SubSeq(s, (i + a) - 1, (i + b) - 1)
  <1>1. CASE a > b
    <2>1. SubSeq(SubSeq(s, i, last), a, b) = <<>>
      BY <1>1, SubSeqEmpty
    <2>2. SubSeq(s, (i + a) - 1, (i + b) - 1) = <<>>
      BY <1>1, SubSeqEmpty
    <2> QED
      BY <2>1, <2>2
  <1>2. CASE a <= b
    <2>1. /\ i \in 1 .. Len(s) /\ last \in 1 .. Len(s)
          /\ a \in 1 .. ((last - i) + 1) /\ b \in 1 .. ((last - i) + 1)
      BY <1>2
    <2> QED
      BY <2>1, SubSeqOfSubSeq
  <1> QED
    BY <1>1, <1>2

LEMMA EndIs ==
    ASSUME NEW s \in Seq(Int), NEW sep, NEW i \in Positions(s)
    PROVE  /\ End(s, sep, i) \in Nat /\ i - 1 <= End(s, sep, i) /\ End(s, sep, i) <= Len(s)
           /\ \A k \in i .. End(s, sep, i) : s[k] # sep
           /\ Find(s, sep, i) # 0 => /\ Find(s, sep, i) = End(s, sep, i) + 1
                                     /\ Find(s, sep, i) \in i .. Len(s) /\ s[Find(s, sep, i)] = sep
  <1>1. i \in Nat \ {0} /\ i - 1 <= Len(s) /\ Len(s) \in Nat
    BY DEF Positions
  <1>2. PICK f : f = Find(s, sep, i)
    OBVIOUS
  <1>3. \/ f = 0 /\ \A k \in i .. Len(s) : s[k] # sep
        \/ f \in i .. Len(s) /\ s[f] = sep /\ \A k \in i .. (f - 1) : s[k] # sep
    BY <1>1, <1>2, FindFinds
  <1>4. PICK e : e = End(s, sep, i) /\ e = IF f = 0 THEN Len(s) ELSE f - 1
    BY <1>2 DEF End
  <1>5. CASE f = 0
    BY <1>1, <1>2, <1>3, <1>4, <1>5
  <1>6. CASE f # 0
    BY <1>1, <1>2, <1>3, <1>4, <1>6
  <1> QED
    BY <1>5, <1>6

\* A field with a '=' splits at the first one.
LEMMA FieldSplits ==
    ASSUME NEW s \in Seq(Int), NEW sep, NEW i \in Positions(s)
    PROVE  LET eq == Find(s, EQ, i) IN
           /\ Contains(Field(s, sep, i), EQ) <=> eq # 0 /\ eq <= End(s, sep, i)
           /\ eq # 0 /\ eq <= End(s, sep, i) =>
                  /\ SplitField(Field(s, sep, i)) = Pair(s, i, eq, End(s, sep, i))
                  /\ SplitField(Field(s, sep, i)).value = <<>> <=> eq = End(s, sep, i)
                  /\ Field(s, sep, i)[1] = s[i]
  <1>1. i \in Nat \ {0} /\ Len(s) \in Nat
    BY DEF Positions
  <1>2. PICK e \in Nat : e = End(s, sep, i) /\ i - 1 <= e /\ e <= Len(s)
    BY EndIs
  <1>3. PICK f : f = Field(s, sep, i) /\ f = SubSeq(s, i, e)
    BY <1>2 DEF Field, End
  <1>4. /\ f \in Seq(Int) /\ Len(f) = (e - i) + 1
        /\ \A k \in 1 .. ((e - i) + 1) : f[k] = s[(i + k) - 1]
    <2>1. \A k \in i .. e : k \in 1 .. Len(s)
      BY <1>1, <1>2
    <2> QED
      BY <1>1, <1>2, <1>3, <2>1
  <1>5. PICK eq : eq = Find(s, EQ, i)
    OBVIOUS
  <1>6. \/ eq = 0 /\ \A k \in i .. Len(s) : s[k] # EQ
        \/ eq \in i .. Len(s) /\ s[eq] = EQ /\ \A k \in i .. (eq - 1) : s[k] # EQ
    BY <1>1, <1>5, FindFinds
  <1>7. Contains(f, EQ) <=> eq # 0 /\ eq <= e
    <2>1. Contains(f, EQ) <=> \E k \in 1 .. Len(f) : f[k] = EQ
      BY <1>4 DEF Contains
    <2>2. ASSUME eq # 0, eq <= e PROVE Contains(f, EQ)
      <3>1. (eq - i) + 1 \in 1 .. Len(f) /\ (i + ((eq - i) + 1)) - 1 = eq
        <4>1. eq \in Nat /\ i <= eq /\ eq <= e
          BY <1>1, <1>2, <1>6, <2>2
        <4> QED
          BY <1>1, <1>2, <1>4, <4>1
      <3>2. f[(eq - i) + 1] = EQ
        BY <1>4, <1>6, <2>2, <3>1
      <3> QED
        BY <2>1, <3>1, <3>2
    <2>3. ASSUME NEW k \in 1 .. Len(f), f[k] = EQ PROVE eq # 0 /\ eq <= e
      <3>1. PICK j : j = (i + k) - 1
        OBVIOUS
      <3>2. j \in i .. e /\ s[j] = EQ
        BY <1>1, <1>2, <1>4, <2>3, <3>1
      <3>3. j \in i .. Len(s) /\ j <= e
        BY <1>1, <1>2, <3>2
      <3>4. eq \in i .. Len(s) /\ \A m \in i .. (eq - 1) : s[m] # EQ
        BY <1>6, <3>2, <3>3
      <3>5. j \in i .. Len(s) /\ ~ (j \in i .. (eq - 1))
        BY <3>2, <3>3, <3>4
      <3>6. eq <= j
        BY <1>1, <3>4, <3>5
      <3> QED
        BY <1>1, <1>2, <3>3, <3>4, <3>6
    <2> QED
      BY <2>1, <2>2, <2>3
  <1>8. ASSUME eq # 0, eq <= e
        PROVE  /\ SplitField(f) = Pair(s, i, eq, e)
               /\ SplitField(f).value = <<>> <=> eq = e
               /\ f[1] = s[i]
    <2>1. /\ eq \in Nat /\ i <= eq /\ eq <= e /\ s[eq] = EQ /\ \A k \in i .. (eq - 1) : s[k] # EQ
      BY <1>1, <1>2, <1>6, <1>8
    <2>2. PICK x : x = (eq - i) + 1
      OBVIOUS
    <2>3. x \in Nat \ {0} /\ x \in 1 .. Len(f) /\ (i + x) - 1 = eq
      <3>1. x \in Nat \ {0} /\ x <= (e - i) + 1 /\ (i + x) - 1 = eq
        BY <1>1, <1>2, <2>1, <2>2
      <3>2. Len(f) = (e - i) + 1
        BY <1>4
      <3> QED
        BY <3>1, <3>2
    <2>4. Find(f, EQ, 1) = x
      <3>1. f[x] = EQ
        BY <1>4, <2>1, <2>3
      <3>2. \A k \in 1 .. (x - 1) : f[k] # EQ
        <4> TAKE k \in 1 .. (x - 1)
        <4>1. k \in 1 .. ((e - i) + 1) /\ (i + k) - 1 \in i .. (eq - 1)
          BY <1>1, <1>2, <1>4, <2>1, <2>2, <2>3
        <4> QED
          BY <1>4, <2>1, <4>1
      <3> QED
        BY <1>4, <2>3, <3>1, <3>2, FindIs
    <2>5. SubSeq(f, 1, x - 1) = SubSeq(s, i, eq - 1)
      <3>1. x - 1 \in Nat /\ x - 1 <= (e - i) + 1 /\ (i + (x - 1)) - 1 = eq - 1 /\ (i + 1) - 1 = i
        BY <1>1, <1>2, <1>4, <2>1, <2>2, <2>3
      <3>2. SubSeq(SubSeq(s, i, e), 1, x - 1) = SubSeq(s, (i + 1) - 1, (i + (x - 1)) - 1)
        BY <1>1, <1>2, <3>1, PartOfPart
      <3> QED
        BY <1>3, <3>1, <3>2
    <2>6. SubSeq(f, x + 1, Len(f)) = SubSeq(s, eq + 1, e)
      <3>1. PICK a, b : a = x + 1 /\ b = (e - i) + 1
        OBVIOUS
      <3>2. a \in Nat \ {0} /\ b \in Nat /\ b <= (e - i) + 1 /\ (i + a) - 1 = eq + 1 /\ (i + b) - 1 = e
        <4>1. a \in Nat \ {0} /\ (i + a) - 1 = eq + 1
          BY <1>1, <2>1, <2>2, <3>1
        <4>2. b \in Nat /\ b <= (e - i) + 1 /\ (i + b) - 1 = e
          <5>1. i \in Nat /\ e \in Nat /\ i <= e
            BY <1>1, <1>2, <2>1
          <5> QED
            BY <3>1, <5>1
        <4> QED
          BY <4>1, <4>2
      <3>3. SubSeq(SubSeq(s, i, e), a, b) = SubSeq(s, (i + a) - 1, (i + b) - 1)
        BY <1>1, <1>2, <3>2, PartOfPart
      <3> QED
        BY <1>3, <1>4, <3>1, <3>2, <3>3
    <2>7. SplitField(f) = Pair(s, i, eq, e)
      BY <2>4, <2>5, <2>6 DEF SplitField, Pair
    <2>8. Pair(s, i, eq, e).value = <<>> <=> eq = e
      <3>1. Pair(s, i, eq, e).value = SubSeq(s, eq + 1, e)
        BY DEF Pair
      <3>2. eq = e => SubSeq(s, eq + 1, e) = <<>>
        BY <2>1
      <3>3. eq # e => Len(SubSeq(s, eq + 1, e)) = e - eq
        <4>1. \A k \in (eq + 1) .. e : s[k] \in Int
          BY <1>1, <1>2, <2>1
        <4>2. Len(SubSeq(s, eq + 1, e)) = IF eq + 1 <= e THEN (e - (eq + 1)) + 1 ELSE 0
          BY <1>2, <2>1, <4>1, SubSeqProperties
        <4> QED
          BY <1>2, <2>1, <4>2
      <3>4. Len(<<>>) = 0 /\ (eq # e => e - eq # 0)
        BY <1>2, <2>1
      <3>5. eq # e => SubSeq(s, eq + 1, e) # <<>>
        BY <3>3, <3>4
      <3> QED
        BY <3>1, <3>2, <3>5
    <2>9. 1 \in 1 .. ((e - i) + 1) /\ (i + 1) - 1 = i
      BY <1>1, <1>2, <2>1
    <2> QED
      BY <1>4, <2>7, <2>8, <2>9
  <1> QED
    BY <1>2, <1>3, <1>5, <1>7, <1>8

\* The starts from one start on: itself, and those behind its separator.
LEMMA NextStarts ==
    ASSUME NEW s \in Seq(Int), NEW sep, NEW i \in Starts(s, sep)
    PROVE  /\ i \in Positions(s)
           /\ Find(s, sep, i) = 0 => StartsFrom(s, sep, i) = {i}
           /\ Find(s, sep, i) # 0 =>
                  /\ Find(s, sep, i) + 1 \in Starts(s, sep)
                  /\ StartsFrom(s, sep, i) = {i} \cup StartsFrom(s, sep, Find(s, sep, i) + 1)
                  /\ i \notin StartsFrom(s, sep, Find(s, sep, i) + 1)
  <1>1. i \in Positions(s) /\ i \in Nat \ {0} /\ Len(s) \in Nat /\ Positions(s) = 1 .. (Len(s) + 1)
    BY DEF Starts, Positions
  <1>2. PICK f : f = Find(s, sep, i)
    OBVIOUS
  <1>3. \/ f = 0 /\ \A k \in i .. Len(s) : s[k] # sep
        \/ f \in i .. Len(s) /\ s[f] = sep /\ \A k \in i .. (f - 1) : s[k] # sep
    BY <1>1, <1>2, FindFinds
  <1>4. \A j \in Starts(s, sep) : j \in 1 .. (Len(s) + 1) /\ (j = 1 \/ s[j - 1] = sep)
    BY <1>1 DEF Starts
  <1>5. CASE f = 0
    <2>1. ASSUME NEW j \in Starts(s, sep), i <= j PROVE j = i
      <3>1. CASE j = 1
        BY <1>1, <2>1, <3>1
      <3>2. CASE j # 1 /\ i < j
        <4>1. j - 1 \in i .. Len(s) /\ s[j - 1] = sep
          BY <1>1, <1>4, <3>2
        <4> QED
          BY <1>1, <1>3, <1>5, <4>1
      <3> QED
        BY <1>1, <1>4, <2>1, <3>1, <3>2
    <2>2. StartsFrom(s, sep, i) = {i}
      <3>1. i <= i
        BY <1>1
      <3> QED
        BY <2>1, <3>1 DEF StartsFrom
    <2> QED
      BY <1>1, <1>2, <1>5, <2>2
  <1>6. CASE f # 0
    <2>1. f \in i .. Len(s) /\ f \in Nat /\ s[f] = sep /\ \A k \in i .. (f - 1) : s[k] # sep
      BY <1>1, <1>3, <1>6
    <2>2. f + 1 \in Starts(s, sep)
      <3>1. f + 1 \in 2 .. (Len(s) + 1) /\ (f + 1) - 1 = f
        BY <1>1, <2>1
      <3> QED
        BY <2>1, <3>1 DEF Starts
    <2>3. ASSUME NEW j \in Starts(s, sep), i <= j, j # i PROVE f + 1 <= j
      <3>1. j - 1 \in i .. Len(s) /\ s[j - 1] = sep
        BY <1>1, <1>4, <2>3
      <3>2. j - 1 \notin i .. (f - 1)
        BY <2>1, <3>1
      <3> QED
        BY <1>1, <1>4, <2>1, <3>1, <3>2
    <2>4. i < f + 1
      BY <1>1, <2>1
    <2>5. StartsFrom(s, sep, i) = {i} \cup StartsFrom(s, sep, f + 1)
      <3>1. \A j \in Starts(s, sep) : j \in Nat
        BY <1>1, <1>4
      <3>2. \A j \in Starts(s, sep) : i <= j <=> j = i \/ f + 1 <= j
        BY <1>1, <2>1, <2>3, <2>4, <3>1
      <3> QED
        BY <3>2 DEF StartsFrom
    <2>6. i \notin StartsFrom(s, sep, f + 1)
      BY <1>1, <2>1, <2>4 DEF StartsFrom
    <2> QED
      BY <1>1, <1>2, <1>6, <2>2, <2>5, <2>6
  <1> QED
    BY <1>5, <1>6

LEMMA StartsFinite ==
    ASSUME NEW s \in Seq(Int), NEW sep, NEW C \in SUBSET Starts(s, sep)
    PROVE  IsFiniteSet(C) /\ C \subseteq Nat
  <1>1. Starts(s, sep) \subseteq 1 .. (Len(s) + 1)
    BY DEF Starts
  <1>2. IsFiniteSet(1 .. (Len(s) + 1))
    BY FS_Interval
  <1> QED
    BY <1>1, <1>2, FS_Subset

\* The function at is less with one position more, before all of less's.
OneBefore(i, C, less, at) ==
    /\ C \in SUBSET Nat /\ IsFiniteSet(C) /\ i \in Nat /\ \A j \in C : i < j
    /\ DOMAIN less = C /\ DOMAIN at = {i} \cup C /\ \A j \in C : at[j] = less[j]

\* What is at a position before all others goes before them.
LEMMA OneMore ==
    ASSUME NEW T, NEW C, NEW i, NEW less, NEW at, OneBefore(i, C, less, at),
           NEW values \in Seq(T), NEW x \in T, x = at[i], InOrder(values, less)
    PROVE  InOrder(<<x>> \o values, at)
  <1>0. /\ C \in SUBSET Nat /\ IsFiniteSet(C) /\ i \in Nat /\ \A j \in C : i < j
        /\ DOMAIN less = C /\ DOMAIN at = {i} \cup C /\ \A j \in C : at[j] = less[j]
    BY DEF OneBefore
  <1>1. Cardinality({i} \cup C) = Cardinality(C) + 1 /\ Cardinality(C) \in Nat
    <2>1. i \notin C
      BY <1>0
    <2>2. {i} \cup C = C \cup {i}
      OBVIOUS
    <2> QED
      BY <1>0, <2>1, <2>2, FS_AddElement, FS_CardinalityType
  <1>2. Len(values) = Cardinality(C) /\ \A j \in C : values[Cardinality({k \in C : k <= j})] = less[j]
    BY <1>0 DEF InOrder
  <1>3. PICK all : all = <<x>> \o values
    OBVIOUS
  <1>4. /\ Len(all) = Len(values) + 1 /\ all[1] = x
        /\ \A k \in 1 .. Len(values) : all[k + 1] = values[k]
    BY <1>3
  <1>5. Len(all) = Cardinality({i} \cup C)
    BY <1>1, <1>2, <1>4
  <1>6. all[Cardinality({k \in {i} \cup C : k <= i})] = at[i]
    <2>1. {k \in {i} \cup C : k <= i} = {i}
      <3>1. \A k \in C : ~ (k <= i)
        BY <1>0
      <3>2. i <= i
        BY <1>0
      <3> QED
        BY <3>1, <3>2
    <2>2. Cardinality({i}) = 1
      BY FS_Singleton
    <2> QED
      BY <1>4, <2>1, <2>2
  <1>7. ASSUME NEW j \in C
        PROVE  all[Cardinality({k \in {i} \cup C : k <= j})] = at[j]
    <2>1. PICK D : D = {k \in C : k <= j}
      OBVIOUS
    <2>2. {k \in {i} \cup C : k <= j} = D \cup {i} /\ i \notin D /\ j \in D /\ D \in SUBSET C
      BY <1>0, <2>1
    <2>3. IsFiniteSet(D) /\ Cardinality(D) <= Cardinality(C) /\ Cardinality(D) \in Nat
      BY <1>0, <2>2, FS_Subset, FS_CardinalityType
    <2>4. Cardinality(D) # 0
      BY <2>2, <2>3, FS_EmptySet
    <2>5. Cardinality(D \cup {i}) = Cardinality(D) + 1
      BY <2>2, <2>3, FS_AddElement
    <2>6. Cardinality(D) \in 1 .. Len(values)
      BY <1>1, <1>2, <2>3, <2>4
    <2>7. all[Cardinality(D) + 1] = values[Cardinality(D)]
      BY <1>4, <2>6
    <2>8. values[Cardinality(D)] = at[j]
      BY <1>0, <1>2, <2>1
    <2> QED
      BY <2>2, <2>5, <2>7, <2>8
  <1> QED
    BY <1>0, <1>3, <1>5, <1>6, <1>7 DEF InOrder

LEMMA NoneInOrderAt ==
    ASSUME NEW at, DOMAIN at = {}
    PROVE  InOrder(<<>>, at)
  BY FS_EmptySet DEF InOrder

LEMMA OneMoreInOrder ==
    ASSUME NEW s \in Seq(Int), NEW sep, NEW C \in SUBSET Starts(s, sep), NEW i \in Starts(s, sep),
           \A j \in C : i < j, NEW p, p = SplitField(Field(s, sep, i)),
           NEW pairs \in Seq(NameValue), p \in NameValue, FieldsInOrder(pairs, s, sep, C)
    PROVE  FieldsInOrder(<<p>> \o pairs, s, sep, {i} \cup C)
  <1>1. IsFiniteSet(C) /\ C \in SUBSET Nat /\ i \in Nat
    BY StartsFinite
  <1>2. PICK at, less : /\ at = [j \in {i} \cup C |-> SplitField(Field(s, sep, j))]
                        /\ less = [j \in C |-> SplitField(Field(s, sep, j))]
    OBVIOUS
  <1>3. OneBefore(i, C, less, at) /\ p = at[i]
    BY <1>1, <1>2 DEF OneBefore
  <1>4. InOrder(pairs, less)
    BY <1>2 DEF FieldsInOrder
  <1>5. InOrder(<<p>> \o pairs, at)
    BY <1>3, <1>4, OneMore
  <1> QED
    BY <1>2, <1>5 DEF FieldsInOrder

LEMMA NoneInOrder ==
    ASSUME NEW s, NEW sep
    PROVE  FieldsInOrder(<<>>, s, sep, {})
  BY NoneInOrderAt DEF FieldsInOrder

LEMMA OneInOrder ==
    ASSUME NEW s \in Seq(Int), NEW sep, NEW i \in Starts(s, sep), NEW p \in NameValue, p = SplitField(Field(s, sep, i))
    PROVE  FieldsInOrder(<<p>>, s, sep, {i})
  <1>1. FieldsInOrder(<<>>, s, sep, {})
    BY NoneInOrder
  <1>2. <<>> \in Seq(NameValue) /\ <<p>> \o <<>> = <<p>> /\ {i} \cup {} = {i}
    OBVIOUS
  <1>3. FieldsInOrder(<<p>> \o <<>>, s, sep, {i} \cup {})
    BY <1>1, <1>2, OneMoreInOrder
  <1> QED
    BY <1>2, <1>3

----------------------------------------------------------------------------
(* The parser of forms and cookies on well-formed lists. *)

\* The '=' of the field at i; the list is well formed there.
HasName(s, sep, i, eq) ==
    /\ eq = Find(s, EQ, i) /\ eq \in i .. End(s, sep, i) /\ s[i] \notin Spaces
    /\ SplitField(Field(s, sep, i)) = Pair(s, i, eq, End(s, sep, i))
    /\ SplitField(Field(s, sep, i)).value = <<>> <=> eq = End(s, sep, i)

LEMMA WellFormedHasNames ==
    ASSUME NEW s \in Seq(Int), NEW sep, WellFormed(s, sep), NEW i \in Starts(s, sep)
    PROVE  HasName(s, sep, i, Find(s, EQ, i))
  <1>1. i \in Positions(s) /\ i \in Nat \ {0} /\ Len(s) \in Nat
    <2>1. i \in Positions(s)
      BY NextStarts
    <2> QED
      BY <2>1 DEF Positions
  <1>2. Contains(Field(s, sep, i), EQ) /\ Field(s, sep, i)[1] \notin Spaces
    BY DEF WellFormed
  <1>3. PICK eq : eq = Find(s, EQ, i)
    OBVIOUS
  <1>4. /\ eq # 0 /\ eq <= End(s, sep, i)
        /\ SplitField(Field(s, sep, i)) = Pair(s, i, eq, End(s, sep, i))
        /\ SplitField(Field(s, sep, i)).value = <<>> <=> eq = End(s, sep, i)
        /\ Field(s, sep, i)[1] = s[i]
    BY <1>1, <1>2, <1>3, FieldSplits
  <1>5. eq \in i .. Len(s)
    BY <1>1, <1>3, <1>4, FindFinds
  <1>6. eq \in i .. End(s, sep, i)
    BY <1>1, <1>4, <1>5, EndIs
  <1> QED
    BY <1>2, <1>3, <1>4, <1>6 DEF HasName

\* A field that a '=' ends is not taken, any other is.
LEMMA NamedFieldTaken ==
    ASSUME NEW s \in Seq(Int), NEW sep, NEW i \in Positions(s), NEW eq, HasName(s, sep, i, eq)
    PROVE  /\ eq = Len(s) => PairsFrom(s, sep, 1, FALSE)[i] = NoPairs /\ Find(s, sep, i) = 0
           /\ eq # Len(s) => FieldAt(s, sep, i, i, eq, Find(s, sep, i))
  <1>1. i \in Nat \ {0} /\ Len(s) \in Nat
    BY DEF Positions
  <1>2. PICK e \in Nat : e = End(s, sep, i) /\ e <= Len(s) /\ \A k \in i .. e : s[k] # sep
    BY EndIs
  <1>3. eq \in Nat /\ i <= eq /\ eq <= e /\ s[i] \notin Spaces
    BY <1>1, <1>2 DEF HasName
  <1>4. s[eq] = EQ /\ \A k \in i .. (eq - 1) : s[k] # EQ
    <2>1. PICK f : f = Find(s, EQ, i)
      OBVIOUS
    <2>2. \/ f = 0
          \/ f \in i .. Len(s) /\ s[f] = EQ /\ \A k \in i .. (f - 1) : s[k] # EQ
      BY <1>1, <2>1, FindFinds
    <2>3. eq = f /\ eq # 0
      BY <1>1, <1>3, <2>1 DEF HasName
    <2> QED
      BY <2>2, <2>3
  <1>5. PICK end : end = Find(s, sep, i)
    OBVIOUS
  <1>6. \/ end = 0 /\ e = Len(s)
        \/ end = e + 1 /\ end <= Len(s) /\ s[end] = sep
    <2>1. CASE end = 0
      BY <1>2, <1>5, <2>1 DEF End
    <2>2. CASE end # 0
      <3>1. end = End(s, sep, i) + 1 /\ end \in i .. Len(s) /\ s[end] = sep
        BY <1>5, <2>2, EndIs
      <3> QED
        BY <1>1, <1>2, <3>1
    <2> QED
      BY <2>1, <2>2
  <1>7. ASSUME eq = Len(s) PROVE PairsFrom(s, sep, 1, FALSE)[i] = NoPairs /\ end = 0
    <2>1. end = 0
      BY <1>1, <1>2, <1>3, <1>6, <1>7
    <2>2. i \in i .. Len(s) /\ eq \in i .. Len(s)
      BY <1>1, <1>3, <1>7
    <2>3. ~ NameOverruns(s, i)
      <3>1. SUFFICES ASSUME NEW first \in i .. Len(s),
                            \A k \in i .. (first - 1) : s[k] \in Spaces, \A k \in first .. Len(s) : s[k] # EQ
                     PROVE  FALSE
        BY DEF NameOverruns
      <3>2. ~ (i \in i .. (first - 1))
        BY <1>3, <3>1
      <3>3. eq \in first .. Len(s)
        BY <1>1, <2>2, <3>2
      <3> QED
        BY <1>4, <3>1, <3>3
    <2>4. ASSUME NEW first, NEW x, NEW y, FieldAt(s, sep, i, first, x, y) PROVE FALSE
      <3>1. x \in first .. (Len(s) - 1) /\ s[x] = EQ /\ first \in i .. Len(s)
        BY <2>4 DEF FieldAt
      <3>2. x \in i .. (eq - 1)
        BY <1>1, <1>7, <3>1
      <3> QED
        BY <1>4, <3>1, <3>2
    <2> QED
      BY <2>1, <2>3, <2>4, FieldOrEnd
  <1>8. ASSUME eq # Len(s) PROVE FieldAt(s, sep, i, i, eq, end)
    <2>1. eq \in i .. (Len(s) - 1) /\ i \in i .. Len(s)
      BY <1>1, <1>2, <1>3, <1>8
    <2>2. \A k \in i .. (i - 1) : s[k] \in Spaces
      BY <1>1
    <2>3. \/ end = 0 /\ \A k \in (eq + 1) .. Len(s) : s[k] # sep
          \/ end \in (eq + 1) .. Len(s) /\ s[end] = sep /\ \A k \in (eq + 1) .. (end - 1) : s[k] # sep
      <3>1. \A k \in (eq + 1) .. e : s[k] # sep
        BY <1>1, <1>2, <1>3
      <3>2. CASE end = 0 /\ e = Len(s)
        BY <3>1, <3>2
      <3>3. CASE end = e + 1 /\ end <= Len(s) /\ s[end] = sep
        <4>1. end \in (eq + 1) .. Len(s) /\ end - 1 = e
          BY <1>1, <1>2, <1>3, <3>3
        <4> QED
          BY <3>1, <3>3, <4>1
      <3> QED
        BY <1>6, <3>2, <3>3
    <2> QED
      BY <1>3, <1>4, <2>1, <2>2, <2>3 DEF FieldAt
  <1> QED
    BY <1>5, <1>7, <1>8

Lost(s, sep) == {i \in Starts(s, sep) : Find(s, sep, i) = 0 /\ SplitField(Field(s, sep, i)).value = <<>>}

PairsInOrder(s, sep, i) ==
    LET from == PairsFrom(s, sep, 1, FALSE) IN
    from[i].overrun = FALSE /\ FieldsInOrder(from[i].pairs, s, sep, StartsFrom(s, sep, i) \ Lost(s, sep))

LEMMA PairsInOrderFrom ==
    ASSUME NEW s \in Seq(Int), NEW sep, WellFormed(s, sep), NEW i \in Starts(s, sep),
           \A j \in Starts(s, sep) : i < j => PairsInOrder(s, sep, j)
    PROVE  PairsInOrder(s, sep, i)
  <1>1. i \in Positions(s) /\ i \in Nat \ {0} /\ Len(s) \in Nat
    <2>1. i \in Positions(s)
      BY NextStarts
    <2> QED
      BY <2>1 DEF Positions
  <1>2. PICK eq : HasName(s, sep, i, eq)
    BY WellFormedHasNames
  <1>3. PICK e \in Nat : e = End(s, sep, i) /\ e <= Len(s)
    BY <1>1, EndIs
  <1>4. PICK end : end = Find(s, sep, i)
    OBVIOUS
  <1>5. PICK p : p = SplitField(Field(s, sep, i)) /\ p = Pair(s, i, eq, e)
    BY <1>2, <1>3 DEF HasName
  <1>6. PICK from \in [Positions(s) -> Parsed] : from = PairsFrom(s, sep, 1, FALSE)
    BY PairsFromSolves
  <1>7. i \in Lost(s, sep) <=> end = 0 /\ eq = e
    BY <1>2, <1>3, <1>4 DEF Lost, HasName
  <1>8. CASE eq = Len(s)
    <2>1. from[i] = NoPairs /\ end = 0
      BY <1>1, <1>2, <1>4, <1>6, <1>8, NamedFieldTaken
    <2>2. e = Len(s)
      BY <1>3, <1>4, <2>1 DEF End
    <2>3. StartsFrom(s, sep, i) \ Lost(s, sep) = {}
      <3>1. StartsFrom(s, sep, i) = {i}
        <4>1. Find(s, sep, i) = 0
          BY <1>4, <2>1
        <4>2. Find(s, sep, i) = 0 => StartsFrom(s, sep, i) = {i}
          BY NextStarts
        <4> QED
          BY <4>1, <4>2
      <3>2. e = Len(s)
        BY <2>2
      <3>3. i \in Lost(s, sep)
        BY <1>7, <1>8, <2>1, <3>2
      <3> QED
        BY <3>1, <3>3
    <2>4. from[i].pairs = <<>> /\ from[i].overrun = FALSE
      BY <2>1 DEF NoPairs
    <2> QED
      BY <1>6, <2>3, <2>4, NoneInOrder DEF PairsInOrder
  <1>9. CASE eq # Len(s)
    <2>1. FieldAt(s, sep, i, i, eq, end)
      BY <1>1, <1>2, <1>4, <1>9, NamedFieldTaken
    <2>2. TakesField(s, sep, i, i, eq, end)
      BY <1>1, <2>1, FieldTaken
    <2>3. FieldPair(s, i, eq, end) = p
      BY <1>3, <1>4, <1>5 DEF FieldPair, End
    <2>4. PICK m : m = AfterField(s, end)
      OBVIOUS
    <2>5. /\ m \in (i + 1) .. (Len(s) + 1) /\ p \in NameValue
          /\ from[i].pairs = <<p>> \o from[m].pairs /\ from[i].overrun = from[m].overrun
      BY <1>6, <2>2, <2>3, <2>4 DEF TakesField
    <2>6. i \notin Lost(s, sep)
      BY <1>3, <1>4, <1>7, <1>9 DEF End
    <2>7. CASE end = 0
      <3>1. from[m] = NoPairs
        BY <1>6, <2>4, <2>7, PairsAtEnd DEF AfterField
      <3>2. from[i].pairs = <<p>> \o <<>> /\ from[i].overrun = FALSE
        BY <2>5, <3>1 DEF NoPairs
      <3>3. <<p>> \o <<>> = <<p>>
        OBVIOUS
      <3>4. StartsFrom(s, sep, i) \ Lost(s, sep) = {i}
        <4>1. StartsFrom(s, sep, i) = {i}
          <5>1. Find(s, sep, i) = 0
            BY <1>4, <2>7
          <5>2. Find(s, sep, i) = 0 => StartsFrom(s, sep, i) = {i}
            BY NextStarts
          <5> QED
            BY <5>1, <5>2
        <4> QED
          BY <2>6, <4>1
      <3>5. FieldsInOrder(<<p>>, s, sep, {i})
        BY <1>5, <2>5, OneInOrder
      <3> QED
        BY <1>6, <3>2, <3>3, <3>4, <3>5 DEF PairsInOrder
    <2>8. CASE end # 0
      <3>1. m = end + 1
        BY <2>4, <2>8 DEF AfterField
      <3>2. m \in Starts(s, sep) /\ StartsFrom(s, sep, i) = {i} \cup StartsFrom(s, sep, m)
        BY <1>4, <2>8, <3>1, NextStarts
      <3>3. i < m /\ m \in Nat
        BY <1>1, <2>5
      <3>4. PairsInOrder(s, sep, m)
        BY <3>2, <3>3
      <3>5. PICK C : C = StartsFrom(s, sep, m) \ Lost(s, sep)
        OBVIOUS
      <3>6. from[m].overrun = FALSE /\ FieldsInOrder(from[m].pairs, s, sep, C)
        BY <1>6, <3>4, <3>5 DEF PairsInOrder
      <3>7. StartsFrom(s, sep, i) \ Lost(s, sep) = {i} \cup C
        BY <2>6, <3>2, <3>5
      <3>8. C \in SUBSET Starts(s, sep) /\ \A j \in C : i < j
        <4>1. \A j \in C : j \in Starts(s, sep) /\ m <= j
          BY <3>5 DEF StartsFrom
        <4>2. \A j \in C : j \in Nat
          BY <4>1, StartsFinite
        <4> QED
          BY <1>1, <3>3, <4>1, <4>2
      <3>9. from[m].pairs \in Seq(NameValue)
        <4>1. m \in Positions(s)
          BY <1>1, <2>5 DEF Positions
        <4> QED
          BY <1>6, <4>1 DEF Parsed
      <3>10. FieldsInOrder(<<p>> \o from[m].pairs, s, sep, {i} \cup C)
        BY <1>5, <2>5, <3>6, <3>8, <3>9, OneMoreInOrder
      <3> QED
        BY <1>6, <2>5, <3>6, <3>7, <3>10 DEF PairsInOrder
    <2> QED
      BY <2>7, <2>8
  <1> QED
    BY <1>8, <1>9

LEMMA AllPairsInOrder ==
    ASSUME NEW s \in Seq(Int), NEW sep, WellFormed(s, sep)
    PROVE  PairsInOrder(s, sep, 1)
  <1> DEFINE n == Len(s) + 1
             K == {i \in 1 .. n : i \in Starts(s, sep) => PairsInOrder(s, sep, i)}
  <1>1. n \in Nat /\ 1 \in 1 .. n /\ 1 \in Starts(s, sep) /\ Starts(s, sep) \subseteq 1 .. n
    BY DEF Starts
  <1>2. ASSUME NEW i \in 1 .. n, \A j \in (i + 1) .. n : j \in K, i \in Starts(s, sep)
        PROVE  PairsInOrder(s, sep, i)
    <2>1. ASSUME NEW j \in Starts(s, sep), i < j PROVE PairsInOrder(s, sep, j)
      <3>1. j \in (i + 1) .. n
        BY <1>1, <2>1
      <3> QED
        BY <1>2, <3>1
    <2> HIDE DEF K
    <2> QED
      BY <1>2, <2>1, PairsInOrderFrom
  <1>3. K = 1 .. n
    <2>1. K \in SUBSET (1 .. n)
      OBVIOUS
    <2>2. \A i \in 1 .. n : (\A j \in (i + 1) .. n : j \in K) => i \in K
      BY <1>2
    <2> HIDE DEF K, n
    <2> QED
      BY <1>1, <2>1, <2>2, DownwardInduction
  <1> QED
    BY <1>1, <1>3

\* A list of any length that is well formed is parsed into the pairs of its
\* fields in their order, but for an empty value at its very end.
THEOREM PairsAreFields == Spec => []PairsOfFields
  <1>1. text \in Seq(Int) => PairsOfFields
    <2> SUFFICES ASSUME text \in Seq(Int), NEW sep \in {AMP, SEMI}, WellFormed(text, sep)
                 PROVE  LET parsed == ParsePairs(text, sep) IN
                        ~ parsed.overrun /\ FieldsInOrder(parsed.pairs, text, sep, Starts(text, sep) \ Lost(text, sep))
      BY DEF PairsOfFields, Lost
    <2>1. PairsInOrder(text, sep, 1)
      BY AllPairsInOrder
    <2>2. StartsFrom(text, sep, 1) = Starts(text, sep)
      <3>1. \A j \in Starts(text, sep) : 1 <= j
        BY DEF Starts
      <3> QED
        BY <3>1 DEF StartsFrom
    <2> QED
      BY <2>1, <2>2 DEF PairsInOrder, ParsePairs, PairsBy
  <1> QED
    BY <1>1, TextsAreTexts, PTL

----------------------------------------------------------------------------
(* The parser of queries. *)

ParsedQuery == [pairs : Seq(NameValue), negative : BOOLEAN]

NothingAsked == [pairs |-> <<>>, negative |-> FALSE]

\* What a piece of a query gives, and one round of the loop in terms of it.
Piece(q, i) == IF Find(q, EQ, i) = 0 THEN <<>> ELSE <<Pair(q, i, Find(q, EQ, i), End(q, AMP, i))>>

RoundIs(q, rest, i) ==
    LET amp == Find(q, AMP, i)
        r == rest[amp + 1]
        round == QueryAt(q, FALSE, 0, rest, i)
    IN  /\ amp = 0 => round = [pairs |-> Piece(q, i), negative |-> FALSE]
        /\ amp # 0 /\ Find(q, EQ, i) > amp => round = [pairs |-> <<>>, negative |-> TRUE]
        /\ amp # 0 /\ ~ (Find(q, EQ, i) > amp) => round = [r EXCEPT !.pairs = Piece(q, i) \o @]

LEMMA QueryRound ==
    ASSUME NEW q \in Seq(Int), NEW i \in Positions(q), NEW rest
    PROVE  RoundIs(q, rest, i)
  <1>1. SelectInSubSeq(q, i, Len(q), LAMBDA c : c = EQ) = Find(q, EQ, i)
    BY DEF Find
  <1>2. PICK amp : amp = Find(q, AMP, i) /\ (amp = 0 \/ amp \in Nat)
    <2>1. i \in Nat \ {0} /\ Len(q) \in Nat
      BY DEF Positions
    <2>2. Find(q, AMP, i) = 0 \/ Find(q, AMP, i) \in i .. Len(q)
      BY <2>1, FindFinds
    <2> QED
      BY <2>1, <2>2
  <1>3. (IF amp = 0 THEN Len(q) ELSE amp - 1 + 0) = End(q, AMP, i)
    BY <1>2 DEF End
  <1>4. QueryAt(q, FALSE, 0, rest, i) =
            IF amp = 0 THEN [pairs |-> Piece(q, i), negative |-> FALSE]
            ELSE IF Find(q, EQ, i) > amp THEN [pairs |-> <<>>, negative |-> TRUE]
            ELSE [rest[amp + 1] EXCEPT !.pairs = Piece(q, i) \o @]
    BY <1>1, <1>2, <1>3 DEF QueryAt, Piece
  <1> QED
    BY <1>2, <1>4 DEF RoundIs

\* The next piece begins further on.
LEMMA QuerySteps ==
    ASSUME NEW q \in Seq(Int), NEW i \in Positions(q)
    PROVE  /\ Find(q, AMP, i) # 0 => Find(q, AMP, i) + 1 \in (i + 1) .. (Len(q) + 1)
           /\ ~ (Find(q, AMP, i) # 0 /\ Find(q, EQ, i) > Find(q, AMP, i)) => Piece(q, i) \in Seq(NameValue)
  <1>1. i \in Nat \ {0} /\ Len(q) \in Nat
    BY DEF Positions
  <1>2. PICK amp : amp = Find(q, AMP, i) /\ (amp = 0 \/ amp \in i .. Len(q))
    BY <1>1, FindFinds
  <1>3. PICK eq : eq = Find(q, EQ, i) /\ (eq = 0 \/ eq \in i .. Len(q))
    BY <1>1, FindFinds
  <1>4. amp # 0 => amp + 1 \in (i + 1) .. (Len(q) + 1)
    BY <1>1, <1>2
  <1>5. ASSUME ~ (amp # 0 /\ eq > amp), eq # 0 PROVE <<Pair(q, i, eq, End(q, AMP, i))>> \in Seq(NameValue)
    <2>1. PICK e \in Nat : e = End(q, AMP, i) /\ e <= Len(q)
      BY EndIs
    <2>2. eq \in Nat /\ i <= eq /\ eq <= Len(q)
      BY <1>1, <1>3, <1>5
    <2>3. \A k \in i .. (eq - 1) : k \in 1 .. Len(q)
      BY <1>1, <2>2
    <2>4. \A k \in (eq + 1) .. e : k \in 1 .. Len(q)
      BY <1>1, <2>1, <2>2
    <2>5. SubSeq(q, i, eq - 1) \in Seq(Int) /\ SubSeq(q, eq + 1, e) \in Seq(Int)
      BY <1>1, <2>1, <2>2, <2>3, <2>4
    <2>6. Pair(q, i, eq, e) \in NameValue
      BY <2>5 DEF Pair, NameValue
    <2> QED
      BY <2>1, <2>6
  <1>6. <<>> \in Seq(NameValue)
    OBVIOUS
  <1> QED
    BY <1>2, <1>3, <1>4, <1>5, <1>6 DEF Piece

LEMMA QueryAtParsed ==
    ASSUME NEW q \in Seq(Int), NEW i \in Positions(q), NEW rest \in [Positions(q) -> ParsedQuery]
    PROVE  QueryAt(q, FALSE, 0, rest, i) \in ParsedQuery
  <1>1. RoundIs(q, rest, i)
    BY QueryRound
  <1>2. PICK amp, eq, round, pc : /\ amp = Find(q, AMP, i) /\ eq = Find(q, EQ, i)
                                  /\ round = QueryAt(q, FALSE, 0, rest, i) /\ pc = Piece(q, i)
    OBVIOUS
  <1>3. /\ amp # 0 => amp + 1 \in (i + 1) .. (Len(q) + 1)
        /\ ~ (amp # 0 /\ eq > amp) => pc \in Seq(NameValue)
    BY <1>2, QuerySteps
  <1>4. CASE amp = 0
    <2>1. round = [pairs |-> pc, negative |-> FALSE]
      BY <1>1, <1>2, <1>4 DEF RoundIs
    <2>2. pc \in Seq(NameValue)
      BY <1>3, <1>4
    <2>3. [pairs |-> pc, negative |-> FALSE] \in ParsedQuery
      BY <2>2 DEF ParsedQuery
    <2> QED
      BY <1>2, <2>1, <2>3
  <1>5. CASE amp # 0 /\ eq > amp
    <2>1. <<>> \in Seq(NameValue)
      OBVIOUS
    <2>2. round = [pairs |-> <<>>, negative |-> TRUE]
      BY <1>1, <1>2, <1>5 DEF RoundIs
    <2>3. [pairs |-> <<>>, negative |-> TRUE] \in ParsedQuery
      BY <2>1 DEF ParsedQuery
    <2> QED
      BY <1>2, <2>2, <2>3
  <1>6. CASE amp # 0 /\ ~ (eq > amp)
    <2>1. amp + 1 \in Positions(q)
      <3>1. i \in Nat
        BY DEF Positions
      <3> QED
        BY <1>3, <1>6, <3>1 DEF Positions
    <2>2. PICK r \in ParsedQuery : r = rest[amp + 1]
      BY <2>1
    <2>3. pc \o r.pairs \in Seq(NameValue)
      BY <1>3, <1>6 DEF ParsedQuery
    <2>4. [r EXCEPT !.pairs = pc \o @] \in ParsedQuery
      BY <2>3 DEF ParsedQuery
    <2> QED
      BY <1>1, <1>2, <1>6, <2>2, <2>4 DEF RoundIs
  <1> QED
    BY <1>2, <1>4, <1>5, <1>6

LEMMA QueryAtLocal ==
    ASSUME NEW q \in Seq(Int), NEW i \in Positions(q), NEW f, NEW g,
           \A j \in (i + 1) .. (Len(q) + 1) : f[j] = g[j]
    PROVE  QueryAt(q, FALSE, 0, f, i) = QueryAt(q, FALSE, 0, g, i)
  <1>1. RoundIs(q, f, i) /\ RoundIs(q, g, i)
    BY QueryRound
  <1>2. Find(q, AMP, i) # 0 => f[Find(q, AMP, i) + 1] = g[Find(q, AMP, i) + 1]
    BY QuerySteps
  <1> QED
    BY <1>1, <1>2 DEF RoundIs

\* The parser's definition has the solution it is meant to have.
LEMMA QueryFromSolves ==
    ASSUME NEW q \in Seq(Int)
    PROVE  LET from == QueryFrom(q, FALSE, 0) IN
           /\ from \in [Positions(q) -> ParsedQuery]
           /\ \A i \in Positions(q) : from[i] = QueryAt(q, FALSE, 0, from, i)
  <1> DEFINE n == Len(q) + 1
             step == [i \in 1 .. n |-> [f \in [1 .. n -> ParsedQuery] |-> QueryAt(q, FALSE, 0, f, i)]]
             Solves(g) == g = [i \in 1 .. n |-> QueryAt(q, FALSE, 0, g, i)]
  <1>1. n \in Nat /\ Positions(q) = 1 .. n
    BY DEF Positions
  <1>2. NothingAsked \in ParsedQuery
    <2>1. <<>> \in Seq(NameValue)
      OBVIOUS
    <2> QED
      BY <2>1 DEF NothingAsked, ParsedQuery
  <1>3. step \in [1 .. n -> [[1 .. n -> ParsedQuery] -> ParsedQuery]]
    BY <1>1, QueryAtParsed
  <1>4. \A i \in 1 .. n : \A f, g \in [1 .. n -> ParsedQuery] :
            (\A j \in (i + 1) .. n : f[j] = g[j]) => step[i][f] = step[i][g]
    <2> TAKE i \in 1 .. n
    <2> TAKE f, g \in [1 .. n -> ParsedQuery]
    <2> HAVE \A j \in (i + 1) .. n : f[j] = g[j]
    <2>1. QueryAt(q, FALSE, 0, f, i) = QueryAt(q, FALSE, 0, g, i)
      BY <1>1, QueryAtLocal
    <2>2. step[i][f] = QueryAt(q, FALSE, 0, f, i) /\ step[i][g] = QueryAt(q, FALSE, 0, g, i)
      OBVIOUS
    <2> QED
      BY <2>1, <2>2
  <1>5. \E f \in [1 .. n -> ParsedQuery] : \A i \in 1 .. n : f[i] = step[i][f]
    <2>1. IsRecursion(step, n, ParsedQuery)
      BY <1>3, <1>4 DEF IsRecursion
    <2>2. n \in Nat
      BY <1>1
    <2> HIDE DEF step, n
    <2>3. HasSolution(step, n, ParsedQuery)
      BY <1>2, <2>1, <2>2, DownwardRecursion
    <2> QED
      BY <2>3 DEF HasSolution
  <1>6. PICK f \in [1 .. n -> ParsedQuery] : \A i \in 1 .. n : f[i] = QueryAt(q, FALSE, 0, f, i)
    BY <1>5
  <1>7. Solves(f)
    BY <1>6
  <1>8. QueryFrom(q, FALSE, 0) = CHOOSE g : Solves(g)
    BY DEF QueryFrom
  <1>9. Solves(CHOOSE g : Solves(g))
    <2> HIDE DEF Solves
    <2> QED
      BY <1>7
  <1>10. PICK from : from = QueryFrom(q, FALSE, 0) /\ from = [i \in 1 .. n |-> QueryAt(q, FALSE, 0, from, i)]
    BY <1>8, <1>9
  <1> DEFINE K == {i \in 1 .. n : from[i] = f[i]}
  <1>11. \A i \in 1 .. n : (\A j \in (i + 1) .. n : j \in K) => i \in K
    <2> TAKE i \in 1 .. n
    <2> HAVE \A j \in (i + 1) .. n : j \in K
    <2>1. QueryAt(q, FALSE, 0, from, i) = QueryAt(q, FALSE, 0, f, i)
      BY <1>1, QueryAtLocal
    <2> QED
      BY <1>6, <1>10, <2>1
  <1>12. K = 1 .. n
    <2>1. K \in SUBSET (1 .. n)
      OBVIOUS
    <2> HIDE DEF K, n
    <2> QED
      BY <1>1, <1>11, <2>1, DownwardInduction
  <1>13. from = f
    BY <1>10, <1>12
  <1> QED
    BY <1>1, <1>6, <1>10, <1>13

\* What the loop has made of a query from the start of a piece on.
QueryRight(q, i) ==
    LET from == QueryFrom(q, FALSE, 0)
        named == Named(q) \cap StartsFrom(q, AMP, i)
    IN  /\ named = {} <=> Find(q, EQ, i) = 0
        /\ from[i].negative <=> \E a \in StartsFrom(q, AMP, i) \ Named(q), b \in Named(q) : a < b
        /\ ~ from[i].negative => FieldsInOrder(from[i].pairs, q, AMP, named)

LEMMA QueryRightFrom ==
    ASSUME NEW q \in Seq(Int), NEW i \in Starts(q, AMP),
           \A j \in Starts(q, AMP) : i < j => QueryRight(q, j)
    PROVE  QueryRight(q, i)
  <1>1. i \in Positions(q) /\ i \in Nat \ {0} /\ Len(q) \in Nat
    <2>1. i \in Positions(q)
      BY NextStarts
    <2> QED
      BY <2>1 DEF Positions
  <1>2. PICK from \in [Positions(q) -> ParsedQuery] :
            from = QueryFrom(q, FALSE, 0) /\ from[i] = QueryAt(q, FALSE, 0, from, i)
    BY <1>1, QueryFromSolves
  <1>3. PICK amp, eq, pc : amp = Find(q, AMP, i) /\ eq = Find(q, EQ, i) /\ pc = Piece(q, i)
    OBVIOUS
  <1>4. PICK e \in Nat : e = End(q, AMP, i) /\ e <= Len(q) /\ (amp # 0 => amp = e + 1) /\ (amp = 0 => e = Len(q))
    BY <1>1, <1>3, EndIs DEF End
  <1>5. \/ eq = 0 /\ \A k \in i .. Len(q) : q[k] # EQ
        \/ eq \in i .. Len(q) /\ q[eq] = EQ /\ \A k \in i .. (eq - 1) : q[k] # EQ
    BY <1>1, <1>3, FindFinds
  <1>6. i \in Named(q) <=> eq # 0 /\ eq <= e
    BY <1>1, <1>3, <1>4, FieldSplits DEF Named
  <1>7. Named(q) \subseteq Starts(q, AMP) /\ Starts(q, AMP) \subseteq Nat
    BY StartsFinite DEF Named
  <1>8. eq # 0 /\ eq <= e => /\ pc = <<SplitField(Field(q, AMP, i))>>
                             /\ SplitField(Field(q, AMP, i)) \in NameValue
    <2> SUFFICES ASSUME eq # 0, eq <= e
                 PROVE  pc = <<SplitField(Field(q, AMP, i))>> /\ SplitField(Field(q, AMP, i)) \in NameValue
      OBVIOUS
    <2>1. PICK p : p = SplitField(Field(q, AMP, i))
      OBVIOUS
    <2>2. p = Pair(q, i, eq, e)
      BY <1>1, <1>3, <1>4, <2>1, FieldSplits
    <2>3. pc = <<p>>
      BY <1>3, <1>4, <2>2 DEF Piece
    <2>4. ~ (amp # 0 /\ eq > amp)
      BY <1>1, <1>4, <1>5
    <2>5. pc \in Seq(NameValue)
      BY <1>1, <1>3, <2>4, QuerySteps
    <2>6. p \in NameValue
      <3>1. pc[1] = p /\ 1 \in 1 .. Len(pc)
        BY <2>3
      <3>2. pc[1] \in NameValue
        BY <2>5, <3>1, ElementOfSeq
      <3> QED
        BY <3>1, <3>2
    <2> QED
      BY <2>1, <2>3, <2>6
  <1>9. eq = 0 => pc = <<>>
    BY <1>3 DEF Piece
  <1>10. PICK named, stray : /\ named = Named(q) \cap StartsFrom(q, AMP, i)
                             /\ stray <=> \E a \in StartsFrom(q, AMP, i) \ Named(q), b \in Named(q) : a < b
    OBVIOUS
  <1>11. RoundIs(q, from, i)
    BY <1>1, QueryRound
  <1>12. CASE amp = 0
    <2>1. from[i].pairs = pc /\ from[i].negative = FALSE
      <3>1. from[i] = [pairs |-> pc, negative |-> FALSE]
        BY <1>2, <1>3, <1>11, <1>12 DEF RoundIs
      <3> QED
        BY <3>1
    <2>2. StartsFrom(q, AMP, i) = {i}
      <3>1. Find(q, AMP, i) = 0 => StartsFrom(q, AMP, i) = {i}
        BY NextStarts
      <3> QED
        BY <1>3, <1>12, <3>1
    <2>3. ~ stray
      <3>1. \A b \in Named(q) : i < b => b \in StartsFrom(q, AMP, i)
        BY <1>1, <1>7 DEF StartsFrom
      <3> QED
        BY <1>1, <1>7, <1>10, <2>2, <3>1
    <2>4. CASE eq = 0
      <3>1. named = {}
        BY <1>6, <1>10, <2>2, <2>4
      <3>2. FieldsInOrder(pc, q, AMP, named)
        BY <1>9, <2>4, <3>1, NoneInOrder
      <3> QED
        BY <1>2, <1>3, <1>10, <2>1, <2>3, <2>4, <3>1, <3>2 DEF QueryRight
    <2>5. CASE eq # 0
      <3>1. eq <= e
        BY <1>1, <1>4, <1>5, <1>12, <2>5
      <3>2. named = {i}
        BY <1>6, <1>10, <2>2, <2>5, <3>1
      <3>3. FieldsInOrder(pc, q, AMP, named)
        BY <1>8, <2>5, <3>1, <3>2, OneInOrder
      <3> QED
        BY <1>2, <1>3, <1>10, <2>1, <2>3, <2>5, <3>2, <3>3 DEF QueryRight
    <2> QED
      BY <2>4, <2>5
  <1>13. CASE amp # 0
    <2>1. PICK m : m = amp + 1
      OBVIOUS
    <2>2. /\ m \in Starts(q, AMP) /\ i \notin StartsFrom(q, AMP, m)
          /\ StartsFrom(q, AMP, i) = {i} \cup StartsFrom(q, AMP, m)
      BY <1>3, <1>13, <2>1, NextStarts
    <2>3. m \in (i + 1) .. (Len(q) + 1)
      BY <1>1, <1>3, <1>13, <2>1, QuerySteps
    <2>4. i < m /\ m \in Nat /\ m \in Positions(q)
      BY <1>1, <2>3 DEF Positions
    <2>5. QueryRight(q, m)
      BY <2>2, <2>4
    <2>6. PICK later, behind : /\ later = Named(q) \cap StartsFrom(q, AMP, m)
                               /\ behind <=> \E a \in StartsFrom(q, AMP, m) \ Named(q), b \in Named(q) : a < b
      OBVIOUS
    <2>7. /\ later = {} <=> Find(q, EQ, m) = 0
          /\ from[m].negative <=> behind
          /\ ~ from[m].negative => FieldsInOrder(from[m].pairs, q, AMP, later)
      BY <1>2, <2>5, <2>6 DEF QueryRight
    <2>8. amp \in Nat /\ e + 1 = amp /\ m = amp + 1 /\ i <= amp
      BY <1>1, <1>4, <1>13, <2>1, <2>3
    <2>9. PICK eqm : eqm = Find(q, EQ, m)
      OBVIOUS
    <2>10. \/ eqm = 0 /\ \A k \in m .. Len(q) : q[k] # EQ
           \/ eqm \in m .. Len(q) /\ q[eqm] = EQ
      <3>1. m \in Nat \ {0}
        BY <1>1, <2>4
      <3> QED
        BY <2>9, <3>1, FindFinds
    <2>11. eq # amp
      <3>1. q[amp] = AMP
        BY <1>1, <1>3, <1>13, EndIs
      <3>2. AMP # EQ
        BY DEF AMP, EQ
      <3> QED
        BY <1>5, <1>13, <3>1, <3>2
    <2>12. \A b \in later : b \in Named(q) /\ m <= b /\ b \in Nat
      BY <1>7, <2>6 DEF StartsFrom
    <2>13. CASE eq # 0 /\ eq > amp
      <3>1. from[i].negative = TRUE
        <4>1. from[i] = [pairs |-> <<>>, negative |-> TRUE]
          BY <1>2, <1>3, <1>11, <1>13, <2>13 DEF RoundIs
        <4> QED
          BY <4>1
      <3>2. eqm # 0
        <4>1. eq \in m .. Len(q) /\ q[eq] = EQ
          BY <1>1, <1>5, <2>8, <2>13
        <4>2. SUFFICES ASSUME eqm = 0 PROVE FALSE
          OBVIOUS
        <4>3. \A k \in m .. Len(q) : q[k] # EQ
          <5>1. 0 \notin m .. Len(q)
            BY <2>4
          <5> QED
            BY <2>10, <4>2, <5>1
        <4> QED
          BY <4>1, <4>3
      <3>3. PICK b \in later : b \in Named(q) /\ m <= b /\ b \in Nat
        BY <2>7, <2>9, <2>12, <3>2
      <3>4. i \notin Named(q)
        BY <1>1, <1>4, <1>5, <1>6, <2>8, <2>13
      <3>5. stray
        <4>1. i \in StartsFrom(q, AMP, i) \ Named(q) /\ i < b
          BY <1>1, <2>2, <2>4, <3>3, <3>4
        <4> QED
          BY <1>10, <3>3, <4>1
      <3>6. named # {}
        BY <1>10, <2>2, <2>6, <3>3
      <3> QED
        BY <1>2, <1>3, <1>10, <2>13, <3>1, <3>5, <3>6 DEF QueryRight
    <2>14. ASSUME ~ (eq > amp)
           PROVE  from[i].pairs = pc \o from[m].pairs /\ from[i].negative = from[m].negative
      <3>1. PICK r \in ParsedQuery : r = from[m]
        BY <2>4
      <3>2. from[i] = [r EXCEPT !.pairs = pc \o @]
        BY <1>2, <1>3, <1>11, <1>13, <2>1, <2>14, <3>1 DEF RoundIs
      <3> QED
        BY <3>1, <3>2 DEF ParsedQuery
    <2>15. from[m].pairs \in Seq(NameValue)
      BY <2>4 DEF ParsedQuery
    <2>16. CASE eq = 0
      <3>1. from[i].pairs = pc \o from[m].pairs /\ from[i].negative = from[m].negative
        BY <2>8, <2>14, <2>16
      <3>2. eqm = 0
        <4>1. \A k \in m .. Len(q) : q[k] # EQ
          <5>1. \A k \in i .. Len(q) : q[k] # EQ
            BY <1>1, <1>5, <2>16
          <5> QED
            BY <1>1, <2>4, <5>1
        <4> QED
          BY <2>10, <4>1
      <3>3. later = {} /\ i \notin Named(q)
        BY <1>6, <2>7, <2>9, <2>16, <3>2
      <3>4. named = {}
        BY <1>10, <2>2, <2>6, <3>3
      <3>5. ~ stray /\ ~ behind
        <4>1. \A a \in Starts(q, AMP), b \in Named(q) : i <= a /\ a < b => b \in named
          BY <1>1, <1>7, <1>10 DEF StartsFrom
        <4>2. \A a \in StartsFrom(q, AMP, i) : a \in Starts(q, AMP) /\ i <= a
          BY DEF StartsFrom
        <4> QED
          BY <1>10, <2>2, <2>6, <3>4, <4>1, <4>2
      <3>6. FieldsInOrder(from[i].pairs, q, AMP, named)
        <4>1. pc \o from[m].pairs = from[m].pairs
          BY <1>9, <2>15, <2>16
        <4> QED
          BY <2>7, <3>1, <3>3, <3>4, <3>5, <4>1
      <3> QED
        BY <1>2, <1>3, <1>10, <2>7, <2>16, <3>1, <3>4, <3>5, <3>6 DEF QueryRight
    <2>17. CASE eq # 0 /\ ~ (eq > amp)
      <3>1. from[i].pairs = pc \o from[m].pairs /\ from[i].negative = from[m].negative
        BY <2>14, <2>17
      <3>2. eq <= e /\ i \in Named(q)
        BY <1>1, <1>4, <1>5, <1>6, <2>8, <2>11, <2>17
      <3>3. named = {i} \cup later
        BY <1>10, <2>2, <2>6, <3>2
      <3>4. stray <=> behind
        <4>1. StartsFrom(q, AMP, i) \ Named(q) = StartsFrom(q, AMP, m) \ Named(q)
          BY <2>2, <3>2
        <4> QED
          BY <1>10, <2>6, <4>1
      <3>5. ASSUME ~ from[m].negative PROVE FieldsInOrder(pc \o from[m].pairs, q, AMP, {i} \cup later)
        <4>1. PICK p : p = SplitField(Field(q, AMP, i)) /\ p \in NameValue /\ pc = <<p>>
          BY <1>8, <2>17, <3>2
        <4>2. later \in SUBSET Starts(q, AMP)
          BY <1>7, <2>6
        <4>3. \A j \in later : i < j
          BY <1>1, <2>4, <2>12
        <4>4. FieldsInOrder(<<p>> \o from[m].pairs, q, AMP, {i} \cup later)
          BY <2>7, <2>15, <3>5, <4>1, <4>2, <4>3, OneMoreInOrder
        <4> QED
          BY <4>1, <4>4
      <3> QED
        BY <1>2, <1>3, <1>10, <2>7, <2>17, <3>1, <3>3, <3>4, <3>5 DEF QueryRight
    <2> QED
      BY <2>13, <2>16, <2>17
  <1> QED
    BY <1>12, <1>13

LEMMA AllQueryRight ==
    ASSUME NEW q \in Seq(Int)
    PROVE  QueryRight(q, 1)
  <1> DEFINE n == Len(q) + 1
             K == {i \in 1 .. n : i \in Starts(q, AMP) => QueryRight(q, i)}
  <1>1. n \in Nat /\ 1 \in 1 .. n /\ 1 \in Starts(q, AMP) /\ Starts(q, AMP) \subseteq 1 .. n
    BY DEF Starts
  <1>2. ASSUME NEW i \in 1 .. n, \A j \in (i + 1) .. n : j \in K, i \in Starts(q, AMP)
        PROVE  QueryRight(q, i)
    <2>1. ASSUME NEW j \in Starts(q, AMP), i < j PROVE QueryRight(q, j)
      <3>1. j \in (i + 1) .. n
        BY <1>1, <2>1
      <3> QED
        BY <1>2, <3>1
    <2> HIDE DEF K
    <2> QED
      BY <1>2, <2>1, QueryRightFrom
  <1>3. K = 1 .. n
    <2>1. K \in SUBSET (1 .. n)
      OBVIOUS
    <2>2. \A i \in 1 .. n : (\A j \in (i + 1) .. n : j \in K) => i \in K
      BY <1>2
    <2> HIDE DEF K, n
    <2> QED
      BY <1>1, <2>1, <2>2, DownwardInduction
  <1> QED
    BY <1>1, <1>3

LEMMA WholeQuery ==
    ASSUME NEW q \in Seq(Int)
    PROVE  /\ ParseQuery(q).negative <=> \E a \in Starts(q, AMP) \ Named(q), b \in Named(q) : a < b
           /\ ~ ParseQuery(q).negative => FieldsInOrder(ParseQuery(q).pairs, q, AMP, Named(q))
  <1>1. QueryRight(q, 1)
    BY AllQueryRight
  <1>2. StartsFrom(q, AMP, 1) = Starts(q, AMP)
    <2>1. \A j \in Starts(q, AMP) : 1 <= j
      BY DEF Starts
    <2> QED
      BY <2>1 DEF StartsFrom
  <1>3. Named(q) \cap Starts(q, AMP) = Named(q)
    BY DEF Named
  <1> QED
    BY <1>1, <1>2, <1>3 DEF QueryRight, ParseQuery, QueryBy

\* For queries of every length: PyDict_SetItem is handed a NULL exactly when a
\* field without '=' comes before one that has it.
THEOREM NegativesExactly == Spec => []NegativeExactly
  <1>1. text \in Seq(Int) => NegativeExactly
    BY WholeQuery DEF NegativeExactly
  <1> QED
    BY <1>1, TextsAreTexts, PTL

\* Otherwise GET is made of the fields that have a '=', in their order.
THEOREM QueriesAreFields == Spec => []QueryOfFields
  <1>1. text \in Seq(Int) => QueryOfFields
    BY WholeQuery DEF QueryOfFields
  <1> QED
    BY <1>1, TextsAreTexts, PTL

----------------------------------------------------------------------------
(* The header a browser sends. *)

LEMMA LenOfDomain ==
    ASSUME NEW s, NEW n \in Nat, DOMAIN s = 1 .. n
    PROVE  Len(s) = n
  OBVIOUS

\* One text joined to nothing, and two.
LEMMA FlattenOne ==
    ASSUME NEW seqs, Len(seqs) = 1
    PROVE  FlattenSeq(seqs) = seqs[1]
  <1> DEFINE Flat(f) == f = [i \in 1 .. 1 |-> IF i = 1 THEN seqs[i] ELSE f[i - 1] \o seqs[i]]
  <1>1. Flat([i \in 1 .. 1 |-> seqs[1]])
    OBVIOUS
  <1>2. FlattenSeq(seqs) = (CHOOSE f : Flat(f))[1]
    BY DEF FlattenSeq
  <1>3. Flat(CHOOSE f : Flat(f))
    <2> HIDE DEF Flat
    <2> QED
      BY <1>1
  <1>4. PICK f : f = (CHOOSE g : Flat(g)) /\ Flat(f)
    BY <1>3
  <1>5. f[1] = seqs[1]
    BY <1>4
  <1> QED
    BY <1>2, <1>4, <1>5

LEMMA FlattenTwo ==
    ASSUME NEW seqs, Len(seqs) = 2
    PROVE  FlattenSeq(seqs) = seqs[1] \o seqs[2]
  <1> DEFINE Flat(f) == f = [i \in 1 .. 2 |-> IF i = 1 THEN seqs[i] ELSE f[i - 1] \o seqs[i]]
  <1>1. \E f : Flat(f)
    <2>1. PICK f : f = [i \in 1 .. 2 |-> IF i = 1 THEN seqs[1] ELSE seqs[1] \o seqs[2]]
      OBVIOUS
    <2>2. f[1] = seqs[1]
      BY <2>1
    <2>3. ASSUME NEW i \in 1 .. 2
          PROVE  (IF i = 1 THEN seqs[1] ELSE seqs[1] \o seqs[2]) = (IF i = 1 THEN seqs[i] ELSE f[i - 1] \o seqs[i])
      <3>1. i = 1 \/ (i = 2 /\ i - 1 = 1)
        OBVIOUS
      <3> QED
        BY <2>2, <3>1
    <2> QED
      BY <2>1, <2>3
  <1>2. FlattenSeq(seqs) = (CHOOSE f : Flat(f))[2]
    BY DEF FlattenSeq
  <1>3. Flat(CHOOSE f : Flat(f))
    <2> HIDE DEF Flat
    <2> QED
      BY <1>1
  <1>4. PICK f : f = (CHOOSE g : Flat(g)) /\ Flat(f)
    BY <1>3
  <1>5. \A i \in 1 .. 2 : f[i] = IF i = 1 THEN seqs[i] ELSE f[i - 1] \o seqs[i]
    BY <1>4
  <1>6. f[1] = seqs[1]
    BY <1>5
  <1>7. f[2] = seqs[1] \o seqs[2]
    <2>1. f[2] = f[2 - 1] \o seqs[2]
      BY <1>5
    <2>2. 2 - 1 = 1
      OBVIOUS
    <2> QED
      BY <1>6, <2>1, <2>2
  <1> QED
    BY <1>2, <1>4, <1>7

Line(c) == c.name \o <<EQ>> \o c.value

\* Another cookie behind the first.
MoreText == <<SEMI, SP>> \o Other.name \o <<EQ>> \o Other.value

\* The header of one cookie, and of one before another.
LEMMA HeaderOfOne ==
    ASSUME NEW c \in NameValue
    PROVE  CookieHeader(<<c>>) = Line(c)
  <1>1. PICK n : n = c.name /\ n \in Seq(Int)
    BY DEF NameValue
  <1> DEFINE kept == <<c>>
             Part(k) == (IF k = 1 THEN <<>> ELSE <<SEMI, SP>>) \o kept[k].name \o <<EQ>> \o kept[k].value
             seqs == [k \in DOMAIN kept |-> Part(k)]
  <1>2. DOMAIN kept = 1 .. 1 /\ kept[1] = c
    OBVIOUS
  <1>3. seqs[1] = <<>> \o n \o <<EQ>> \o c.value
    <2>1. Part(1) = <<>> \o n \o <<EQ>> \o c.value
      BY <1>1, <1>2
    <2>2. 1 \in DOMAIN kept
      BY <1>2
    <2> HIDE DEF Part, kept
    <2> QED
      BY <2>1, <2>2
  <1>4. <<>> \o n = n
    BY <1>1, ConcatEmptySeq
  <1>5. DOMAIN seqs = 1 .. 1
    BY <1>2
  <1>6. CookieHeader(<<c>>) = FlattenSeq(seqs)
    BY DEF CookieHeader
  <1> HIDE DEF seqs
  <1>7. Len(seqs) = 1
    BY <1>5, LenOfDomain
  <1> QED
    BY <1>1, <1>3, <1>4, <1>6, <1>7, FlattenOne DEF Line

LEMMA HeaderOfTwo ==
    ASSUME NEW c \in NameValue
    PROVE  CookieHeader(<<c, Other>>) = Line(c) \o MoreText
  <1>1. PICK n : n = c.name /\ n \in Seq(Int)
    BY DEF NameValue
  <1> DEFINE kept == <<c, Other>>
             Part(k) == (IF k = 1 THEN <<>> ELSE <<SEMI, SP>>) \o kept[k].name \o <<EQ>> \o kept[k].value
             seqs == [k \in DOMAIN kept |-> Part(k)]
  <1>2. DOMAIN kept = 1 .. 2 /\ kept[1] = c /\ kept[2] = Other
    OBVIOUS
  <1>3. seqs[1] = <<>> \o n \o <<EQ>> \o c.value
    <2>1. Part(1) = <<>> \o n \o <<EQ>> \o c.value
      BY <1>1, <1>2
    <2>2. 1 \in DOMAIN kept
      BY <1>2
    <2> HIDE DEF Part, kept
    <2> QED
      BY <2>1, <2>2
  <1>4. seqs[2] = MoreText
    <2>1. Part(2) = MoreText
      <3>1. kept[2] = Other /\ 2 # 1
        BY <1>2
      <3> HIDE DEF kept
      <3> QED
        BY <3>1 DEF MoreText
    <2>2. 2 \in DOMAIN kept
      BY <1>2
    <2> HIDE DEF Part, kept
    <2> QED
      BY <2>1, <2>2
  <1>5. <<>> \o n = n
    BY <1>1, ConcatEmptySeq
  <1>6. DOMAIN seqs = 1 .. 2
    BY <1>2
  <1>7. CookieHeader(<<c, Other>>) = FlattenSeq(seqs)
    BY DEF CookieHeader
  <1> HIDE DEF seqs
  <1>8. Len(seqs) = 2
    BY <1>6, LenOfDomain
  <1> QED
    BY <1>1, <1>3, <1>4, <1>5, <1>7, <1>8, FlattenTwo DEF Line

----------------------------------------------------------------------------
(* What guava makes of that header. *)

\* The parser takes a sendable cookie at the beginning of a header, unless its
\* '=' ends the header.
LEMMA SpelledField ==
    ASSUME NEW c, Sendable(c), NEW h, Spells(h, c), NEW m, m = Size(c),
           NEW end, (end = 0 /\ Len(h) = m /\ c.value # <<>>) \/ (end = m + 1 /\ m < Len(h) /\ h[m + 1] = SEMI)
    PROVE  /\ FieldAt(h, SEMI, 1, 1, Len(c.name) + 1, end)
           /\ FieldPair(h, 1, Len(c.name) + 1, end) = c
  <1>1. PICK n, v : n = c.name /\ v = c.value /\ c = [name |-> n, value |-> v]
    BY DEF Sendable, NameValue
  <1>2. /\ n \in Seq(Int) /\ v \in Seq(Int) /\ n # <<>> /\ Trimmed(n)
        /\ \A k \in 1 .. Len(n) : n[k] # EQ
        /\ \A k \in 1 .. Len(v) : v[k] # SEMI
    BY <1>1 DEF Sendable, NameValue
  <1>3. /\ h \in Seq(Int)
        /\ \A k \in 1 .. Len(n) : h[k] = n[k]
        /\ h[Len(n) + 1] = EQ
        /\ \A k \in 1 .. Len(v) : h[Len(n) + 1 + k] = v[k]
    BY <1>1 DEF Spells
  <1>4. PICK a \in Nat, b \in Nat : a = Len(n) /\ b = Len(v)
    BY <1>2
  <1>5. m = a + 1 + b
    BY <1>1, <1>4 DEF Size
  <1>6. a >= 1 /\ (v # <<>> => b >= 1) /\ Len(h) \in Nat
    BY <1>2, <1>3, <1>4
  <1>7. (end = 0 /\ Len(h) = m /\ b >= 1) \/ (end = m + 1 /\ m < Len(h) /\ h[m + 1] = SEMI)
    BY <1>1, <1>6
  <1>8. a + 1 + b <= Len(h) /\ a + 1 < Len(h)
    BY <1>5, <1>6, <1>7
  <1>9. FieldAt(h, SEMI, 1, 1, a + 1, end)
    <2>1. 1 \in 1 .. Len(h) /\ h[1] \notin Spaces /\ \A k \in 1 .. (1 - 1) : h[k] \in Spaces
      <3>1. 1 \in 1 .. Len(n) /\ 1 \in 1 .. Len(h)
        BY <1>4, <1>6, <1>8
      <3>2. h[1] = n[1]
        BY <1>3, <3>1
      <3>3. n[1] \notin Spaces
        BY <1>2 DEF Trimmed
      <3>4. \A k \in 1 .. (1 - 1) : FALSE
        OBVIOUS
      <3> QED
        BY <3>1, <3>2, <3>3, <3>4
    <2>2. a + 1 \in 1 .. (Len(h) - 1) /\ h[a + 1] = EQ /\ \A k \in 1 .. ((a + 1) - 1) : h[k] # EQ
      <3>1. a + 1 \in 1 .. (Len(h) - 1) /\ (a + 1) - 1 = a
        BY <1>6, <1>8
      <3>2. \A k \in 1 .. a : h[k] # EQ
        BY <1>2, <1>3, <1>4
      <3>3. h[a + 1] = EQ
        BY <1>3, <1>4
      <3> QED
        BY <3>1, <3>2, <3>3
    <2>3. ASSUME NEW k \in ((a + 1) + 1) .. m PROVE h[k] # SEMI
      <3>1. k - (a + 1) \in 1 .. b /\ a + 1 + (k - (a + 1)) = k
        BY <1>5, <2>3
      <3>2. PICK j \in 1 .. b : a + 1 + j = k
        BY <3>1
      <3> QED
        BY <1>2, <1>3, <1>4, <3>2
    <2>4. \/ end = 0 /\ \A k \in ((a + 1) + 1) .. Len(h) : h[k] # SEMI
          \/ end \in ((a + 1) + 1) .. Len(h) /\ h[end] = SEMI /\ \A k \in ((a + 1) + 1) .. (end - 1) : h[k] # SEMI
      <3>1. CASE end = 0 /\ Len(h) = m
        BY <2>3, <3>1
      <3>2. CASE end = m + 1 /\ m < Len(h) /\ h[m + 1] = SEMI
        <4>1. end \in ((a + 1) + 1) .. Len(h) /\ end - 1 = m
          BY <1>5, <1>6, <3>2
        <4> QED
          BY <2>3, <3>2, <4>1
      <3> QED
        BY <1>7, <3>1, <3>2
    <2> QED
      BY <2>1, <2>2, <2>4 DEF FieldAt
  <1>10. FieldPair(h, 1, a + 1, end) = c
    <2>1. (IF end = 0 THEN Len(h) ELSE end - 1) = m
      BY <1>5, <1>7
    <2>2. FieldPair(h, 1, a + 1, end) = [name |-> SubSeq(h, 1, (a + 1) - 1), value |-> SubSeq(h, (a + 1) + 1, m)]
      BY <2>1 DEF FieldPair, Pair
    <2>3. PICK x, y : x = SubSeq(h, 1, (a + 1) - 1) /\ y = SubSeq(h, (a + 1) + 1, m)
      OBVIOUS
    <2>4. x = n
      <3>1. (a + 1) - 1 = a /\ a <= Len(h)
        BY <1>8
      <3>2. x \in Seq(Int) /\ Len(x) = a /\ \A k \in 1 .. a : x[k] = h[k]
        BY <1>3, <2>3, <3>1, PrefixIs
      <3>3. \A k \in 1 .. Len(n) : x[k] = n[k]
        BY <1>3, <1>4, <3>2
      <3> QED
        BY <1>2, <1>4, <3>2, <3>3, SameText
    <2>5. y = v
      <3>1. PICK d \in Nat : d = (a + 1) + 1 /\ d \in Nat \ {0} /\ d <= m + 1 /\ m \in Nat /\ m <= Len(h)
        BY <1>5, <1>8
      <3>2. y \in Seq(Int) /\ Len(y) = (m - d) + 1 /\ \A k \in 1 .. ((m - d) + 1) : y[k] = h[(d - 1) + k]
        <4>1. h \in Seq(Int) /\ y = SubSeq(h, d, m)
          BY <1>3, <2>3, <3>1
        <4> QED
          BY <3>1, <4>1, SubSeqIs
      <3>3. (m - d) + 1 = b
        BY <1>5, <3>1
      <3>4. ASSUME NEW k \in 1 .. b PROVE y[k] = v[k]
        <4>1. (d - 1) + k = a + 1 + k
          BY <3>1
        <4>2. y[k] = h[(d - 1) + k]
          BY <3>2, <3>3
        <4>3. h[a + 1 + k] = v[k]
          BY <1>3, <1>4
        <4> QED
          BY <4>1, <4>2, <4>3
      <3>5. \A k \in 1 .. Len(v) : y[k] = v[k]
        BY <1>4, <3>4
      <3> QED
        BY <1>2, <1>4, <3>2, <3>3, <3>5, SameText
    <2> QED
      BY <1>1, <2>2, <2>3, <2>4, <2>5
  <1> QED
    BY <1>1, <1>4, <1>9, <1>10

\* A header of one cookie is parsed into it, unless it has no value.
LEMMA OneCookieParsed ==
    ASSUME NEW c, Sendable(c), NEW h, Spells(h, c), Len(h) = Size(c)
    PROVE  ParseCookies(h).pairs = IF c.value = <<>> THEN <<>> ELSE <<c>>
  <1>1. PICK from : from = PairsFrom(h, SEMI, 1, FALSE)
    OBVIOUS
  <1>2. PICK n, v : n = c.name /\ v = c.value /\ n \in Seq(Int) /\ v \in Seq(Int)
    BY DEF Sendable, NameValue
  <1>3. h \in Seq(Int) /\ Len(h) = Len(n) + 1 + Len(v)
    BY <1>2 DEF Spells, Size
  <1>4. PICK a \in Nat, b \in Nat : a = Len(n) /\ b = Len(v)
    BY <1>2
  <1>5. Len(h) = a + 1 + b /\ (v = <<>> <=> b = 0)
    BY <1>2, <1>3, <1>4
  <1>6. 1 \in Positions(h)
    BY <1>5 DEF Positions
  <1>7. ParseCookies(h).pairs = from[1].pairs
    BY <1>1 DEF ParseCookies, ParsePairs, PairsBy
  <1>8. from[Len(h) + 1] = NoPairs
    BY <1>1, <1>3, PairsAtEnd
  <1>9. CASE v # <<>>
    <2>1. PICK e : e = 0
      OBVIOUS
    <2>2. FieldAt(h, SEMI, 1, 1, a + 1, e) /\ FieldPair(h, 1, a + 1, e) = c
      BY <1>2, <1>4, <1>9, <2>1, SpelledField
    <2>3. TakesField(h, SEMI, 1, 1, a + 1, e)
      BY <1>3, <1>6, <2>2, FieldTaken
    <2>4. from[1].pairs = <<c>> \o from[AfterField(h, e)].pairs
      BY <1>1, <2>2, <2>3 DEF TakesField
    <2>5. AfterField(h, e) = Len(h) + 1
      BY <2>1 DEF AfterField
    <2>6. from[AfterField(h, e)].pairs = <<>>
      BY <1>8, <2>5 DEF NoPairs
    <2>7. <<c>> \o <<>> = <<c>>
      OBVIOUS
    <2> QED
      BY <1>2, <1>7, <1>9, <2>4, <2>6, <2>7
  <1>10. CASE v = <<>>
    <2>1. a >= 1 /\ Len(h) = a + 1 /\ (a + 1) - 1 = a
      <3>1. n # <<>>
        BY <1>2 DEF Sendable
      <3> QED
        BY <1>2, <1>4, <1>5, <1>10, <3>1
    <2>2. /\ \A k \in 1 .. a : h[k] = n[k] /\ n[k] # EQ
          /\ h[a + 1] = EQ
      BY <1>2, <1>4 DEF Spells, Sendable
    <2>3. n[1] \notin Spaces
      BY <1>2 DEF Sendable, Trimmed
    <2>4. SkipSpaces(h, 1) = 1
      <3>1. 1 \in 1 .. Len(h) /\ 1 \in 1 .. a /\ 1 \in Nat \ {0} /\ \A k \in 1 .. (1 - 1) : FALSE
        BY <2>1
      <3>2. h[1] \notin Spaces
        BY <2>2, <2>3, <3>1
      <3> QED
        BY <1>3, <3>1, <3>2, SkipSpacesIs
    <2>5. Find(h, EQ, 1) = a + 1
      <3>1. a + 1 \in 1 .. Len(h) /\ \A k \in 1 .. ((a + 1) - 1) : h[k] # EQ
        BY <2>1, <2>2
      <3> QED
        BY <1>3, <2>2, <3>1, FindIs
    <2>6. from[1] = PairsAt(h, SEMI, 1, FALSE, from, 1)
      BY <1>1, <1>3, <1>6, PairsFromSolves
    <2>7. PairsAt(h, SEMI, 1, FALSE, from, 1) = NoPairs
      <3>1. Find(h, EQ, SkipSpaces(h, 1)) = Len(h) /\ SkipSpaces(h, 1) # 0 /\ Len(h) # 0
        BY <2>1, <2>4, <2>5
      <3> QED
        BY <3>1 DEF PairsAt
    <2>8. from[1].pairs = <<>>
      <3>1. from[1] = NoPairs
        BY <2>6, <2>7
      <3>2. NoPairs.pairs = <<>>
        BY DEF NoPairs
      <3> QED
        BY <3>1, <3>2
    <2> QED
      BY <1>2, <1>7, <1>10, <2>8
  <1> QED
    BY <1>9, <1>10

LEMMA OtherIs == Other \in NameValue /\ Len(Other.name) = 1 /\ Len(Other.value) = 1 /\ Other.name[1] = 98 /\ Other.value[1] = 98
  <1>1. PICK t : t = <<98>>
    OBVIOUS
  <1>2. t \in Seq(Int) /\ Len(t) = 1 /\ t[1] = 98
    BY <1>1
  <1>3. Other.name = t /\ Other.value = t /\ Other = [name |-> t, value |-> t]
    BY <1>1 DEF Other
  <1>4. [name |-> t, value |-> t] \in [name : Seq(Int), value : Seq(Int)]
    BY <1>2
  <1> QED
    BY <1>2, <1>3, <1>4 DEF NameValue

LEMMA MoreTextIs ==
    /\ MoreText \in Seq(Int) /\ Len(MoreText) = 5
    /\ MoreText[1] = SEMI /\ MoreText[2] = SP /\ MoreText[3] = 98 /\ MoreText[4] = EQ /\ MoreText[5] = 98
  <1>1. MoreText = <<SEMI, SP>> \o <<98>> \o <<EQ>> \o <<98>>
    BY DEF MoreText, Other
  <1>2. PICK t, u, v : t = <<SEMI, SP>> /\ u = <<98>> /\ v = <<EQ>>
    OBVIOUS
  <1>3. /\ t \in Seq(Int) /\ Len(t) = 2 /\ t[1] = SEMI /\ t[2] = SP
        /\ u \in Seq(Int) /\ Len(u) = 1 /\ u[1] = 98
        /\ v \in Seq(Int) /\ Len(v) = 1 /\ v[1] = EQ
    BY <1>2 DEF SEMI, SP, EQ
  <1>4. PICK x : x = t \o u
    OBVIOUS
  <1>5. x \in Seq(Int) /\ Len(x) = 3 /\ x[1] = SEMI /\ x[2] = SP /\ x[3] = 98
    <2>1. t \in Seq(Int) /\ u \in Seq(Int)
      BY <1>3
    <2>2. /\ x \in Seq(Int) /\ Len(x) = Len(t) + Len(u)
          /\ \A k \in 1 .. Len(t) : x[k] = t[k]
          /\ \A k \in 1 .. Len(u) : x[Len(t) + k] = u[k]
      BY <1>4, <2>1, JoinedIs
    <2> QED
      BY <1>3, <2>2
  <1>6. PICK y : y = x \o v
    OBVIOUS
  <1>7. y \in Seq(Int) /\ Len(y) = 4 /\ y[1] = SEMI /\ y[2] = SP /\ y[3] = 98 /\ y[4] = EQ
    <2>1. x \in Seq(Int) /\ v \in Seq(Int)
      BY <1>3, <1>5
    <2>2. /\ y \in Seq(Int) /\ Len(y) = Len(x) + Len(v)
          /\ \A k \in 1 .. Len(x) : y[k] = x[k]
          /\ \A k \in 1 .. Len(v) : y[Len(x) + k] = v[k]
      BY <1>6, <2>1, JoinedIs
    <2> QED
      BY <1>3, <1>5, <2>2
  <1>8. PICK z : z = y \o u
    OBVIOUS
  <1>9. z \in Seq(Int) /\ Len(z) = 5 /\ z[1] = SEMI /\ z[2] = SP /\ z[3] = 98 /\ z[4] = EQ /\ z[5] = 98
    <2>1. y \in Seq(Int) /\ u \in Seq(Int)
      BY <1>3, <1>7
    <2>2. /\ z \in Seq(Int) /\ Len(z) = Len(y) + Len(u)
          /\ \A k \in 1 .. Len(y) : z[k] = y[k]
          /\ \A k \in 1 .. Len(u) : z[Len(y) + k] = u[k]
      BY <1>8, <2>1, JoinedIs
    <2> QED
      BY <1>3, <1>7, <2>2
  <1> QED
    BY <1>1, <1>2, <1>4, <1>6, <1>8, <1>9

LEMMA OneAndOne ==
    ASSUME NEW a, NEW b
    PROVE  <<a>> \o <<b>> = <<a, b>>
  <1>1. PICK T : T = {a, b}
    OBVIOUS
  <1>2. a \in T /\ b \in T
    BY <1>1
  <1>3. PICK s, t : s = <<a>> /\ t = <<b>>
    OBVIOUS
  <1>4. s \in Seq(T) /\ t \in Seq(T) /\ Len(s) = 1 /\ Len(t) = 1 /\ s[1] = a /\ t[1] = b
    BY <1>2, <1>3
  <1>5. PICK u : u = s \o t
    OBVIOUS
  <1>6. /\ u \in Seq(T) /\ Len(u) = 1 + 1
        /\ \A i \in 1 .. 1 + 1 : u[i] = IF i <= 1 THEN s[i] ELSE t[i - 1]
    BY <1>4, <1>5, ConcatProperties
  <1>7. u \in Seq(T) /\ Len(u) = 2 /\ u[1] = a /\ u[2] = b
    BY <1>4, <1>6
  <1>8. u = <<a, b>>
    BY <1>7
  <1> QED
    BY <1>3, <1>5, <1>8

\* A part of one char.
LEMMA OneChar ==
    ASSUME NEW s \in Seq(Int), NEW i \in 1 .. Len(s)
    PROVE  SubSeq(s, i, i) = <<s[i]>>
  <1>1. PICK t : t = SubSeq(s, i, i)
    OBVIOUS
  <1>2. t \in Seq(Int) /\ Len(t) = 1 /\ t[1] = s[i]
    <2>1. i \in Nat \ {0} /\ i \in Nat /\ i <= i + 1 /\ i <= Len(s) /\ (i - i) + 1 = 1 /\ (i - 1) + 1 = i
      OBVIOUS
    <2>2. t \in Seq(Int) /\ Len(t) = 1 /\ \A k \in 1 .. 1 : t[k] = s[(i - 1) + k]
      BY <1>1, <2>1, SubSeqIs
    <2> QED
      BY <2>1, <2>2
  <1>3. PICK u : u = <<s[i]>>
    OBVIOUS
  <1>4. u \in Seq(Int) /\ Len(u) = 1 /\ u[1] = s[i]
    BY <1>3
  <1>5. t = u
    <2>1. \A k \in 1 .. Len(t) : k = 1
      BY <1>2
    <2>2. \A k \in 1 .. Len(t) : u[k] = t[k]
      BY <1>2, <1>4, <2>1
    <2> QED
      BY <1>2, <1>4, <2>2, SameText
  <1> QED
    BY <1>1, <1>3, <1>5

\* The positions of its last five chars.
LEMMA FiveBehind ==
    ASSUME NEW m \in Nat, NEW l, l = m + 5
    PROVE  /\ m + 3 \in (m + 2) .. l /\ m + 4 \in (m + 3) .. (l - 1)
           /\ \A k \in (m + 2) .. ((m + 3) - 1) : k = m + 2
           /\ \A k \in (m + 3) .. ((m + 4) - 1) : k = m + 3
           /\ \A k \in ((m + 4) + 1) .. l : k = m + 5
  OBVIOUS

\* A header of two is parsed into both.
LEMMA TwoCookiesParsed ==
    ASSUME NEW c, Sendable(c), NEW h, Spells(h, c), NEW m \in Nat, m = Size(c), Len(h) = m + 5,
           h[m + 1] = SEMI, h[m + 2] = SP, h[m + 3] = 98, h[m + 4] = EQ, h[m + 5] = 98
    PROVE  ParseCookies(h).pairs = <<c, Other>>
  <1>1. PICK from : from = PairsFrom(h, SEMI, 1, FALSE)
    OBVIOUS
  <1>2. h \in Seq(Int)
    BY DEF Spells
  <1>3. ParseCookies(h).pairs = from[1].pairs
    BY <1>1 DEF ParseCookies, ParsePairs, PairsBy
  <1>4. from[Len(h) + 1] = NoPairs
    BY <1>1, <1>2, PairsAtEnd
  <1>5. PICK e : e = Len(c.name) + 1
    OBVIOUS
  <1>6. from[1].pairs = <<c>> \o from[m + 2].pairs
    <2>1. PICK end : end = m + 1
      OBVIOUS
    <2>2. m < Len(h) /\ 1 \in Positions(h)
      BY DEF Positions
    <2>3. FieldAt(h, SEMI, 1, 1, e, end) /\ FieldPair(h, 1, e, end) = c
      <3>1. \/ end = 0 /\ Len(h) = m /\ c.value # <<>>
            \/ end = m + 1 /\ m < Len(h) /\ h[m + 1] = SEMI
        BY <2>1, <2>2
      <3>2. Sendable(c) /\ Spells(h, c) /\ m = Size(c)
        OBVIOUS
      <3>3. /\ FieldAt(h, SEMI, 1, 1, Len(c.name) + 1, end)
            /\ FieldPair(h, 1, Len(c.name) + 1, end) = c
        BY ONLY <3>1, <3>2, SpelledField
      <3> QED
        BY ONLY <1>5, <3>3
    <2>4. TakesField(h, SEMI, 1, 1, e, end)
      BY <1>2, <2>2, <2>3, FieldTaken
    <2>5. AfterField(h, end) = m + 2
      BY <2>1 DEF AfterField
    <2> QED
      BY <1>1, <2>3, <2>4, <2>5 DEF TakesField
  <1>7. FieldAt(h, SEMI, m + 2, m + 3, m + 4, 0)
    <2>1. /\ m + 3 \in (m + 2) .. Len(h) /\ m + 4 \in (m + 3) .. (Len(h) - 1)
          /\ \A k \in (m + 2) .. ((m + 3) - 1) : k = m + 2
          /\ \A k \in (m + 3) .. ((m + 4) - 1) : k = m + 3
          /\ \A k \in ((m + 4) + 1) .. Len(h) : k = m + 5
      BY FiveBehind
    <2>2. h[m + 3] \notin Spaces /\ h[m + 2] \in Spaces /\ h[m + 3] # EQ /\ h[m + 5] # SEMI
      BY DEF Spaces, SP, EQ, SEMI
    <2> QED
      BY <2>1, <2>2 DEF FieldAt
  <1>8. FieldPair(h, m + 3, m + 4, 0) = Other
    <2>1. FieldPair(h, m + 3, m + 4, 0) = [name |-> SubSeq(h, m + 3, (m + 4) - 1), value |-> SubSeq(h, (m + 4) + 1, Len(h))]
      BY DEF FieldPair, Pair
    <2>2. SubSeq(h, m + 3, (m + 4) - 1) = <<98>>
      <3>1. (m + 4) - 1 = m + 3 /\ m + 3 \in 1 .. Len(h)
        OBVIOUS
      <3> QED
        BY <1>2, <3>1, OneChar
    <2>3. SubSeq(h, (m + 4) + 1, Len(h)) = <<98>>
      <3>1. (m + 4) + 1 = m + 5 /\ m + 5 \in 1 .. Len(h)
        OBVIOUS
      <3> QED
        BY <1>2, <3>1, OneChar
    <2> QED
      BY <2>1, <2>2, <2>3 DEF Other
  <1>9. from[m + 2].pairs = <<Other>>
    <2>1. m + 2 \in Positions(h)
      BY DEF Positions
    <2>2. TakesField(h, SEMI, m + 2, m + 3, m + 4, 0)
      BY <1>2, <1>7, <2>1, FieldTaken
    <2>3. AfterField(h, 0) = Len(h) + 1
      BY DEF AfterField
    <2>4. from[m + 2].pairs = <<Other>> \o from[Len(h) + 1].pairs
      BY <1>1, <1>8, <2>2, <2>3 DEF TakesField
    <2>5. from[Len(h) + 1].pairs = <<>>
      BY <1>4 DEF NoPairs
    <2>6. <<Other>> \o <<>> = <<Other>>
      OBVIOUS
    <2> QED
      BY <2>4, <2>5, <2>6
  <1>10. <<c>> \o <<Other>> = <<c, Other>>
    BY OneAndOne
  <1> QED
    BY <1>3, <1>6, <1>9, <1>10

----------------------------------------------------------------------------
(* What is found in COOKIES. *)

\* The dictionary made of no pair, of one, and of one before Other.
LEMMA PutNone ==
    \A n : n \notin DOMAIN PutAll(<<>>, <<>>)
  <1>1. DOMAIN <<>> = {}
    OBVIOUS
  <1>2. Names(<<>>) = {}
    BY <1>1 DEF Names
  <1> QED
    BY <1>1, <1>2 DEF PutAll

LEMMA PutAlone ==
    ASSUME NEW d
    PROVE  LET dict == PutAll(<<>>, <<d>>) IN
           DOMAIN dict = {d.name} /\ dict[d.name] = d.value
  <1>1. PICK p : p = <<d>>
    OBVIOUS
  <1>2. DOMAIN p = {1} /\ p[1] = d
    BY <1>1
  <1>3. Names(p) = {d.name}
    BY <1>2 DEF Names
  <1>4. {i \in DOMAIN p : p[i].name = d.name} = {1}
    BY <1>2
  <1>5. Max({1}) = 1
    <2>1. {1} \in SUBSET (1 .. 1) /\ {1} # {} /\ 1 \in Nat
      OBVIOUS
    <2> QED
      BY <2>1, GreatestNumber
  <1>6. DOMAIN <<>> = {}
    OBVIOUS
  <1>7. DOMAIN PutAll(<<>>, p) = {d.name}
    BY <1>3, <1>6 DEF PutAll
  <1>8. PutAll(<<>>, p)[d.name] = p[1].value
    BY <1>3, <1>4, <1>5, <1>6 DEF PutAll
  <1> QED
    BY <1>1, <1>2, <1>7, <1>8

LEMMA PutBesideOther ==
    ASSUME NEW d
    PROVE  LET dict == PutAll(<<>>, <<d, Other>>) IN
           /\ DOMAIN dict = {d.name, Other.name}
           /\ d.name # Other.name => dict[d.name] = d.value
  <1>1. PICK p : p = <<d, Other>>
    OBVIOUS
  <1>2. DOMAIN p = {1, 2} /\ p[1] = d /\ p[2] = Other
    BY <1>1
  <1>3. Names(p) = {d.name, Other.name}
    BY <1>2 DEF Names
  <1>4. d.name # Other.name => {i \in DOMAIN p : p[i].name = d.name} = {1}
    BY <1>2
  <1>5. Max({1}) = 1
    <2>1. {1} \in SUBSET (1 .. 1) /\ {1} # {} /\ 1 \in Nat
      OBVIOUS
    <2> QED
      BY <2>1, GreatestNumber
  <1>6. DOMAIN <<>> = {}
    OBVIOUS
  <1>7. DOMAIN PutAll(<<>>, p) = {d.name, Other.name}
    BY <1>3, <1>6 DEF PutAll
  <1>8. d.name # Other.name => PutAll(<<>>, p)[d.name] = p[1].value
    <2>1. HAVE d.name # Other.name
    <2>2. {i \in DOMAIN p : p[i].name = d.name} = {1} /\ d.name \in Names(p)
      BY <1>3, <1>4, <2>1
    <2> QED
      BY <1>5, <1>6, <2>2 DEF PutAll
  <1> QED
    BY <1>1, <1>2, <1>7, <1>8

\* A cookie of that name and value is in the COOKIES of a request whose header a
\* browser makes of kept and others.
Found(kept, others, name, value) ==
    LET cookies == PutAll(<<>>, ParseCookies(CookieHeader(kept \o others)).pairs)
    IN  kept # <<>> /\ name \in DOMAIN cookies /\ cookies[name] = value

\* A cookie that was kept is found by its own name and value only.
LEMMA FoundAlone ==
    ASSUME NEW d, Sendable(d), NEW name, NEW value
    PROVE  Found(<<d>>, <<>>, name, value) <=> d.value # <<>> /\ name = d.name /\ value = d.value
  <1>1. d \in NameValue
    BY DEF Sendable
  <1>2. <<d>> \o <<>> = <<d>> /\ <<d>> # <<>>
    OBVIOUS
  <1>3. PICK h : h = Line(d) /\ Spells(h, d) /\ Len(h) = Size(d)
    BY <1>1, SpelledOut DEF Line
  <1>4. CookieHeader(<<d>> \o <<>>) = h
    BY <1>1, <1>2, <1>3, HeaderOfOne
  <1>5. ParseCookies(h).pairs = IF d.value = <<>> THEN <<>> ELSE <<d>>
    BY <1>3, OneCookieParsed
  <1>6. CASE d.value = <<>>
    <2>1. ParseCookies(CookieHeader(<<d>> \o <<>>)).pairs = <<>>
      BY <1>4, <1>5, <1>6
    <2> QED
      BY <1>6, <2>1, PutNone DEF Found
  <1>7. CASE d.value # <<>>
    <2>1. ParseCookies(CookieHeader(<<d>> \o <<>>)).pairs = <<d>>
      BY <1>4, <1>5, <1>7
    <2>2. PICK dict : dict = PutAll(<<>>, <<d>>) /\ DOMAIN dict = {d.name} /\ dict[d.name] = d.value
      BY PutAlone
    <2>3. Found(<<d>>, <<>>, name, value) <=> name \in DOMAIN dict /\ dict[name] = value
      BY <1>2, <2>1, <2>2 DEF Found
    <2> QED
      BY <1>7, <2>2, <2>3
  <1> QED
    BY <1>6, <1>7

LEMMA LineAndMore ==
    ASSUME NEW d, Sendable(d)
    PROVE  ParseCookies(Line(d) \o MoreText).pairs = <<d, Other>>
  <1>1. d \in NameValue
    BY DEF Sendable
  <1>2. PICK n, v : n = d.name /\ v = d.value /\ n \in Seq(Int) /\ v \in Seq(Int)
    BY <1>1 DEF NameValue
  <1>3. PICK l : l = Line(d) /\ Spells(l, d) /\ Len(l) = Size(d)
    BY <1>1, SpelledOut DEF Line
  <1>4. PICK a \in Nat, b \in Nat : a = Len(n) /\ b = Len(v)
    BY <1>2
  <1>5. PICK m \in Nat : m = a + 1 + b
    OBVIOUS
  <1>6. m = Size(d) /\ m = Len(l)
    BY <1>2, <1>3, <1>4, <1>5 DEF Size
  <1>7. l \in Seq(Int)
    BY <1>3 DEF Spells
  <1>8. /\ \A k \in 1 .. a : l[k] = n[k]
        /\ l[a + 1] = EQ
        /\ \A k \in 1 .. b : l[a + 1 + k] = v[k]
    BY <1>2, <1>3, <1>4 DEF Spells
  <1>9. PICK t : t = MoreText
    OBVIOUS
  <1>10. /\ t \in Seq(Int) /\ Len(t) = 5
         /\ t[1] = SEMI /\ t[2] = SP /\ t[3] = 98 /\ t[4] = EQ /\ t[5] = 98
    BY <1>9, MoreTextIs
  <1>11. PICK h : h = l \o t
    OBVIOUS
  <1>12. /\ h \in Seq(Int) /\ Len(h) = m + 5
         /\ \A k \in 1 .. m : h[k] = l[k]
         /\ \A k \in 1 .. 5 : h[m + k] = t[k]
    <2>1. t \in Seq(Int)
      BY <1>10
    <2>2. /\ h \in Seq(Int) /\ Len(h) = Len(l) + Len(t)
          /\ \A k \in 1 .. Len(l) : h[k] = l[k]
          /\ \A k \in 1 .. Len(t) : h[Len(l) + k] = t[k]
      BY <1>7, <1>11, <2>1, JoinedIs
    <2> QED
      BY <1>6, <1>10, <2>2
  <1>13. h[m + 1] = SEMI /\ h[m + 2] = SP /\ h[m + 3] = 98 /\ h[m + 4] = EQ /\ h[m + 5] = 98
    <2>1. 1 \in 1 .. 5 /\ 2 \in 1 .. 5 /\ 3 \in 1 .. 5 /\ 4 \in 1 .. 5 /\ 5 \in 1 .. 5
      OBVIOUS
    <2> QED
      BY <1>10, <1>12, <2>1
  <1>14. Spells(h, d)
    <2>1. /\ \A k \in 1 .. a : k \in 1 .. m
          /\ a + 1 \in 1 .. m
          /\ \A k \in 1 .. b : a + 1 + k \in 1 .. m
      BY <1>5
    <2>2. /\ \A k \in 1 .. a : h[k] = n[k]
          /\ h[a + 1] = EQ
          /\ \A k \in 1 .. b : h[a + 1 + k] = v[k]
      BY <1>8, <1>12, <2>1
    <2>3. Size(d) <= Len(h)
      BY <1>6, <1>12
    <2> QED
      BY <1>2, <1>4, <1>12, <2>2, <2>3 DEF Spells
  <1>15. ParseCookies(h).pairs = <<d, Other>>
    BY <1>6, <1>12, <1>13, <1>14, TwoCookiesParsed
  <1> QED
    BY <1>3, <1>9, <1>11, <1>15

LEMMA FoundBesideOther ==
    ASSUME NEW d, Sendable(d), NEW name, name # Other.name, NEW value
    PROVE  Found(<<d>>, <<Other>>, name, value) <=> name = d.name /\ value = d.value
  <1>1. d \in NameValue
    BY DEF Sendable
  <1>2. <<d>> \o <<Other>> = <<d, Other>> /\ <<d>> # <<>>
    BY OneAndOne
  <1>3. ParseCookies(CookieHeader(<<d>> \o <<Other>>)).pairs = <<d, Other>>
    BY <1>1, <1>2, HeaderOfTwo, LineAndMore
  <1>4. PICK dict : /\ dict = PutAll(<<>>, <<d, Other>>) /\ DOMAIN dict = {d.name, Other.name}
                    /\ d.name # Other.name => dict[d.name] = d.value
    BY PutBesideOther
  <1>5. Found(<<d>>, <<Other>>, name, value) <=> name \in DOMAIN dict /\ dict[name] = value
    BY <1>2, <1>3, <1>4 DEF Found
  <1> QED
    BY <1>4, <1>5

\* A cookie is found exactly if it can be sent, and has a value if it is last.
LEMMA SetAndFound ==
    ASSUME NEW c \in NameValue, NEW path \in {{}, {<<SLASH>>}}, NEW secure \in BOOLEAN,
           NEW others \in {<<>>, <<Other>>}, c.name # Other.name \/ others = <<>>
    PROVE  Found(Kept(CookieText(NewCookie(c.name, c.value, {}, path, secure, FALSE))), others, c.name, c.value)
             <=> Sendable(c) /\ (c.value # <<>> \/ others # <<>>)
  <1>1. PICK s : s = CookieText(NewCookie(c.name, c.value, {}, path, secure, FALSE))
    OBVIOUS
  <1>2. Spells(s, c) /\ EndsOrGoesOn(s, Size(c))
    BY <1>1, CookieTextIs
  <1>3. PICK kept : kept = Kept(s)
    OBVIOUS
  <1>4. s \in Seq(Int)
    BY <1>2 DEF Spells
  <1>5. Sendable(c) => kept = <<c>>
    BY <1>2, <1>3, KeptAsSet
  <1>6. kept # <<>> => \E d : kept = <<d>> /\ Sendable(d)
    BY <1>3, <1>4, KeptSendable
  <1>7. ASSUME NEW d, Sendable(d), kept = <<d>>
        PROVE  Found(kept, others, c.name, c.value)
                 <=> c.name = d.name /\ c.value = d.value /\ (d.value # <<>> \/ others # <<>>)
    <2>1. CASE others = <<>>
      BY <1>7, <2>1, FoundAlone
    <2>2. CASE others = <<Other>> /\ c.name # Other.name
      <3>1. others # <<>>
        BY <2>2
      <3> QED
        BY <1>7, <2>2, <3>1, FoundBesideOther
    <2> QED
      BY <2>1, <2>2
  <1>8. ASSUME Found(kept, others, c.name, c.value)
        PROVE  Sendable(c) /\ (c.value # <<>> \/ others # <<>>)
    <2>1. kept # <<>>
      BY <1>8 DEF Found
    <2>2. PICK d : kept = <<d>> /\ Sendable(d)
      BY <1>6, <2>1
    <2>3. c.name = d.name /\ c.value = d.value /\ (d.value # <<>> \/ others # <<>>)
      BY <1>7, <1>8, <2>2
    <2>4. c = d
      <3>1. c \in [name : Seq(Int), value : Seq(Int)] /\ d \in [name : Seq(Int), value : Seq(Int)]
        BY <2>2 DEF Sendable, NameValue
      <3>2. c = [name |-> c.name, value |-> c.value] /\ d = [name |-> d.name, value |-> d.value]
        BY <3>1
      <3> QED
        BY <2>3, <3>2
    <2> QED
      BY <2>2, <2>3, <2>4
  <1>9. ASSUME Sendable(c), c.value # <<>> \/ others # <<>>
        PROVE  Found(kept, others, c.name, c.value)
    <2>1. kept = <<c>>
      BY <1>5, <1>9
    <2> QED
      BY <1>7, <1>9, <2>1
  <1> QED
    BY <1>1, <1>3, <1>8, <1>9

\* What CookieComesBack asks of name and value makes a cookie sendable.
LEMMA PlainIsTrimmed ==
    ASSUME NEW s \in Seq(Int)
    PROVE  Plain(s) <=> Trimmed(s) /\ \A k \in 1 .. Len(s) : s[k] # SEMI
  <1>1. s # <<>> => ({s[1], Last(s)} \cap Spaces = {} <=> s[1] \notin Spaces /\ s[Len(s)] \notin Spaces)
    BY DEF Last
  <1> QED
    BY <1>1 DEF Plain, Trimmed, Contains

LEMMA SendableIs ==
    ASSUME NEW c \in NameValue
    PROVE  Sendable(c) <=> Plain(c.name) /\ c.name # <<>> /\ ~ Contains(c.name, EQ) /\ Plain(c.value)
  <1>1. PICK n, v : n = c.name /\ v = c.value /\ n \in Seq(Int) /\ v \in Seq(Int)
    BY DEF NameValue
  <1>2. Plain(n) <=> Trimmed(n) /\ \A k \in 1 .. Len(n) : n[k] # SEMI
    BY <1>1, PlainIsTrimmed
  <1>3. Plain(v) <=> Trimmed(v) /\ \A k \in 1 .. Len(v) : v[k] # SEMI
    BY <1>1, PlainIsTrimmed
  <1>4. Contains(n, EQ) <=> \E k \in 1 .. Len(n) : n[k] = EQ
    BY DEF Contains
  <1> QED
    BY <1>1, <1>2, <1>3, <1>4 DEF Sendable

\* For cookies and request headers of every length: CookieComesBack.
LEMMA CookieOfText ==
    ASSUME text \in Seq(Int)
    PROVE  CookieComesBack
  <1>1. ASSUME NEW i \in DOMAIN text, NEW path \in {{}, {<<SLASH>>}}, NEW secure \in BOOLEAN,
               NEW others \in {<<>>, <<Other>>}, text[i] = EQ
        PROVE  LET name == SubSeq(text, 1, i - 1)
                   value == SubSeq(text, i + 1, Len(text))
               IN  (name # Other.name \/ others = <<>>) =>
                   (Found(Kept(CookieText(NewCookie(name, value, {}, path, secure, FALSE))), others, name, value)
                      <=> /\ Plain(name) /\ name # <<>> /\ ~ Contains(name, EQ)
                          /\ Plain(value) /\ (value # <<>> \/ others # <<>>))
    <2>1. PICK name, value : name = SubSeq(text, 1, i - 1) /\ value = SubSeq(text, i + 1, Len(text))
      OBVIOUS
    <2>2. PICK c : c = [name |-> name, value |-> value]
      OBVIOUS
    <2>3. c \in NameValue /\ c.name = name /\ c.value = value
      <3>1. i \in 1 .. Len(text)
        OBVIOUS
      <3> QED
        BY <1>1, <2>1, <2>2, <3>1, SplitSpells
    <2>4. ASSUME name # Other.name \/ others = <<>>
          PROVE  Found(Kept(CookieText(NewCookie(name, value, {}, path, secure, FALSE))), others, name, value)
                   <=> /\ Plain(name) /\ name # <<>> /\ ~ Contains(name, EQ)
                       /\ Plain(value) /\ (value # <<>> \/ others # <<>>)
      BY <2>3, <2>4, SetAndFound, SendableIs
    <2> QED
      BY <2>1, <2>4
  <1> QED
    BY <1>1 DEF CookieComesBack, Found

\* A cookie that Controller.set_cookie sets, with a name and a value of any chars
\* and length, is found in the COOKIES of the request that a browser sends it
\* back with, alone or before a cookie of another name, exactly if both are
\* plain, the name has no '=' and an empty value is not the last in the header.
THEOREM CookiesComeBack == Spec => []CookieComesBack
  BY CookieOfText, TextsAreTexts, PTL

----------------------------------------------------------------------------
(* Escapes. *)

\* For texts of every length: DecodeInvertsEncode.
LEMMA DecodeOfText ==
    ASSUME text \in Seq(Int)
    PROVE  DecodeInvertsEncode
  <1>1. SUFFICES ASSUME text \in Seq(1 .. 127)
                 PROVE  UrlDecode(UrlEncode(text)) = text
    BY DEF DecodeInvertsEncode
  <1>2. \A k \in 1 .. Len(text) : text[k] \in 1 .. 127
    BY <1>1, ElementOfSeq
  <1> QED
    BY <1>2, DecodeEncoded

\* guava_url_decode undoes guava_url_encode for every C string of 7-bit chars
\* of every length, spaces, percent signs and pluses included.
THEOREM DecodesInvertEncode == Spec => []DecodeInvertsEncode
  BY DecodeOfText, TextsAreTexts, PTL

----------------------------------------------------------------------------
(* The best match. *)

LEMMA MountPointIs ==
    ASSUME NEW m \in Seq(Int), m # <<>>, ~ Contains(m, QM)
    PROVE  /\ MountPoint(m) \in Seq(Int) /\ MountPoint(m) # <<>> /\ Last(MountPoint(m)) = SLASH
           /\ ~ Contains(MountPoint(m), QM)
  <1>1. Len(m) \in Nat \ {0} /\ SLASH \in Int /\ SLASH # QM
    <2>1. Len(m) \in Nat /\ Len(m) # 0
      OBVIOUS
    <2> QED
      BY <2>1 DEF SLASH, QM
  <1>2. CASE Last(m) = SLASH
    BY <1>2 DEF MountPoint
  <1>3. CASE Last(m) # SLASH
    <2>1. PICK a : a = Append(m, SLASH)
      OBVIOUS
    <2>2. /\ a \in Seq(Int) /\ Len(a) = Len(m) + 1 /\ a[Len(m) + 1] = SLASH
          /\ \A k \in 1 .. Len(m) : a[k] = m[k]
      BY <1>1, <2>1
    <2>3. ~ Contains(a, QM)
      <3>1. \A k \in 1 .. Len(m) : m[k] # QM
        BY DEF Contains
      <3>2. SUFFICES ASSUME NEW k \in 1 .. (Len(m) + 1) PROVE a[k] # QM
        BY <1>1, <2>2 DEF Contains
      <3>3. k \in 1 .. Len(m) \/ k = Len(m) + 1
        BY <1>1
      <3> QED
        BY <1>1, <2>2, <3>1, <3>3
    <2>4. MountPoint(m) = a
      BY <1>3, <2>1 DEF MountPoint
    <2>5. a # <<>> /\ Last(a) = SLASH
      BY <1>1, <2>2 DEF Last
    <2> QED
      BY <2>2, <2>3, <2>4, <2>5
  <1> QED
    BY <1>2, <1>3

\* What there is to know of the routers of a list.
LEMMA ListedRouters ==
    ASSUME NEW r \in {AsRouter(m) : m \in MountPoints} \cup {Custom}, r.type # "custom"
    PROVE  r.mount \in Seq(Int) /\ r.mount # <<>> /\ Last(r.mount) = SLASH /\ ~ Contains(r.mount, QM)
  <1>1. PICK m \in MountPoints : r = AsRouter(m)
    BY DEF Custom, Router
  <1>2. r.mount = MountPoint(m)
    BY <1>1 DEF AsRouter, MVCRouter, Builtin
  <1>3. m \in Seq(Int) /\ m # <<>> /\ ~ Contains(m, QM)
    BY RoutingAssumption
  <1> QED
    BY <1>2, <1>3, MountPointIs

\* In every list of routers and for every URL that fits into the buffer the best
\* match is the longest mount point that the URL starts with.
THEOREM LongestMounts == Spec => []LongestMount
  <1>1. text \in Seq(Int) => LongestMount
    <2> SUFFICES ASSUME text \in Seq(Int), NEW list \in Lists
                 PROVE  LET best == BestRouter(list, text)
                        IN  /\ best = 0 <=> Prefixing(list) = {}
                            /\ best # 0 =>
                                /\ best \in Prefixing(list) /\ StrStr(Path(text), list[best].mount) = 1
                                /\ \A j \in Prefixing(list) :
                                      \/ Len(list[j].mount) < Len(list[best].mount)
                                      \/ list[j].mount = list[best].mount /\ best <= j
      BY DEF LongestMount
    <2>1. PICK R : R = {AsRouter(m) : m \in MountPoints} \cup {Custom}
      OBVIOUS
    <2>2. list \in Seq(R)
      BY <2>1, RoutingAssumption
    <2>3. \A r \in R : r.type # "custom" =>
              r.mount \in Seq(Int) /\ r.mount # <<>> /\ Last(r.mount) = SLASH /\ ~ Contains(r.mount, QM)
      BY <2>1, ListedRouters
    <2>4. PICK best, prefixing : /\ best = BestRouter(list, text)
                                 /\ prefixing = {j \in DOMAIN list : list[j].type # "custom" /\ IsPrefix(list[j].mount, text)}
      OBVIOUS
    <2>5. /\ best = 0 <=> prefixing = {}
          /\ best # 0 => /\ best \in prefixing
                         /\ ~ Contains(list[best].mount, QM) => StrStr(Path(text), list[best].mount) = 1
                         /\ \A j \in prefixing :
                               \/ Len(list[j].mount) < Len(list[best].mount)
                               \/ list[j].mount = list[best].mount /\ best <= j
      <3>1. LongestOf(list, text, BestRouter(list, text))
        BY <2>2, <2>3, LongestMatch
      <3> QED
        BY <2>4, <3>1 DEF LongestOf
    <2>6. best # 0 => ~ Contains(list[best].mount, QM)
      <3>1. best # 0 => list[best] \in R /\ list[best].type # "custom"
        BY <2>2, <2>4, <2>5
      <3> QED
        BY <2>3, <3>1
    <2>7. Prefixing(list) = prefixing
      BY <2>4 DEF Prefixing
    <2> QED
      BY <2>4, <2>5, <2>6, <2>7
  <1> QED
    BY <1>1, TextsAreTexts, PTL
----------------------------------------------------------------------------
(* The segments of a path. *)

LEMMA SkipSlashesFinds ==
    ASSUME NEW s \in Seq(Int), NEW i \in Nat \ {0}
    PROVE  LET j == SkipSlashes(s, i) IN
           \/ j = 0 /\ \A k \in i .. Len(s) : s[k] = SLASH
           \/ j \in i .. Len(s) /\ s[j] # SLASH /\ \A k \in i .. (j - 1) : s[k] = SLASH
  <1> DEFINE S == {k \in i .. Len(s) : s[k] # SLASH}
  <1>1. S \in SUBSET Nat
    OBVIOUS
  <1>2. SkipSlashes(s, i) = IF S # {} THEN Min(S) ELSE 0
    BY DEF SkipSlashes, SelectInSubSeq
  <1>3. CASE S = {}
    BY <1>2, <1>3
  <1>4. CASE S # {}
    <2>1. Min(S) \in S /\ \A m \in S : Min(S) <= m
      BY <1>1, <1>4, LeastNumber
    <2>2. PICK j : j = SkipSlashes(s, i) /\ j \in S /\ \A m \in S : j <= m
      BY <1>2, <1>4, <2>1
    <2>3. ASSUME NEW k \in i .. (j - 1) PROVE s[k] = SLASH
      <3>1. k \in i .. Len(s) /\ ~ (j <= k)
        BY <2>2
      <3>2. k \notin S
        BY <2>2, <3>1
      <3> QED
        BY <3>1, <3>2
    <2> QED
      BY <2>2, <2>3
  <1> QED
    BY <1>3, <1>4

LEMMA SkipSlashesIs ==
    ASSUME NEW s \in Seq(Int), NEW i \in Nat \ {0}, NEW j \in i .. Len(s),
           s[j] # SLASH, \A k \in i .. (j - 1) : s[k] = SLASH
    PROVE  SkipSlashes(s, i) = j
  <1>1. PICK f : f = SkipSlashes(s, i)
    OBVIOUS
  <1>2. \/ f = 0 /\ \A k \in i .. Len(s) : s[k] = SLASH
        \/ f \in i .. Len(s) /\ s[f] # SLASH /\ \A k \in i .. (f - 1) : s[k] = SLASH
    BY <1>1, SkipSlashesFinds
  <1>3. f \in i .. Len(s) /\ s[f] # SLASH /\ \A k \in i .. (f - 1) : s[k] = SLASH
    BY <1>2
  <1>4. ~ (f < j) /\ ~ (j < f)
    BY <1>3
  <1> QED
    BY <1>1, <1>3, <1>4

\* The segments from i on: none, one that goes on to the end, or one that ends
\* at end and those behind it.
NoSegment(s, i, segments) == segments = <<>> /\ SkipSlashes(s, i) = 0
LastSegment(s, i, segments) ==
    LET first == SkipSlashes(s, i) IN
    /\ first \in i .. Len(s) /\ Find(s, SLASH, first) = 0
    /\ segments = <<SubSeq(s, first, Len(s))>> /\ SubSeq(s, first, Len(s)) \in Seq(Int)
SomeSegment(s, i, rest, segments) ==
    LET first == SkipSlashes(s, i)
        end == Find(s, SLASH, first)
    IN  /\ first \in i .. Len(s) /\ end \in (first + 1) .. Len(s)
        /\ segments = <<SubSeq(s, first, end - 1)>> \o rest[end + 1] /\ SubSeq(s, first, end - 1) \in Seq(Int)

LEMMA SegmentsSteps ==
    ASSUME NEW s \in Seq(Int), NEW i \in Positions(s), NEW rest
    PROVE  LET segments == SegmentsAt(s, rest, i) IN
           NoSegment(s, i, segments) \/ LastSegment(s, i, segments) \/ SomeSegment(s, i, rest, segments)
  <1>1. i \in Nat \ {0} /\ Len(s) \in Nat
    BY DEF Positions
  <1>2. PICK first : first = SkipSlashes(s, i)
    OBVIOUS
  <1>3. first = 0 \/ (first \in i .. Len(s) /\ s[first] # SLASH)
    BY <1>1, <1>2, SkipSlashesFinds
  <1>4. CASE first = 0
    BY <1>2, <1>4 DEF SegmentsAt, NoSegment
  <1>5. CASE first # 0
    <2>1. first \in Nat \ {0} /\ first \in i .. Len(s) /\ s[first] # SLASH
      BY <1>1, <1>3, <1>5
    <2>2. PICK end : end = Find(s, SLASH, first)
      OBVIOUS
    <2>3. end = 0 \/ (end \in first .. Len(s) /\ s[end] = SLASH)
      BY <2>1, <2>2, FindFinds
    <2>4. CASE end = 0
      <3>1. SubSeq(s, first, Len(s)) \in Seq(Int)
        BY <1>1, <2>1
      <3>2. SegmentsAt(s, rest, i) = <<SubSeq(s, first, Len(s))>>
        BY <1>2, <1>5, <2>2, <2>4 DEF SegmentsAt
      <3> QED
        BY <1>2, <2>1, <2>2, <2>4, <3>1, <3>2 DEF LastSegment
    <2>5. CASE end # 0
      <3>1. end \in (first + 1) .. Len(s)
        <4>1. end # first
          BY <2>1, <2>3, <2>5
        <4> QED
          BY <1>1, <2>1, <2>3, <2>5, <4>1
      <3>2. SubSeq(s, first, end - 1) \in Seq(Int)
        BY <1>1, <2>1, <3>1
      <3>3. SegmentsAt(s, rest, i) = <<SubSeq(s, first, end - 1)>> \o rest[end + 1]
        BY <1>2, <1>5, <2>2, <2>5 DEF SegmentsAt
      <3> QED
        BY <1>2, <2>1, <2>2, <3>1, <3>2, <3>3 DEF SomeSegment
    <2> QED
      BY <2>4, <2>5
  <1> QED
    BY <1>4, <1>5

LEMMA SegmentsAtTyped ==
    ASSUME NEW s \in Seq(Int), NEW i \in Positions(s), NEW rest \in [Positions(s) -> Seq(Seq(Int))]
    PROVE  SegmentsAt(s, rest, i) \in Seq(Seq(Int))
  <1>1. PICK segments : segments = SegmentsAt(s, rest, i)
    OBVIOUS
  <1>2. i \in Nat \ {0} /\ Len(s) \in Nat
    BY DEF Positions
  <1>3. NoSegment(s, i, segments) \/ LastSegment(s, i, segments) \/ SomeSegment(s, i, rest, segments)
    BY <1>1, SegmentsSteps
  <1>4. CASE NoSegment(s, i, segments)
    <2>1. <<>> \in Seq(Seq(Int))
      OBVIOUS
    <2> QED
      BY <1>1, <1>4, <2>1 DEF NoSegment
  <1>5. CASE LastSegment(s, i, segments)
    <2>1. PICK x \in Seq(Int) : segments = <<x>>
      BY <1>5 DEF LastSegment
    <2>2. <<x>> \in Seq(Seq(Int))
      OBVIOUS
    <2> QED
      BY <1>1, <2>1, <2>2
  <1>6. CASE SomeSegment(s, i, rest, segments)
    <2>1. PICK first, end : /\ first \in i .. Len(s) /\ end \in (first + 1) .. Len(s)
                            /\ segments = <<SubSeq(s, first, end - 1)>> \o rest[end + 1]
                            /\ SubSeq(s, first, end - 1) \in Seq(Int)
      BY <1>6 DEF SomeSegment
    <2>2. end + 1 \in Positions(s)
      BY <1>2, <2>1 DEF Positions
    <2>3. PICK r \in Seq(Seq(Int)) : r = rest[end + 1]
      BY <2>2
    <2>4. PICK x \in Seq(Int) : x = SubSeq(s, first, end - 1)
      BY <2>1
    <2>5. <<x>> \o r \in Seq(Seq(Int))
      OBVIOUS
    <2> QED
      BY <1>1, <2>1, <2>3, <2>4, <2>5
  <1> QED
    BY <1>3, <1>4, <1>5, <1>6

LEMMA SegmentsAtLocal ==
    ASSUME NEW s \in Seq(Int), NEW i \in Positions(s), NEW f, NEW g,
           \A j \in (i + 1) .. (Len(s) + 1) : f[j] = g[j]
    PROVE  SegmentsAt(s, f, i) = SegmentsAt(s, g, i)
  <1>1. PICK first, end : first = SkipSlashes(s, i) /\ end = Find(s, SLASH, first)
    OBVIOUS
  <1>2. i \in Nat \ {0} /\ Len(s) \in Nat
    BY DEF Positions
  <1>3. first # 0 /\ end # 0 => end + 1 \in (i + 1) .. (Len(s) + 1)
    <2> SUFFICES ASSUME first # 0, end # 0 PROVE end + 1 \in (i + 1) .. (Len(s) + 1)
      OBVIOUS
    <2>1. first \in i .. Len(s) /\ first \in Nat \ {0}
      <3>1. first = 0 \/ first \in i .. Len(s)
        BY <1>1, <1>2, SkipSlashesFinds
      <3> QED
        BY <1>2, <3>1
    <2>2. end = 0 \/ end \in first .. Len(s)
      BY <1>1, <2>1, FindFinds
    <2> QED
      BY <1>2, <2>1, <2>2
  <1>4. first # 0 /\ end # 0 => f[end + 1] = g[end + 1]
    BY <1>3
  <1> QED
    BY <1>1, <1>4 DEF SegmentsAt

\* The definition of the segments has the solution it is meant to have.
LEMMA SegmentsFromSolves ==
    ASSUME NEW s \in Seq(Int)
    PROVE  LET from == SegmentsFrom(s) IN
           /\ from \in [Positions(s) -> Seq(Seq(Int))]
           /\ \A i \in Positions(s) : from[i] = SegmentsAt(s, from, i)
  <1> DEFINE n == Len(s) + 1
             T == Seq(Seq(Int))
             step == [i \in 1 .. n |-> [f \in [1 .. n -> T] |-> SegmentsAt(s, f, i)]]
             Solves(g) == g = [i \in 1 .. n |-> SegmentsAt(s, g, i)]
  <1>1. n \in Nat /\ Positions(s) = 1 .. n
    BY DEF Positions
  <1>2. <<>> \in T
    OBVIOUS
  <1>3. step \in [1 .. n -> [[1 .. n -> T] -> T]]
    BY <1>1, SegmentsAtTyped
  <1>4. \A i \in 1 .. n : \A f, g \in [1 .. n -> T] :
            (\A j \in (i + 1) .. n : f[j] = g[j]) => step[i][f] = step[i][g]
    <2> TAKE i \in 1 .. n
    <2> TAKE f, g \in [1 .. n -> T]
    <2> HAVE \A j \in (i + 1) .. n : f[j] = g[j]
    <2>1. SegmentsAt(s, f, i) = SegmentsAt(s, g, i)
      BY <1>1, SegmentsAtLocal
    <2>2. step[i][f] = SegmentsAt(s, f, i) /\ step[i][g] = SegmentsAt(s, g, i)
      OBVIOUS
    <2> QED
      BY <2>1, <2>2
  <1>5. \E f \in [1 .. n -> T] : \A i \in 1 .. n : f[i] = step[i][f]
    <2>1. IsRecursion(step, n, T)
      BY <1>3, <1>4 DEF IsRecursion
    <2>2. n \in Nat
      BY <1>1
    <2> HIDE DEF step, n, T
    <2>3. HasSolution(step, n, T)
      BY <1>2, <2>1, <2>2, DownwardRecursion
    <2> QED
      BY <2>3 DEF HasSolution
  <1>6. PICK f \in [1 .. n -> T] : \A i \in 1 .. n : f[i] = SegmentsAt(s, f, i)
    BY <1>5
  <1>7. Solves(f)
    BY <1>6
  <1>8. SegmentsFrom(s) = CHOOSE g : Solves(g)
    BY DEF SegmentsFrom
  <1>9. Solves(CHOOSE g : Solves(g))
    <2> HIDE DEF Solves
    <2> QED
      BY <1>7
  <1>10. PICK from : from = SegmentsFrom(s) /\ from = [i \in 1 .. n |-> SegmentsAt(s, from, i)]
    BY <1>8, <1>9
  <1> DEFINE K == {i \in 1 .. n : from[i] = f[i]}
  <1>11. \A i \in 1 .. n : (\A j \in (i + 1) .. n : j \in K) => i \in K
    <2> TAKE i \in 1 .. n
    <2> HAVE \A j \in (i + 1) .. n : j \in K
    <2>1. SegmentsAt(s, from, i) = SegmentsAt(s, f, i)
      BY <1>1, SegmentsAtLocal
    <2> QED
      BY <1>6, <1>10, <2>1
  <1>12. K = 1 .. n
    <2>1. K \in SUBSET (1 .. n)
      OBVIOUS
    <2> HIDE DEF K, n
    <2> QED
      BY <1>1, <1>11, <2>1, DownwardInduction
  <1>13. from = f
    BY <1>10, <1>12
  <1> QED
    BY <1>1, <1>6, <1>10, <1>13
----------------------------------------------------------------------------
(* The handlers of the MVC router. *)

FieldsAt(s, C) == [j \in C |-> Field(s, SLASH, j)]

\* From i on the segments are the pieces that are not empty, in their order.
SegmentsRight(s, i) ==
    InOrder(SegmentsFrom(s)[i], FieldsAt(s, PieceStarts(s) \cap StartsFrom(s, SLASH, i)))

LEMMA SegmentsRightFrom ==
    ASSUME NEW s \in Seq(Int), NEW i \in Starts(s, SLASH),
           \A j \in Starts(s, SLASH) : i < j => SegmentsRight(s, j)
    PROVE  SegmentsRight(s, i)
  <1>1. i \in Positions(s) /\ i \in Nat \ {0} /\ Len(s) \in Nat /\ i <= Len(s) + 1
    <2>1. i \in Positions(s)
      BY NextStarts
    <2> QED
      BY <2>1 DEF Positions
  <1>2. PICK from \in [Positions(s) -> Seq(Seq(Int))] :
            from = SegmentsFrom(s) /\ \A k \in Positions(s) : from[k] = SegmentsAt(s, from, k)
    BY SegmentsFromSolves
  <1>3. PICK end : end = Find(s, SLASH, i)
    OBVIOUS
  <1>4. \/ end = 0 /\ \A k \in i .. Len(s) : s[k] # SLASH
        \/ end \in i .. Len(s) /\ s[end] = SLASH /\ \A k \in i .. (end - 1) : s[k] # SLASH
    BY <1>1, <1>3, FindFinds
  <1>5. PICK here : here = PieceStarts(s) \cap StartsFrom(s, SLASH, i)
    OBVIOUS
  <1>6. PICK field : field = Field(s, SLASH, i)
    OBVIOUS
  <1>7. field = SubSeq(s, i, IF end = 0 THEN Len(s) ELSE end - 1)
    BY <1>3, <1>6 DEF Field
  <1>8. i \in PieceStarts(s) <=> field # <<>>
    BY <1>6 DEF PieceStarts
  <1>9. PieceStarts(s) \subseteq Starts(s, SLASH) /\ Starts(s, SLASH) \subseteq Nat
    BY StartsFinite DEF PieceStarts
  <1>10. /\ end = 0 => StartsFrom(s, SLASH, i) = {i}
         /\ end # 0 => /\ end + 1 \in Starts(s, SLASH)
                       /\ StartsFrom(s, SLASH, i) = {i} \cup StartsFrom(s, SLASH, end + 1)
    <2>1. /\ Find(s, SLASH, i) = 0 => StartsFrom(s, SLASH, i) = {i}
          /\ Find(s, SLASH, i) # 0 =>
                /\ Find(s, SLASH, i) + 1 \in Starts(s, SLASH)
                /\ StartsFrom(s, SLASH, i) = {i} \cup StartsFrom(s, SLASH, Find(s, SLASH, i) + 1)
      BY NextStarts
    <2> QED
      BY <1>3, <2>1
  \* Nothing is left.
  <1>11. CASE i = Len(s) + 1
    <2>1. SkipSlashes(s, i) = 0
      BY <1>1, <1>11, SkipSlashesFinds
    <2>2. from[i] = <<>>
      BY <1>1, <1>2, <2>1 DEF SegmentsAt
    <2>3. end = 0
      BY <1>1, <1>4, <1>11
    <2>4. field = <<>>
      BY <1>1, <1>7, <1>11, <2>3, SubSeqEmpty
    <2>5. here = {}
      <3>1. StartsFrom(s, SLASH, i) = {i}
        BY <1>10, <2>3
      <3> QED
        BY <1>5, <1>8, <2>4, <3>1
    <2>6. InOrder(<<>>, FieldsAt(s, {}))
      BY NoneInOrderAt DEF FieldsAt
    <2> QED
      BY <1>2, <1>5, <2>2, <2>5, <2>6 DEF SegmentsRight
  \* An empty piece.
  <1>12. CASE i \in 1 .. Len(s) /\ s[i] = SLASH
    <2>1. end = i
      BY <1>1, <1>4, <1>12
    <2>2. PICK m : m = i + 1
      OBVIOUS
    <2>3. m \in Positions(s) /\ m \in Nat \ {0} /\ i < m
      BY <1>1, <1>12, <2>2 DEF Positions
    <2>4. /\ m \in Starts(s, SLASH)
          /\ StartsFrom(s, SLASH, i) = {i} \cup StartsFrom(s, SLASH, m)
      <3>1. end # 0
        BY <1>1, <2>1
      <3> QED
        BY <1>10, <2>1, <2>2, <3>1
    <2>5. field = <<>>
      <3>1. field = SubSeq(s, i, i - 1)
        BY <1>1, <1>7, <2>1
      <3> QED
        BY <1>1, <3>1, SubSeqEmpty
    <2>6. here = PieceStarts(s) \cap StartsFrom(s, SLASH, m)
      BY <1>5, <1>8, <2>4, <2>5
    <2>7. SkipSlashes(s, i) = SkipSlashes(s, m)
      <3>1. PICK first : first = SkipSlashes(s, m)
        OBVIOUS
      <3>2. \/ first = 0 /\ \A k \in m .. Len(s) : s[k] = SLASH
            \/ first \in m .. Len(s) /\ s[first] # SLASH /\ \A k \in m .. (first - 1) : s[k] = SLASH
        BY <2>3, <3>1, SkipSlashesFinds
      <3>3. CASE first = 0
        <4>1. \A k \in i .. Len(s) : s[k] = SLASH
          <5> TAKE k \in i .. Len(s)
          <5>1. k = i \/ k \in m .. Len(s)
            BY <1>1, <2>2
          <5>2. \A l \in m .. Len(s) : s[l] = SLASH
            BY <2>3, <3>2, <3>3
          <5> QED
            BY <1>12, <5>1, <5>2
        <4>2. SkipSlashes(s, i) = 0
          BY <1>1, <4>1, SkipSlashesFinds
        <4> QED
          BY <3>1, <3>3, <4>2
      <3>4. CASE first # 0
        <4>1. first \in m .. Len(s) /\ s[first] # SLASH /\ \A k \in m .. (first - 1) : s[k] = SLASH
          BY <3>2, <3>4
        <4>2. \A k \in i .. (first - 1) : s[k] = SLASH
          <5> TAKE k \in i .. (first - 1)
          <5>1. k = i \/ k \in m .. (first - 1)
            BY <1>1, <2>2, <4>1
          <5> QED
            BY <1>12, <4>1, <5>1
        <4>3. first \in i .. Len(s)
          BY <1>1, <2>3, <4>1
        <4>4. SkipSlashes(s, i) = first
          BY <1>1, <4>1, <4>2, <4>3, SkipSlashesIs
        <4> QED
          BY <3>1, <4>4
      <3> QED
        BY <3>3, <3>4
    <2>8. from[i] = from[m]
      <3>1. SegmentsAt(s, from, i) = SegmentsAt(s, from, m)
        BY <2>7 DEF SegmentsAt
      <3> QED
        BY <1>1, <1>2, <2>3, <3>1
    <2>9. SegmentsRight(s, m)
      BY <2>3, <2>4
    <2> QED
      BY <1>2, <1>5, <2>6, <2>8, <2>9 DEF SegmentsRight
  \* A segment.
  <1>13. CASE i \in 1 .. Len(s) /\ s[i] # SLASH
    <2>1. SkipSlashes(s, i) = i
      <3>1. i \in i .. Len(s) /\ \A k \in i .. (i - 1) : s[k] = SLASH
        BY <1>1, <1>13
      <3> QED
        BY <1>1, <1>13, <3>1, SkipSlashesIs
    <2>2. /\ end = 0 => from[i] = <<field>>
          /\ end # 0 => from[i] = <<field>> \o from[end + 1]
      <3>1. from[i] = SegmentsAt(s, from, i) /\ i # 0
        BY <1>1, <1>2
      <3>2. /\ end = 0 => SegmentsAt(s, from, i) = <<SubSeq(s, i, Len(s))>>
            /\ end # 0 => SegmentsAt(s, from, i) = <<SubSeq(s, i, end - 1)>> \o from[end + 1]
        BY <1>3, <2>1, <3>1 DEF SegmentsAt
      <3> QED
        BY <1>7, <3>1, <3>2
    <2>3. field \in Seq(Int) /\ field # <<>>
      <3>1. PICK last : last = IF end = 0 THEN Len(s) ELSE end - 1
        OBVIOUS
      <3>2. last \in i .. Len(s)
        <4>1. end # i
          BY <1>1, <1>4, <1>13
        <4>2. CASE end = 0
          BY <1>1, <1>13, <3>1, <4>2
        <4>3. CASE end # 0
          <5>1. end \in i .. Len(s)
            BY <1>4, <4>3
          <5> QED
            BY <1>1, <3>1, <4>1, <4>3, <5>1
        <4> QED
          BY <4>2, <4>3
      <3>3. \A k \in i .. last : k \in 1 .. Len(s)
        BY <1>1, <3>2
      <3>4. SubSeq(s, i, last) \in Seq(Int) /\ Len(SubSeq(s, i, last)) = (last - i) + 1
        BY <1>1, <3>2, <3>3
      <3>5. Len(SubSeq(s, i, last)) # 0
        BY <1>1, <3>2, <3>4
      <3> QED
        BY <1>7, <3>1, <3>4, <3>5
    <2>4. i \in here
      <3>1. i \in StartsFrom(s, SLASH, i)
        BY <1>1 DEF StartsFrom
      <3> QED
        BY <1>5, <1>8, <2>3, <3>1
    <2>5. CASE end = 0
      <3>1. here = {i} \cup {}
        <4>1. StartsFrom(s, SLASH, i) = {i}
          BY <1>10, <2>5
        <4> QED
          BY <1>5, <2>4, <4>1
      <3>2. OneBefore(i, {}, FieldsAt(s, {}), FieldsAt(s, here))
        BY <1>1, <3>1, FS_EmptySet DEF OneBefore, FieldsAt
      <3>3. field = FieldsAt(s, here)[i]
        BY <1>6, <2>4 DEF FieldsAt
      <3>4. InOrder(<<>>, FieldsAt(s, {})) /\ <<>> \in Seq(Seq(Int))
        BY NoneInOrderAt DEF FieldsAt
      <3>5. InOrder(<<field>> \o <<>>, FieldsAt(s, here))
        BY <2>3, <3>2, <3>3, <3>4, OneMore
      <3>6. <<field>> \o <<>> = <<field>>
        BY <2>3
      <3> QED
        BY <1>2, <1>5, <2>2, <2>5, <3>5, <3>6 DEF SegmentsRight
    <2>6. CASE end # 0
      <3>1. PICK m : m = end + 1
        OBVIOUS
      <3>2. m \in Positions(s) /\ m \in Nat \ {0} /\ i < m
        BY <1>1, <1>4, <2>6, <3>1 DEF Positions
      <3>3. /\ m \in Starts(s, SLASH)
            /\ StartsFrom(s, SLASH, i) = {i} \cup StartsFrom(s, SLASH, m)
        BY <1>10, <2>6, <3>1
      <3>4. PICK later : later = PieceStarts(s) \cap StartsFrom(s, SLASH, m)
        OBVIOUS
      <3>5. here = {i} \cup later
        BY <1>5, <2>4, <3>3, <3>4
      <3>6. later \in SUBSET Nat /\ IsFiniteSet(later) /\ \A j \in later : i < j
        <4>1. later \in SUBSET Starts(s, SLASH)
          BY <1>9, <3>4
        <4>2. \A j \in later : m <= j /\ j \in Nat
          BY <1>9, <3>4, <4>1 DEF StartsFrom
        <4>3. \A j \in later : i < j
          BY <1>1, <3>2, <4>2
        <4> QED
          BY <4>1, <4>2, <4>3, StartsFinite
      <3>7. OneBefore(i, later, FieldsAt(s, later), FieldsAt(s, here))
        BY <1>1, <3>5, <3>6 DEF OneBefore, FieldsAt
      <3>8. field = FieldsAt(s, here)[i]
        BY <1>6, <2>4 DEF FieldsAt
      <3>9. PICK segments \in Seq(Seq(Int)) : segments = from[m] /\ InOrder(segments, FieldsAt(s, later))
        <4>1. SegmentsRight(s, m)
          BY <3>2, <3>3
        <4> QED
          BY <1>2, <3>2, <3>4, <4>1 DEF SegmentsRight
      <3>10. InOrder(<<field>> \o segments, FieldsAt(s, here))
        BY <2>3, <3>7, <3>8, <3>9, OneMore
      <3> QED
        BY <1>2, <1>5, <2>2, <2>6, <3>1, <3>9, <3>10 DEF SegmentsRight
    <2> QED
      BY <2>5, <2>6
  <1> QED
    BY <1>1, <1>11, <1>12, <1>13

\* The segments of a path are its pieces that are not empty, in their order.
LEMMA SegmentsArePieces ==
    ASSUME NEW s \in Seq(Int)
    PROVE  InOrder(Segments(s), FieldsAt(s, PieceStarts(s))) /\ Segments(s) \in Seq(Seq(Int))
  <1> DEFINE n == Len(s) + 1
             K == {i \in 1 .. n : i \in Starts(s, SLASH) => SegmentsRight(s, i)}
  <1>1. n \in Nat /\ 1 \in 1 .. n /\ 1 \in Starts(s, SLASH) /\ Starts(s, SLASH) \subseteq 1 .. n
    BY DEF Starts
  <1>2. ASSUME NEW i \in 1 .. n, \A j \in (i + 1) .. n : j \in K, i \in Starts(s, SLASH)
        PROVE  SegmentsRight(s, i)
    <2>1. ASSUME NEW j \in Starts(s, SLASH), i < j PROVE SegmentsRight(s, j)
      <3>1. j \in (i + 1) .. n
        BY <1>1, <2>1
      <3> QED
        BY <1>2, <3>1
    <2> HIDE DEF K
    <2> QED
      BY <1>2, <2>1, SegmentsRightFrom
  <1>3. K = 1 .. n
    <2>1. K \in SUBSET (1 .. n)
      OBVIOUS
    <2>2. \A i \in 1 .. n : (\A j \in (i + 1) .. n : j \in K) => i \in K
      BY <1>2
    <2> HIDE DEF K, n
    <2> QED
      BY <1>1, <2>1, <2>2, DownwardInduction
  <1>4. SegmentsRight(s, 1)
    BY <1>1, <1>3
  <1>5. PieceStarts(s) \cap StartsFrom(s, SLASH, 1) = PieceStarts(s)
    <2>1. \A j \in Starts(s, SLASH) : 1 <= j
      BY DEF Starts
    <2> QED
      BY <2>1 DEF StartsFrom, PieceStarts
  <1>6. SegmentsFrom(s)[1] \in Seq(Seq(Int))
    <2>1. 1 \in Positions(s)
      BY DEF Positions
    <2> QED
      BY <2>1, SegmentsFromSolves
  <1> QED
    BY <1>4, <1>5, <1>6 DEF SegmentsRight, Segments

\* Where strstr finds t in s.
Occurs(s, t, i) == i \in DOMAIN s /\ (i - 1) + Len(t) <= Len(s) /\ \A k \in 1 .. Len(t) : s[(i - 1) + k] = t[k]

LEMMA OccursIs ==
    ASSUME NEW s \in Seq(Int), NEW t \in Seq(Int), NEW i \in DOMAIN s
    PROVE  IsPrefix(t, SubSeq(s, i, Len(s))) <=> Occurs(s, t, i)
  <1>1. i \in 1 .. Len(s) /\ Len(s) \in Nat /\ Len(t) \in Nat
    OBVIOUS
  <1>2. PICK u : u = SubSeq(s, i, Len(s))
    OBVIOUS
  <1>3. u \in Seq(Int) /\ Len(u) = (Len(s) - i) + 1
    BY <1>1, <1>2, SubSeqIs
  <1>4. ASSUME NEW k \in 1 .. Len(u) PROVE u[k] = s[(i - 1) + k]
    <2>1. PICK last \in Nat : last = Len(s)
      BY <1>1
    <2>2. i \in Nat \ {0} /\ i <= last + 1 /\ last <= Len(s)
      BY <1>1, <2>1
    <2>3. \A l \in 1 .. ((last - i) + 1) : SubSeq(s, i, last)[l] = s[(i - 1) + l]
      BY <2>2, SubSeqIs
    <2>4. k \in 1 .. ((last - i) + 1) /\ u = SubSeq(s, i, last)
      BY <1>2, <1>3, <2>1
    <2> QED
      BY <2>3, <2>4
  <1>5. SubSeq(t, 1, Len(t)) = t
    BY <1>1
  <1>6. ASSUME IsPrefix(t, u) PROVE Occurs(s, t, i)
    <2>1. Len(t) <= Len(u) /\ t = SubSeq(u, 1, Len(t))
      BY <1>5, <1>6 DEF IsPrefix
    <2>2. ASSUME NEW k \in 1 .. Len(t) PROVE s[(i - 1) + k] = t[k]
      <3>1. t[k] = u[k] /\ k \in 1 .. Len(u)
        BY <1>1, <1>3, <2>1
      <3> QED
        BY <1>4, <3>1
    <2>3. (i - 1) + Len(t) <= Len(s)
      BY <1>1, <1>3, <2>1
    <2> QED
      BY <2>2, <2>3 DEF Occurs
  <1>7. ASSUME Occurs(s, t, i) PROVE IsPrefix(t, u)
    <2>1. Len(t) <= Len(u)
      BY <1>1, <1>3, <1>7 DEF Occurs
    <2>2. PICK v : v = SubSeq(u, 1, Len(t))
      OBVIOUS
    <2>3. /\ v \in Seq(Int) /\ Len(v) = Len(t)
          /\ \A k \in 1 .. Len(t) : v[k] = u[k]
      <3>1. Len(t) \in Nat
        BY <1>1
      <3> QED
        BY <1>3, <2>1, <2>2, <3>1, PrefixIs
    <2>4. ASSUME NEW k \in 1 .. Len(v) PROVE v[k] = t[k]
      <3>1. v[k] = u[k] /\ k \in 1 .. Len(u) /\ k \in 1 .. Len(t)
        <4>1. k \in 1 .. Len(t)
          BY <2>3
        <4>2. Len(u) \in Nat
          BY <1>3
        <4>3. k \in 1 .. Len(u)
          BY <1>1, <2>1, <4>1, <4>2
        <4> QED
          BY <2>3, <4>1, <4>3
      <3>2. t[k] = s[(i - 1) + k]
        BY <1>7, <3>1 DEF Occurs
      <3> QED
        BY <1>4, <3>1, <3>2
    <2>5. v = t
      BY <2>3, <2>4, SeqEqual
    <2> QED
      BY <1>5, <2>1, <2>2, <2>5 DEF IsPrefix
  <1> QED
    BY <1>2, <1>6, <1>7

LEMMA StrStrFinds ==
    ASSUME NEW s \in Seq(Int), NEW t \in Seq(Int)
    PROVE  \/ StrStr(s, t) = 0 /\ \A j \in DOMAIN s : ~ Occurs(s, t, j)
           \/ Occurs(s, t, StrStr(s, t)) /\ \A j \in DOMAIN s : Occurs(s, t, j) => StrStr(s, t) <= j
  <1>1. PICK at : at = {j \in DOMAIN s : IsPrefix(t, SubSeq(s, j, Len(s)))}
    OBVIOUS
  <1>2. at \in SUBSET (1 .. Len(s)) /\ \A j \in DOMAIN s : j \in at <=> Occurs(s, t, j)
    BY <1>1, OccursIs
  <1>3. StrStr(s, t) = IF at = {} THEN 0 ELSE Min(at)
    BY <1>1 DEF StrStr
  <1>4. CASE at = {}
    BY <1>2, <1>3, <1>4
  <1>5. CASE at # {}
    <2>1. at \in SUBSET Nat
      BY <1>2
    <2>2. PICK i : i = Min(at) /\ i \in at /\ \A m \in at : i <= m
      BY <1>5, <2>1, LeastNumber
    <2>3. i \in DOMAIN s
      BY <1>2, <2>2
    <2> QED
      BY <1>2, <1>3, <1>5, <2>2, <2>3
  <1> QED
    BY <1>4, <1>5

LEMMA WithinReach ==
    ASSUME NEW c \in Nat, NEW n \in Nat, NEW j \in 1 .. c, (j - 1) + n <= c, NEW k \in 1 .. n
    PROVE  (j - 1) + k \in 1 .. c
  OBVIOUS

LEMMA OneElement ==
    ASSUME NEW T, NEW s \in Seq(T), Len(s) = 1
    PROVE  s # <<>> /\ <<s[1]>> = s
  OBVIOUS

\* The prefixes of s that still hold where t is found.
LEMMA StrStrOfPrefix ==
    ASSUME NEW s \in Seq(Int), NEW t \in Seq(Int), StrStr(s, t) # 0, t # <<>>,
           NEW c \in 1 .. Len(s), (StrStr(s, t) - 1) + Len(t) <= c
    PROVE  StrStr(SubSeq(s, 1, c), t) = StrStr(s, t)
  <1>1. PICK i : i = StrStr(s, t)
    OBVIOUS
  <1>2. Occurs(s, t, i) /\ \A j \in DOMAIN s : Occurs(s, t, j) => i <= j
    BY <1>1, StrStrFinds
  <1>3. PICK u : u = SubSeq(s, 1, c)
    OBVIOUS
  <1>4. u \in Seq(Int) /\ Len(u) = c /\ \A k \in 1 .. c : u[k] = s[k]
    BY <1>3
  <1>5. Len(s) \in Nat /\ Len(t) \in Nat /\ Len(t) # 0 /\ i \in 1 .. Len(s) /\ (i - 1) + Len(t) <= c
    BY <1>1, <1>2 DEF Occurs
  <1>6. DOMAIN u = 1 .. c /\ DOMAIN u \subseteq DOMAIN s
    BY <1>4
  <1>7. ASSUME NEW j \in DOMAIN u
        PROVE  Occurs(u, t, j) <=> (Occurs(s, t, j) /\ (j - 1) + Len(t) <= c)
    <2>1. j \in 1 .. c
      BY <1>6
    <2>2. PICK n \in Nat : n = Len(t)
      BY <1>5
    <2>3. c \in Nat
      OBVIOUS
    <2>4. ASSUME (j - 1) + n <= c, NEW k \in 1 .. n PROVE u[(j - 1) + k] = s[(j - 1) + k]
      <3>1. (j - 1) + k \in 1 .. c
        BY <2>1, <2>4, <2>3, WithinReach
      <3> QED
        BY <1>4, <3>1
    <2>5. (j - 1) + n <= c => (j - 1) + n <= Len(s)
      <3>1. PICK x \in Int : x = (j - 1) + n
        BY <2>1
      <3>2. c <= Len(s)
        OBVIOUS
      <3> QED
        BY <1>5, <2>3, <3>1, <3>2
    <2> QED
      BY <1>4, <1>6, <2>4, <2>5, <2>2 DEF Occurs
  <1>8. i \in DOMAIN u /\ Occurs(u, t, i)
    <2>1. i \in 1 .. c
      BY <1>5
    <2> QED
      BY <1>2, <1>5, <1>6, <1>7, <2>1
  <1>9. PICK j : j = StrStr(u, t)
    OBVIOUS
  <1>10. \/ j = 0 /\ \A k \in DOMAIN u : ~ Occurs(u, t, k)
         \/ Occurs(u, t, j) /\ \A k \in DOMAIN u : Occurs(u, t, k) => j <= k
    BY <1>4, <1>9, StrStrFinds
  <1>11. Occurs(u, t, j) /\ j <= i /\ j \in DOMAIN u
    <2>1. Occurs(u, t, j) /\ j <= i
      BY <1>8, <1>10
    <2> QED
      BY <2>1 DEF Occurs
  <1>12. i <= j
    BY <1>2, <1>6, <1>7, <1>11
  <1>13. j \in Nat /\ i \in Nat
    BY <1>5, <1>6, <1>11
  <1> QED
    BY <1>1, <1>3, <1>9, <1>11, <1>12, <1>13

\* The route function of the MVC router mounted at mount: what is left of the
\* path is a text.
LEMMA RouteIs ==
    ASSUME NEW path \in Seq(Int), NEW m \in MountPoints, MVCRoute(AsRouter(m), path).end = "handler"
    PROVE  LET mount == MountPoint(m)
               rest == Rest(mount, path)
           IN  /\ mount \in Seq(Int) /\ mount # <<>> /\ StrStr(path, mount) # 0
               /\ StrStr(path, mount) + Len(mount) \in 2 .. (Len(path) + 1)
               /\ rest = SubSeq(path, StrStr(path, mount) + Len(mount), Len(path))
               /\ rest \in Seq(Int) /\ Len(rest) = (Len(path) - (StrStr(path, mount) + Len(mount))) + 1
               /\ MVCRoute(AsRouter(m), path) = Made(MVCHandler(Segments(rest)), CutPath(path, rest))
  <1>1. PICK mount, at, rest : /\ mount = MountPoint(m) /\ at = StrStr(path, mount)
                               /\ rest = Rest(mount, path)
    OBVIOUS
  <1>2. mount \in Seq(Int) /\ mount # <<>>
    BY <1>1, RoutingAssumption, MountPointIs
  <1>3. AsRouter(m).mount = mount
    BY <1>1 DEF AsRouter, MVCRouter, Builtin
  <1>4. MVCRoute(AsRouter(m), path) =
            IF at = 0 THEN None(path) ELSE Made(MVCHandler(Segments(rest)), CutPath(path, rest))
    BY <1>1, <1>3 DEF MVCRoute
  <1>5. at # 0
    BY <1>4 DEF None
  <1>6. at \in 1 .. Len(path) /\ (at - 1) + Len(mount) <= Len(path)
    <2>1. Occurs(path, mount, at)
      BY <1>1, <1>2, <1>5, StrStrFinds
    <2> QED
      BY <2>1 DEF Occurs
  <1>7. PICK b : b = at + Len(mount)
    OBVIOUS
  <1>8. b \in 2 .. (Len(path) + 1) /\ b \in Nat
    <2>1. Len(mount) \in Nat /\ Len(mount) # 0 /\ Len(path) \in Nat
      BY <1>2
    <2> QED
      BY <1>6, <1>7, <2>1
  <1>9. rest = SubSeq(path, b, Len(path))
    BY <1>1, <1>7 DEF Rest
  <1>10. rest \in Seq(Int) /\ Len(rest) = (Len(path) - b) + 1
    BY <1>8, <1>9, SubSeqIs
  <1> QED
    BY <1>1, <1>2, <1>4, <1>5, <1>7, <1>8, <1>9, <1>10

\* For paths of every length and every mount point: the handler of the MVC
\* router is made of the pieces of the path, each once and in their order.
THEOREM HandlersSpellPaths == Spec => []HandlerSpellsPath
  <1>1. text \in Seq(Int) => HandlerSpellsPath
    <2> SUFFICES ASSUME text \in Seq(Int), NEW m \in MountPoints, MVCRoute(AsRouter(m), text).end = "handler"
                 PROVE  LET route == MVCRoute(AsRouter(m), text)
                            rest == Rest(MountPoint(m), text)
                            pieces == [i \in PieceStarts(rest) |-> Field(rest, SLASH, i)]
                            h == route.handler
                            n == Cardinality(DOMAIN pieces)
                        IN  /\ n >= 2 => InOrder(<<h.module, h.action>> \o h.args, pieces)
                            /\ n < 2 => h.action = Index /\ h.args = <<>>
                            /\ n = 1 => InOrder(<<h.module>>, pieces)
                            /\ n = 0 => h.module = Index
      BY DEF HandlerSpellsPath
    <2>1. PICK rest \in Seq(Int) : rest = Rest(MountPoint(m), text)
      BY RouteIs
    <2>2. PICK seg \in Seq(Seq(Int)) : seg = Segments(rest)
      BY SegmentsArePieces
    <2>3. PICK h : h = MVCRoute(AsRouter(m), text).handler
      OBVIOUS
    <2>4. h = MVCHandler(seg)
      <3>1. MVCRoute(AsRouter(m), text) = Made(MVCHandler(seg), CutPath(text, rest))
        BY <2>1, <2>2, RouteIs
      <3> QED
        BY <2>3, <3>1 DEF Made
    <2>5. /\ h.module = IF seg = <<>> THEN Index ELSE seg[1]
          /\ h.action = IF Len(seg) < 2 THEN Index ELSE seg[2]
          /\ h.args = SubSeq(seg, 3, Len(seg))
      BY <2>4 DEF MVCHandler
    <2>6. PICK pieces : /\ pieces = [i \in PieceStarts(rest) |-> Field(rest, SLASH, i)]
                        /\ InOrder(seg, pieces)
      BY <2>2, SegmentsArePieces DEF FieldsAt
    <2>7. Len(seg) = Cardinality(DOMAIN pieces) /\ Len(seg) \in Nat
      BY <2>6 DEF InOrder
    <2>8. Len(seg) >= 2 => <<h.module, h.action>> \o h.args = seg
      <3> SUFFICES ASSUME Len(seg) >= 2 PROVE <<h.module, h.action>> \o h.args = seg
        OBVIOUS
      <3>1. h.module = seg[1] /\ h.action = seg[2]
        BY <2>5
      <3>2. PICK args : args = SubSeq(seg, 3, Len(seg)) /\ args = h.args
        BY <2>5
      <3>3. args \in Seq(Seq(Int)) /\ Len(args) = Len(seg) - 2 /\ \A k \in 1 .. Len(args) : args[k] = seg[k + 2]
        <4>1. CASE Len(seg) = 2
          <5>1. args = <<>>
            BY <3>2, <4>1, SubSeqEmpty
          <5> QED
            BY <4>1, <5>1
        <4>2. CASE Len(seg) > 2
          BY <3>2, <4>2
        <4> QED
          BY <2>7, <4>1, <4>2
      <3>4. PICK a, b : a = seg[1] /\ b = seg[2] /\ a \in Seq(Int) /\ b \in Seq(Int)
        <4>1. 1 \in 1 .. Len(seg) /\ 2 \in 1 .. Len(seg)
          BY <2>7
        <4> QED
          BY <4>1, ElementOfSeq
      <3>5. PICK all : all = <<a, b>> \o args
        OBVIOUS
      <3>6. all \in Seq(Seq(Int)) /\ Len(all) = Len(seg)
        BY <2>7, <3>3, <3>4, <3>5
      <3>7. ASSUME NEW k \in 1 .. Len(all) PROVE all[k] = seg[k]
        <4>1. CASE k \in {1, 2}
          BY <3>3, <3>4, <3>5, <4>1
        <4>2. CASE k > 2
          <5>1. k - 2 \in 1 .. Len(args) /\ (k - 2) + 2 = k
            BY <2>7, <3>3, <3>6, <4>2
          <5>2. all[k] = args[k - 2]
            BY <3>3, <3>5, <4>2, <5>1
          <5> QED
            BY <3>3, <5>1, <5>2
        <4> QED
          BY <2>7, <3>6, <4>1, <4>2
      <3>8. all = seg
        BY <3>6, <3>7, SeqEqual
      <3> QED
        BY <3>1, <3>2, <3>4, <3>5, <3>8
    <2>9. Len(seg) < 2 => h.action = Index /\ h.args = <<>>
      BY <2>5, <2>7, SubSeqEmpty
    <2>10. Len(seg) = 1 => <<h.module>> = seg
      <3> SUFFICES ASSUME Len(seg) = 1 PROVE <<h.module>> = seg
        OBVIOUS
      <3>1. seg # <<>> /\ <<seg[1]>> = seg
        BY OneElement
      <3>2. h.module = seg[1]
        BY <2>5, <3>1
      <3> QED
        BY <3>1, <3>2
    <2>11. Len(seg) = 0 => h.module = Index
      BY <2>5
    <2> QED
      BY <2>1, <2>3, <2>6, <2>7, <2>8, <2>9, <2>10, <2>11
  <1> QED
    BY <1>1, TextsAreTexts, PTL
\* strtok_r leaves a text as it was if no '/' ends its first segment, and so
\* cut before the '/' that does.
Uncut(s) == SkipSlashes(s, 1) = 0 \/ Find(s, SLASH, SkipSlashes(s, 1)) = 0

CutAt(s, c) == c \in 1 .. Len(s) /\ ~ Uncut(s) /\ Find(s, SLASH, SkipSlashes(s, 1)) = c + 1

\* The first of the segments, if there is one.
FirstOf(segments) == IF segments = <<>> THEN <<>> ELSE <<segments[1]>>

LEMMA UncutSegments ==
    ASSUME NEW s \in Seq(Int), Uncut(s)
    PROVE  Segments(s) = FirstOf(Segments(s))
  <1>1. 1 \in Positions(s)
    BY DEF Positions
  <1>2. PICK from : from = SegmentsFrom(s) /\ from[1] = SegmentsAt(s, from, 1)
    BY <1>1, SegmentsFromSolves
  <1>3. PICK segments : segments = Segments(s) /\ segments = SegmentsAt(s, from, 1)
    BY <1>2 DEF Segments
  <1>4. segments = <<>> \/ segments = <<SubSeq(s, SkipSlashes(s, 1), Len(s))>>
    BY <1>3 DEF SegmentsAt, Uncut
  <1>5. CASE segments = <<>>
    BY <1>3, <1>5 DEF FirstOf
  <1>6. CASE segments = <<SubSeq(s, SkipSlashes(s, 1), Len(s))>>
    <2>1. PICK x : segments = <<x>>
      BY <1>6
    <2>2. segments # <<>> /\ segments[1] = x
      BY <2>1
    <2> QED
      BY <1>3, <2>1, <2>2 DEF FirstOf
  <1> QED
    BY <1>4, <1>5, <1>6

\* What is cut off begins behind the first segment.
LEMMA CutSegments ==
    ASSUME NEW s \in Seq(Int), NEW c, CutAt(s, c)
    PROVE  /\ Uncut(SubSeq(s, 1, c)) /\ Segments(SubSeq(s, 1, c)) = FirstOf(Segments(s))
  <1>1. Len(s) \in Nat /\ 1 \in Nat \ {0} /\ c \in 1 .. Len(s) /\ c \in Nat
    BY DEF CutAt
  <1>2. PICK first : first = SkipSlashes(s, 1)
    OBVIOUS
  <1>3. first # 0 /\ Find(s, SLASH, first) = c + 1
    BY <1>1, <1>2 DEF CutAt, Uncut
  <1>4. first \in 1 .. Len(s) /\ s[first] # SLASH /\ \A k \in 1 .. (first - 1) : s[k] = SLASH
    BY <1>1, <1>2, <1>3, SkipSlashesFinds
  <1>5. c + 1 \in first .. Len(s) /\ s[c + 1] = SLASH /\ \A k \in first .. c : s[k] # SLASH
    <2>1. first \in Nat \ {0} /\ c + 1 # 0 /\ (c + 1) - 1 = c
      BY <1>1, <1>4
    <2>2. PICK e : e = Find(s, SLASH, first)
      OBVIOUS
    <2>3. \/ e = 0 /\ \A k \in first .. Len(s) : s[k] # SLASH
          \/ e \in first .. Len(s) /\ s[e] = SLASH /\ \A k \in first .. (e - 1) : s[k] # SLASH
      BY <2>1, <2>2, FindFinds
    <2>4. e = c + 1
      BY <1>3, <2>2
    <2>5. e # 0 /\ e - 1 = c
      BY <2>1, <2>4
    <2>6. e \in first .. Len(s) /\ s[e] = SLASH /\ \A k \in first .. c : s[k] # SLASH
      BY <2>3, <2>5
    <2> QED
      BY <2>4, <2>6
  <1>6. first \in 1 .. c /\ first \in Nat \ {0} /\ first <= c
    <2>1. c + 1 # first
      BY <1>4, <1>5
    <2> QED
      BY <1>1, <1>4, <1>5, <2>1
  <1>7. PICK t : t = SubSeq(s, 1, c)
    OBVIOUS
  <1>8. t \in Seq(Int) /\ Len(t) = c /\ \A k \in 1 .. c : t[k] = s[k]
    BY <1>1, <1>7
  <1>9. SkipSlashes(t, 1) = first
    <2>1. first \in 1 .. Len(t) /\ t[first] # SLASH /\ \A k \in 1 .. (first - 1) : t[k] = SLASH
      BY <1>4, <1>6, <1>8
    <2> QED
      BY <1>1, <1>8, <2>1, SkipSlashesIs
  <1>10. Find(t, SLASH, first) = 0
    <2>1. ASSUME NEW k \in first .. Len(t) PROVE t[k] # SLASH
      <3>1. k \in first .. c
        BY <1>8
      <3>2. k \in 1 .. c
        BY <1>6, <3>1
      <3> QED
        BY <1>5, <1>8, <3>1, <3>2
    <2> QED
      BY <1>6, <1>8, <2>1, FindNone
  <1>11. PICK word : word = SubSeq(s, first, c)
    OBVIOUS
  <1>12. Segments(t) = <<word>>
    <2>1. PICK from : Segments(t) = SegmentsAt(t, from, 1)
      <3>1. 1 \in Positions(t)
        BY <1>8 DEF Positions
      <3> QED
        BY <1>8, <3>1, SegmentsFromSolves DEF Segments
    <2>2. Segments(t) = <<SubSeq(t, first, Len(t))>>
      BY <1>3, <1>9, <1>10, <2>1 DEF SegmentsAt
    <2>3. SubSeq(t, first, Len(t)) = SubSeq(s, first, c)
      <3>1. c <= Len(s) /\ c <= (c - 1) + 1 /\ (1 + first) - 1 = first /\ (1 + c) - 1 = c
        BY <1>1, <1>6
      <3>2. SubSeq(SubSeq(s, 1, c), first, c) = SubSeq(s, (1 + first) - 1, (1 + c) - 1)
        BY <1>1, <1>6, <3>1, PartOfPart
      <3> QED
        BY <1>7, <1>8, <3>1, <3>2
    <2> QED
      BY <1>11, <2>2, <2>3
  <1>13. FirstOf(Segments(s)) = <<word>>
    <2>1. PICK from \in [Positions(s) -> Seq(Seq(Int))] : Segments(s) = SegmentsAt(s, from, 1)
      <3>1. 1 \in Positions(s)
        BY DEF Positions
      <3> QED
        BY <3>1, SegmentsFromSolves DEF Segments
    <2>2. PICK e \in Nat : e = c + 1
      BY <1>1
    <2>3. SegmentsAt(s, from, 1) = <<SubSeq(s, first, e - 1)>> \o from[e + 1]
      <3>1. e # 0 /\ Find(s, SLASH, first) = e
        BY <1>1, <1>3, <2>2
      <3> QED
        BY <1>2, <1>3, <3>1 DEF SegmentsAt
    <2>4. e - 1 = c /\ e + 1 \in Positions(s)
      BY <1>1, <1>5, <2>2 DEF Positions
    <2>5. PICK rest \in Seq(Seq(Int)) : rest = from[e + 1]
      BY <2>4
    <2>6. word \in Seq(Int)
      BY <1>1, <1>6, <1>11, SubSeqIs
    <2>7. Segments(s) = <<word>> \o rest
      BY <1>11, <2>1, <2>3, <2>4, <2>5
    <2>8. <<word>> \o rest # <<>> /\ (<<word>> \o rest)[1] = word
      BY <2>6
    <2> QED
      BY <2>7, <2>8 DEF FirstOf
  <1>14. Uncut(t)
    BY <1>9, <1>10 DEF Uncut
  <1> QED
    BY <1>7, <1>12, <1>13, <1>14

LEMMA CutPathIs ==
    ASSUME NEW path \in Seq(Int), NEW s \in Seq(Int)
    PROVE  \/ Uncut(s) /\ CutPath(path, s) = path
           \/ \E c : CutAt(s, c) /\ CutPath(path, s) = SubSeq(path, 1, (Len(path) - Len(s)) + c)
  <1>1. PICK first, end : first = SkipSlashes(s, 1) /\ end = Find(s, SLASH, first)
    OBVIOUS
  <1>2. CASE Uncut(s)
    BY <1>2 DEF Uncut, CutPath
  <1>3. CASE ~ Uncut(s)
    <2>1. first # 0 /\ end # 0
      BY <1>1, <1>3 DEF Uncut
    <2>2. CutPath(path, s) = SubSeq(path, 1, Len(path) - Len(s) + end - 1)
      BY <1>1, <2>1 DEF CutPath
    <2>3. first \in 1 .. Len(s) /\ s[first] # SLASH
      BY <1>1, <2>1, SkipSlashesFinds
    <2>4. first \in Nat \ {0}
      BY <2>3
    <2>5. end \in first .. Len(s) /\ s[end] = SLASH
      BY <1>1, <2>1, <2>4, FindFinds
    <2>6. end # first
      BY <2>3, <2>5
    <2>7. PICK c : c = end - 1
      OBVIOUS
    <2>8. Len(s) \in Nat /\ Len(path) \in Nat
      OBVIOUS
    <2>9. c \in 1 .. Len(s) /\ end = c + 1 /\ Len(path) - Len(s) + end - 1 = (Len(path) - Len(s)) + c
      BY <2>3, <2>5, <2>6, <2>7, <2>8
    <2>10. CutAt(s, c)
      BY <1>1, <1>3, <2>9 DEF CutAt
    <2> QED
      BY <2>2, <2>9, <2>10
  <1> QED
    BY <1>2, <1>3

\* The handler made of the first segment alone.
OfFirst(handler) == [handler EXCEPT !.action = Index, !.args = <<>>]

LEMMA HandlerOfFirst ==
    ASSUME NEW seg
    PROVE  MVCHandler(FirstOf(seg)) = OfFirst(MVCHandler(seg))
  <1>1. PICK one : one = FirstOf(seg)
    OBVIOUS
  <1>2. PICK module : module = IF seg = <<>> THEN Index ELSE seg[1]
    OBVIOUS
  <1>3. module = IF one = <<>> THEN Index ELSE one[1]
    <2>1. \A x : <<x>> # <<>> /\ <<x>>[1] = x
      OBVIOUS
    <2> QED
      BY <1>1, <1>2, <2>1 DEF FirstOf
  <1>4. Len(one) \in {0, 1}
    <2>1. \A x : Len(<<x>>) = 1
      OBVIOUS
    <2>2. Len(<<>>) = 0
      OBVIOUS
    <2> QED
      BY <1>1, <2>1, <2>2 DEF FirstOf
  <1>5. SubSeq(one, 3, Len(one)) = <<>> /\ Len(one) < 2
    <2>1. PICK n : n = Len(one)
      OBVIOUS
    <2>2. n \in Int /\ n < 3 /\ n < 2
      BY <1>4, <2>1
    <2>3. SubSeq(one, 3, n) = <<>>
      BY <2>2, SubSeqEmpty
    <2> QED
      BY <2>1, <2>2, <2>3
  <1>6. PICK class : class = ClassOf(module)
    OBVIOUS
  <1>7. MVCHandler(one) = [kind |-> "page", module |-> module, class |-> class, action |-> Index, args |-> <<>>]
    BY <1>3, <1>5, <1>6 DEF MVCHandler
  <1>8. PICK action, args :
            MVCHandler(seg) = [kind |-> "page", module |-> module, class |-> class, action |-> action, args |-> args]
    BY <1>2, <1>6 DEF MVCHandler
  <1>9. OfFirst([kind |-> "page", module |-> module, class |-> class, action |-> action, args |-> args]) =
            [kind |-> "page", module |-> module, class |-> class, action |-> Index, args |-> <<>>]
    <2> DEFINE A(h) == [h EXCEPT !.action = Index]
               B(h) == [h EXCEPT !.args = <<>>]
               Page(a, b) == [kind |-> "page", module |-> module, class |-> class, action |-> a, args |-> b]
    <2>1. A(Page(action, args)) = Page(Index, args)
      OBVIOUS
    <2>2. B(Page(Index, args)) = Page(Index, <<>>)
      OBVIOUS
    <2>3. OfFirst(Page(action, args)) = B(A(Page(action, args)))
      BY DEF OfFirst
    <2> HIDE DEF A, B, Page
    <2>4. OfFirst(Page(action, args)) = Page(Index, <<>>)
      BY <2>1, <2>2, <2>3
    <2> QED
      BY <2>4 DEF Page
  <1> QED
    BY <1>1, <1>7, <1>8, <1>9

LEMMA PathIsText ==
    ASSUME NEW url \in Seq(Int)
    PROVE  Path(url) \in Seq(Int)
  <1>1. PICK q : q = Find(url, QM, 1)
    OBVIOUS
  <1>2. Path(url) = IF q = 0 THEN url ELSE SubSeq(url, 1, q - 1)
    BY <1>1 DEF Path
  <1>3. q = 0 \/ q \in 1 .. Len(url)
    BY <1>1, FindFinds
  <1>4. q # 0 => SubSeq(url, 1, q - 1) \in Seq(Int)
    BY <1>3, SubSeqIs
  <1> QED
    BY <1>2, <1>4

SecondRoutingOf(path, m) ==
    LET first == MVCRoute(AsRouter(m), path)
        second == MVCRoute(AsRouter(m), first.path)
    IN  first.end = "handler" =>
            /\ IsPrefix(first.path, path)
            /\ second = Made(OfFirst(first.handler), first.path)

\* For paths of every length and every mount point: a request that is routed a
\* second time finds its module, but never its action and arguments.
THEOREM SecondRoutings == Spec => []SecondRouting
  <1>1. ASSUME NEW path \in Seq(Int), NEW m \in MountPoints PROVE SecondRoutingOf(path, m)
    <2> SUFFICES ASSUME MVCRoute(AsRouter(m), path).end = "handler"
                 PROVE  LET first == MVCRoute(AsRouter(m), path)
                            second == MVCRoute(AsRouter(m), first.path)
                        IN  IsPrefix(first.path, path) /\ second = Made(OfFirst(first.handler), first.path)
      BY DEF SecondRoutingOf
    <2>1. PICK mount, at, rest : mount = MountPoint(m) /\ at = StrStr(path, mount) /\ rest = Rest(mount, path)
      OBVIOUS
    <2>2. PICK b : b = at + Len(mount)
      OBVIOUS
    <2>3. /\ mount \in Seq(Int) /\ mount # <<>> /\ at # 0
          /\ b \in 2 .. (Len(path) + 1) /\ rest = SubSeq(path, b, Len(path))
          /\ rest \in Seq(Int) /\ Len(rest) = (Len(path) - b) + 1
          /\ MVCRoute(AsRouter(m), path) = Made(MVCHandler(Segments(rest)), CutPath(path, rest))
      BY <1>1, <2>1, <2>2, RouteIs
    <2>4. PICK cut, seg : cut = CutPath(path, rest) /\ seg = Segments(rest) /\ seg \in Seq(Seq(Int))
      BY <2>3, SegmentsArePieces
    <2>5. PICK first : first = MVCRoute(AsRouter(m), path)
      OBVIOUS
    <2>6. first.path = cut /\ first.handler = MVCHandler(seg)
      <3>1. PICK h : h = MVCHandler(seg) /\ first = [end |-> "handler", handler |-> h, path |-> cut]
        BY <2>3, <2>4, <2>5 DEF Made
      <3> QED
        BY <3>1
    <2>7. PICK again : again = OfFirst(first.handler) /\ again = MVCHandler(FirstOf(seg))
      BY <2>4, <2>6, HandlerOfFirst
    <2>8. CASE Uncut(rest) /\ cut = path
      <3>1. seg = FirstOf(seg)
        BY <2>3, <2>4, <2>8, UncutSegments
      <3>2. MVCRoute(AsRouter(m), path) = Made(again, path)
        BY <2>3, <2>4, <2>7, <2>8, <3>1
      <3>3. IsPrefix(path, path)
        BY DEF IsPrefix
      <3> QED
        BY <2>5, <2>6, <2>7, <2>8, <3>2, <3>3
    <2>9. CASE \E c : CutAt(rest, c) /\ cut = SubSeq(path, 1, (Len(path) - Len(rest)) + c)
      <3>1. PICK c : CutAt(rest, c) /\ cut = SubSeq(path, 1, (Len(path) - Len(rest)) + c)
        BY <2>9
      <3>2. PICK n : n = (b - 1) + c
        OBVIOUS
      <3>3. /\ c \in 1 .. Len(rest) /\ Len(path) \in Nat /\ b \in Nat /\ n \in 1 .. Len(path) /\ n \in Nat
            /\ (Len(path) - Len(rest)) + c = n
        <4>1. c \in 1 .. Len(rest) /\ Len(path) \in Nat
          BY <3>1 DEF CutAt
        <4> QED
          BY <2>3, <3>2, <4>1
      <3>4. cut = SubSeq(path, 1, n)
        BY <3>1, <3>3
      <3>5. cut \in Seq(Int) /\ Len(cut) = n
        BY <3>3, <3>4, SubSeqIs
      <3>6. IsPrefix(cut, path)
        <4>1. SubSeq(cut, 1, n) = cut
          BY <3>5
        <4> QED
          BY <3>3, <3>4, <3>5, <4>1 DEF IsPrefix
      <3>7. StrStr(cut, mount) = at
        <4>1. (at - 1) + Len(mount) <= n
          <5>1. Occurs(path, mount, at)
            BY <2>1, <2>3, StrStrFinds
          <5>2. at \in Nat /\ Len(mount) \in Nat
            <6>1. at \in DOMAIN path /\ DOMAIN path = 1 .. Len(path)
              BY <5>1 DEF Occurs
            <6>2. Len(mount) \in Nat
              BY <2>3
            <6> QED
              BY <6>1, <6>2
          <5>3. (at - 1) + Len(mount) = b - 1
            BY <2>2, <5>2
          <5> QED
            BY <3>2, <3>3, <5>3
        <4> QED
          BY <2>1, <2>3, <3>3, <3>4, <4>1, StrStrOfPrefix
      <3>8. PICK rest2 : rest2 = SubSeq(rest, 1, c)
        OBVIOUS
      <3>9. Rest(mount, cut) = rest2
        <4>1. Rest(mount, cut) = SubSeq(cut, b, n)
          BY <2>2, <3>5, <3>7 DEF Rest
        <4>2. SubSeq(SubSeq(path, 1, n), b, n) = SubSeq(path, b, n)
          <5>1. n <= Len(path) /\ b \in Nat \ {0} /\ n <= (n - 1) + 1 /\ (1 + b) - 1 = b /\ (1 + n) - 1 = n
            BY <2>3, <3>3
          <5>2. SubSeq(SubSeq(path, 1, n), b, n) = SubSeq(path, (1 + b) - 1, (1 + n) - 1)
            BY <3>3, <5>1, PartOfPart
          <5> QED
            BY <5>1, <5>2
        <4>3. SubSeq(SubSeq(path, b, Len(path)), 1, c) = SubSeq(path, b, n)
          <5>1. /\ b \in Nat \ {0} /\ c \in Nat /\ c <= (Len(path) - b) + 1
                /\ (b + 1) - 1 = b /\ (b + c) - 1 = n
            BY <2>3, <3>2, <3>3
          <5>2. SubSeq(SubSeq(path, b, Len(path)), 1, c) = SubSeq(path, (b + 1) - 1, (b + c) - 1)
            BY <3>3, <5>1, PartOfPart
          <5> QED
            BY <5>1, <5>2
        <4> QED
          BY <2>3, <3>4, <3>8, <4>1, <4>2, <4>3
      <3>10. Uncut(rest2) /\ Segments(rest2) = FirstOf(seg)
        BY <2>3, <2>4, <3>1, <3>8, CutSegments
      <3>11. CutPath(cut, rest2) = cut
        BY <3>10 DEF CutPath, Uncut
      <3>12. MVCRoute(AsRouter(m), cut) = Made(again, cut)
        <4>1. AsRouter(m).mount = mount
          BY <2>1 DEF AsRouter, MVCRouter, Builtin
        <4> QED
          BY <2>3, <2>7, <3>7, <3>9, <3>10, <3>11, <4>1 DEF MVCRoute
      <3> QED
        BY <2>5, <2>6, <2>7, <3>6, <3>12
    <2> QED
      BY <2>3, <2>4, <2>8, <2>9, CutPathIs
  <1>2. text \in Seq(Int) => SecondRouting
    <2>1. SecondRouting <=> \A m \in MountPoints : SecondRoutingOf(Path(text), m)
      BY DEF SecondRouting, SecondRoutingOf, OfFirst
    <2> QED
      BY <1>1, <2>1, PathIsText
  <1> QED
    BY <1>2, TextsAreTexts, PTL
============================================================================
