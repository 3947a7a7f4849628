-------------------------- MODULE GuavaTextProofs --------------------------
(***************************************************************************)
(* Lemmas about GuavaCodec and GuavaRouting for texts of every length:     *)
(* what the recursive definitions of the parsers give, shown by induction  *)
(* over positions, which router is the best match, and the lemmas about    *)
(* numbers that this needs.                                                *)
(***************************************************************************)
EXTENDS GuavaRouting, WellFoundedInduction, SequenceTheorems, TLAPS

(* Numbers. *)

\* A set of numbers has a least one, and a greatest one if it is bounded.
LEMMA LeastNumber ==
    ASSUME NEW S \in SUBSET Nat, S # {}
    PROVE  Min(S) \in S /\ \A m \in S : Min(S) <= m
  <1>1. PICK n \in S : \A m \in S : <<m, n>> \notin OpToRel(<, Nat)
    BY NatLessThanWellFounded, WFMin
  <1>2. ASSUME NEW m \in S PROVE n <= m
    <2>1. <<m, n>> \in Nat \X Nat /\ ~ (m < n)
      BY <1>1 DEF OpToRel
    <2> QED
      BY <2>1
  <1> QED
    BY <1>2 DEF Min

LEMMA GreatestNumber ==
    ASSUME NEW n \in Nat, NEW S \in SUBSET (1 .. n), S # {}
    PROVE  Max(S) \in S /\ \A m \in S : m <= Max(S)
  <1> DEFINE T == {n - m : m \in S}
  <1>1. T \in SUBSET Nat /\ T # {}
    <2>1. \A m \in S : m \in 1 .. n /\ n - m \in Nat
      OBVIOUS
    <2> QED
      BY <2>1
  <1>2. PICK m \in S : Min(T) = n - m
    BY <1>1, LeastNumber
  <1>3. ASSUME NEW k \in S PROVE k <= m
    <2>1. n - k \in T
      OBVIOUS
    <2>2. Min(T) <= n - k
      BY <1>1, <2>1, LeastNumber
    <2> HIDE DEF T
    <2> QED
      BY <1>2, <2>2
  <1> QED
    BY <1>3 DEF Max

\* Induction upwards, for sets instead of formulas.
LEMMA UpwardInduction ==
    ASSUME NEW n \in Nat, NEW K \in SUBSET (0 .. n), 0 \in K, \A k \in K : k < n => k + 1 \in K
    PROVE  K = 0 .. n
  <1>1. SUFFICES ASSUME NEW x \in 0 .. n, x \notin K PROVE FALSE
    OBVIOUS
  <1> DEFINE out == (0 .. n) \ K
  <1>2. out \in SUBSET Nat /\ out # {}
    BY <1>1
  <1>3. Min(out) \in out /\ \A m \in out : Min(out) <= m
    BY <1>2, LeastNumber
  <1>4. PICK m \in out : \A k \in out : m <= k
    BY <1>3
  <1>5. m \in 1 .. n /\ m - 1 \in 0 .. n /\ m - 1 \notin out
    BY <1>4
  <1>6. m \in K
    BY <1>5
  <1> QED
    BY <1>4, <1>6

\* Induction downwards over the positions 1 .. n.
LEMMA DownwardInduction ==
    ASSUME NEW n \in Nat, NEW K \in SUBSET (1 .. n),
           \A i \in 1 .. n : (\A j \in (i + 1) .. n : j \in K) => i \in K
    PROVE  K = 1 .. n
  <1>1. SUFFICES ASSUME NEW x \in 1 .. n, x \notin K PROVE FALSE
    OBVIOUS
  <1> DEFINE out == (1 .. n) \ K
  <1>2. out \in SUBSET (1 .. n) /\ out # {}
    BY <1>1
  <1>3. Max(out) \in out /\ \A m \in out : m <= Max(out)
    BY <1>2, GreatestNumber
  <1>4. PICK m \in out : \A k \in out : k <= m
    BY <1>3
  <1>5. \A j \in (m + 1) .. n : j \in K
    BY <1>4
  <1> QED
    BY <1>4, <1>5

\* A definition by recursion from the end: step[i][f] is what a function f has
\* at i when it is made from what f has beyond i.
IsRecursion(step, n, T) ==
    /\ step \in [1 .. n -> [[1 .. n -> T] -> T]]
    /\ \A i \in 1 .. n : \A f, g \in [1 .. n -> T] :
          (\A j \in (i + 1) .. n : f[j] = g[j]) => step[i][f] = step[i][g]

HasSolution(step, n, T) == \E f \in [1 .. n -> T] : \A i \in 1 .. n : f[i] = step[i][f]

LEMMA DownwardRecursion ==
    ASSUME NEW n \in Nat, NEW T, NEW x \in T, NEW step, IsRecursion(step, n, T)
    PROVE  HasSolution(step, n, T)
  <1> USE DEF IsRecursion, HasSolution
  <1> DEFINE Fns == [1 .. n -> T]
             K == {k \in 0 .. n : \E f \in Fns : \A i \in 1 .. n : n - k < i => f[i] = step[i][f]}
  <1>1. 0 \in K
    <2>2. [i \in 1 .. n |-> x] \in Fns
      OBVIOUS
    <2>3. 0 \in 0 .. n /\ \A i \in 1 .. n : ~ (n - 0 < i)
      OBVIOUS
    <2> QED
      BY <2>2, <2>3
  <1>2. ASSUME NEW k \in K, k < n PROVE k + 1 \in K
    <2>1. PICK f \in Fns : \A i \in 1 .. n : n - k < i => f[i] = step[i][f]
      OBVIOUS
    <2> DEFINE m == n - k
               g == [f EXCEPT ![m] = step[m][f]]
    <2>2. m \in 1 .. n
      BY <1>2
    <2>3. step[m] \in [Fns -> T]
      BY <2>2
    <2>4. g \in Fns /\ g[m] = step[m][f] /\ \A i \in 1 .. n : i # m => g[i] = f[i]
      BY <2>2, <2>3
    <2> HIDE DEF m, g, Fns
    <2>5. ASSUME NEW i \in 1 .. n, m <= i PROVE g[i] = step[i][g]
      <3>1. \A j \in (i + 1) .. n : f[j] = g[j]
        BY <2>2, <2>4, <2>5
      <3>2. step[i][f] = step[i][g]
        BY <2>1, <2>4, <3>1 DEF Fns
      <3> QED
        BY <2>1, <2>2, <2>4, <2>5, <3>2 DEF m
    <2>6. \A i \in 1 .. n : n - (k + 1) < i => m <= i
      BY <1>2 DEF m
    <2> QED
      BY <1>2, <2>4, <2>5, <2>6
  <1>3. K = 0 .. n
    <2>1. K \in SUBSET (0 .. n)
      OBVIOUS
    <2> HIDE DEF K
    <2> QED
      BY <1>1, <1>2, <2>1, UpwardInduction
  <1>4. n \in K
    <2>1. n \in 0 .. n
      OBVIOUS
    <2> QED
      BY <1>3, <2>1
  <1>5. PICK f \in Fns : \A i \in 1 .. n : n - n < i => f[i] = step[i][f]
    BY <1>4
  <1> QED
    BY <1>5
----------------------------------------------------------------------------
(* Searches. *)

LEMMA FindFinds ==
    ASSUME NEW s \in Seq(Int), NEW c, NEW i \in Nat \ {0}
    PROVE  LET j == Find(s, c, i) IN
           \/ j = 0 /\ \A k \in i .. Len(s) : s[k] # c
           \/ j \in i .. Len(s) /\ s[j] = c /\ \A k \in i .. (j - 1) : s[k] # c
  <1> DEFINE S == {k \in i .. Len(s) : s[k] = c}
  <1>1. S \in SUBSET Nat
    OBVIOUS
  <1>2. Find(s, c, i) = IF S # {} THEN Min(S) ELSE 0
    BY DEF Find, SelectInSubSeq
  <1>3. CASE S = {}
    BY <1>2, <1>3
  <1>4. CASE S # {}
    <2>1. Min(S) \in S /\ \A m \in S : Min(S) <= m
      BY <1>1, <1>4, LeastNumber
    <2>2. PICK j : j = Find(s, c, i) /\ j \in S /\ \A m \in S : j <= m
      BY <1>2, <1>4, <2>1
    <2>3. \A k \in i .. (j - 1) : s[k] # c
      BY <2>2
    <2> QED
      BY <2>2, <2>3
  <1> QED
    BY <1>3, <1>4

LEMMA SkipSpacesFinds ==
    ASSUME NEW s \in Seq(Int), NEW i \in Nat \ {0}
    PROVE  LET j == SkipSpaces(s, i) IN
           \/ j = 0 /\ \A k \in i .. Len(s) : s[k] \in Spaces
           \/ j \in i .. Len(s) /\ s[j] \notin Spaces /\ \A k \in i .. (j - 1) : s[k] \in Spaces
  <1> DEFINE S == {k \in i .. Len(s) : s[k] \notin Spaces}
  <1>1. S \in SUBSET Nat
    OBVIOUS
  <1>2. SkipSpaces(s, i) = IF S # {} THEN Min(S) ELSE 0
    BY DEF SkipSpaces, SelectInSubSeq
  <1>3. CASE S = {}
    BY <1>2, <1>3
  <1>4. CASE S # {}
    <2>1. Min(S) \in S /\ \A m \in S : Min(S) <= m
      BY <1>1, <1>4, LeastNumber
    <2>2. PICK j : j = SkipSpaces(s, i) /\ j \in S /\ \A m \in S : j <= m
      BY <1>2, <1>4, <2>1
    <2>3. \A k \in i .. (j - 1) : s[k] \in Spaces
      BY <2>2
    <2> QED
      BY <2>2, <2>3
  <1> QED
    BY <1>3, <1>4

\* A part of a text: its length and its chars.
LEMMA SubSeqIs ==
    ASSUME NEW s \in Seq(Int), NEW i \in Nat \ {0}, NEW last \in Nat, i <= last + 1, last <= Len(s)
    PROVE  /\ SubSeq(s, i, last) \in Seq(Int) /\ Len(SubSeq(s, i, last)) = (last - i) + 1
           /\ \A k \in 1 .. ((last - i) + 1) : SubSeq(s, i, last)[k] = s[(i - 1) + k]
  <1>1. \A k \in i .. last : s[k] \in Int
    OBVIOUS
  <1>2. PICK u : u = SubSeq(s, i, last)
    OBVIOUS
  <1>3. /\ u \in Seq(Int) /\ Len(u) = IF i <= last THEN last - i + 1 ELSE 0
        /\ \A k \in 1 .. last - i + 1 : u[k] = s[i + k - 1]
    BY <1>1, <1>2, SubSeqProperties
  <1>4. Len(u) = (last - i) + 1
    BY <1>3
  <1>5. ASSUME NEW k \in 1 .. ((last - i) + 1) PROVE u[k] = s[(i - 1) + k]
    <2>1. k \in 1 .. last - i + 1 /\ i + k - 1 = (i - 1) + k
      OBVIOUS
    <2> QED
      BY <1>3, <2>1
  <1> QED
    BY <1>2, <1>3, <1>4, <1>5

\* The same of a prefix.
LEMMA PrefixIs ==
    ASSUME NEW u \in Seq(Int), NEW n \in Nat, n <= Len(u)
    PROVE  /\ SubSeq(u, 1, n) \in Seq(Int) /\ Len(SubSeq(u, 1, n)) = n
           /\ \A k \in 1 .. n : SubSeq(u, 1, n)[k] = u[k]
  <1>1. PICK v : v = SubSeq(u, 1, n)
    OBVIOUS
  <1>2. 1 \in Nat \ {0} /\ 1 <= n + 1 /\ (n - 1) + 1 = n
    OBVIOUS
  <1>3. /\ v \in Seq(Int) /\ Len(v) = (n - 1) + 1
        /\ \A k \in 1 .. ((n - 1) + 1) : v[k] = u[(1 - 1) + k]
    BY <1>1, <1>2, SubSeqIs
  <1>4. ASSUME NEW k \in 1 .. n PROVE v[k] = u[k]
    <2>1. (1 - 1) + k = k
      OBVIOUS
    <2> QED
      BY <1>2, <1>3, <2>1
  <1> QED
    BY <1>1, <1>2, <1>3, <1>4

----------------------------------------------------------------------------
(* The parser of forms and cookies. *)

NameValue == [name : Seq(Int), value : Seq(Int)]
Parsed == [pairs : Seq(NameValue), overrun : BOOLEAN]

Positions(s) == 1 .. (Len(s) + 1)

\* Where the parser goes, and that it only goes forward.
LEMMA PairsSteps ==
    ASSUME NEW s \in Seq(Int), NEW sep, NEW i \in Positions(s)
    PROVE  LET first == SkipSpaces(s, i)
               eq == IF first = 0 THEN 0 ELSE Find(s, EQ, first)
               end == IF eq = 0 THEN 0 ELSE Find(s, sep, eq + 1)
           IN  /\ first = 0 \/ first \in i .. Len(s)
               /\ eq = 0 \/ (first # 0 /\ eq \in first .. Len(s))
               /\ end = 0 \/ (eq # 0 /\ end \in (eq + 1) .. Len(s) /\ s[end] = sep)
               /\ eq # 0 /\ eq # Len(s) => (IF end = 0 THEN Len(s) + 1 ELSE end + 1) \in (i + 1) .. (Len(s) + 1)
  <1> DEFINE first == SkipSpaces(s, i)
             eq == IF first = 0 THEN 0 ELSE Find(s, EQ, first)
             end == IF eq = 0 THEN 0 ELSE Find(s, sep, eq + 1)
  <1>1. i \in Nat \ {0} /\ Len(s) \in Nat
    BY DEF Positions
  <1>2. first = 0 \/ first \in i .. Len(s)
    BY <1>1, SkipSpacesFinds
  <1> HIDE DEF first
  <1>3. eq = 0 \/ (first # 0 /\ eq \in first .. Len(s))
    <2>1. CASE first = 0
      BY <2>1
    <2>2. CASE first # 0
      <3>1. first \in Nat \ {0}
        BY <1>1, <1>2, <2>2
      <3>2. Find(s, EQ, first) = 0 \/ Find(s, EQ, first) \in first .. Len(s)
        BY <3>1, FindFinds
      <3> QED
        BY <2>2, <3>2
    <2> QED
      BY <2>1, <2>2
  <1> HIDE DEF eq
  <1>4. end = 0 \/ (eq # 0 /\ end \in (eq + 1) .. Len(s) /\ s[end] = sep)
    <2>1. CASE eq = 0
      BY <2>1
    <2>2. CASE eq # 0
      <3>1. eq + 1 \in Nat \ {0}
        BY <1>1, <1>2, <1>3, <2>2
      <3>2. \/ Find(s, sep, eq + 1) = 0
            \/ Find(s, sep, eq + 1) \in (eq + 1) .. Len(s) /\ s[Find(s, sep, eq + 1)] = sep
        BY <3>1, FindFinds
      <3> QED
        BY <2>2, <3>2
    <2> QED
      BY <2>1, <2>2
  <1> HIDE DEF end
  <1>5. eq # 0 => (IF end = 0 THEN Len(s) + 1 ELSE end + 1) \in (i + 1) .. (Len(s) + 1)
    BY <1>1, <1>2, <1>3, <1>4
  <1> QED
    BY <1>2, <1>3, <1>4, <1>5 DEF first, eq, end

LEMMA PairsAtParsed ==
    ASSUME NEW s \in Seq(Int), NEW sep, NEW i \in Positions(s), NEW rest \in [Positions(s) -> Parsed]
    PROVE  PairsAt(s, sep, 1, FALSE, rest, i) \in Parsed
  <1> DEFINE first == SkipSpaces(s, i)
             eq == IF first = 0 THEN 0 ELSE Find(s, EQ, first)
             end == IF eq = 0 THEN 0 ELSE Find(s, sep, eq + 1)
             last == IF end = 0 THEN Len(s) ELSE end - 1
             next == IF end = 0 THEN Len(s) + 1 ELSE end + 1
  <1>1. PairsAt(s, sep, 1, FALSE, rest, i) =
            IF first = 0 THEN NoPairs
            ELSE IF eq = 0 THEN [pairs |-> <<>>, overrun |-> TRUE]
            ELSE IF eq = Len(s) THEN NoPairs
            ELSE [rest[next] EXCEPT !.pairs = <<Pair(s, first, eq, last)>> \o @]
    BY DEF PairsAt
  <1>2. /\ first = 0 \/ first \in i .. Len(s)
        /\ eq = 0 \/ (first # 0 /\ eq \in first .. Len(s))
        /\ end = 0 \/ (eq # 0 /\ end \in (eq + 1) .. Len(s))
        /\ eq # 0 /\ eq # Len(s) => next \in (i + 1) .. (Len(s) + 1)
    BY PairsSteps
  <1> HIDE DEF first, eq, end, next
  <1>3. NoPairs \in Parsed /\ [pairs |-> <<>>, overrun |-> TRUE] \in Parsed
    <2>1. <<>> \in Seq(NameValue)
      OBVIOUS
    <2> QED
      BY <2>1 DEF NoPairs, Parsed
  <1>4. ASSUME eq # 0, eq # Len(s)
        PROVE  [rest[next] EXCEPT !.pairs = <<Pair(s, first, eq, last)>> \o @] \in Parsed
    <2>1. next \in Positions(s)
      BY <1>2, <1>4 DEF Positions
    <2>2. rest[next] \in Parsed
      BY <2>1
    <2>3. i \in Nat /\ i >= 1 /\ Len(s) \in Nat
      BY DEF Positions
    <2>4. first \in 1 .. Len(s) /\ eq \in 1 .. Len(s) /\ last \in 1 .. Len(s)
      <3>1. eq \in first .. Len(s) /\ first \in i .. Len(s)
        BY <1>2, <1>4
      <3>2. first \in 1 .. Len(s) /\ eq \in 1 .. Len(s)
        BY <2>3, <3>1
      <3>3. end = 0 \/ end \in (eq + 1) .. Len(s)
        BY <1>2
      <3> QED
        BY <2>3, <3>2, <3>3
    <2> HIDE DEF last
    <2>5. Pair(s, first, eq, last) \in NameValue
      <3>1. SubSeq(s, first, eq - 1) \in Seq(Int) /\ SubSeq(s, eq + 1, last) \in Seq(Int)
        BY <2>4
      <3> QED
        BY <3>1 DEF Pair, NameValue
    <2>6. PICK p \in NameValue : p = Pair(s, first, eq, last)
      BY <2>5
    <2>7. PICK r \in Parsed : r = rest[next]
      BY <2>2
    <2>8. <<p>> \o r.pairs \in Seq(NameValue)
      BY DEF Parsed
    <2>9. [r EXCEPT !.pairs = <<p>> \o @] \in Parsed
      BY <2>8 DEF Parsed
    <2> QED
      BY <2>6, <2>7, <2>9
  <1> QED
    BY <1>1, <1>3, <1>4

LEMMA PairsAtLocal ==
    ASSUME NEW s \in Seq(Int), NEW sep, NEW i \in Positions(s), NEW f, NEW g,
           \A j \in (i + 1) .. (Len(s) + 1) : f[j] = g[j]
    PROVE  PairsAt(s, sep, 1, FALSE, f, i) = PairsAt(s, sep, 1, FALSE, g, i)
  <1> DEFINE first == SkipSpaces(s, i)
             eq == IF first = 0 THEN 0 ELSE Find(s, EQ, first)
             end == IF eq = 0 THEN 0 ELSE Find(s, sep, eq + 1)
             next == IF end = 0 THEN Len(s) + 1 ELSE end + 1
  <1>1. eq # 0 /\ eq # Len(s) => next \in (i + 1) .. (Len(s) + 1)
    BY PairsSteps
  <1>2. eq # 0 /\ eq # Len(s) => f[next] = g[next]
    BY <1>1
  <1> QED
    BY <1>2 DEF PairsAt

\* The parser's definition has the solution it is meant to have.
LEMMA PairsFromSolves ==
    ASSUME NEW s \in Seq(Int), NEW sep
    PROVE  LET from == PairsFrom(s, sep, 1, FALSE) IN
           /\ from \in [Positions(s) -> Parsed]
           /\ \A i \in Positions(s) : from[i] = PairsAt(s, sep, 1, FALSE, from, i)
  <1> DEFINE n == Len(s) + 1
             step == [i \in 1 .. n |-> [f \in [1 .. n -> Parsed] |-> PairsAt(s, sep, 1, FALSE, f, i)]]
             Solves(g) == g = [i \in 1 .. n |-> PairsAt(s, sep, 1, FALSE, g, i)]
  <1>1. n \in Nat /\ Positions(s) = 1 .. n
    BY DEF Positions
  <1>2. NoPairs \in Parsed
    <2>1. <<>> \in Seq(NameValue)
      OBVIOUS
    <2> QED
      BY <2>1 DEF NoPairs, Parsed
  <1>3. step \in [1 .. n -> [[1 .. n -> Parsed] -> Parsed]]
    BY <1>1, PairsAtParsed
  <1>4. \A i \in 1 .. n : \A f, g \in [1 .. n -> Parsed] :
            (\A j \in (i + 1) .. n : f[j] = g[j]) => step[i][f] = step[i][g]
    <2> TAKE i \in 1 .. n
    <2> TAKE f, g \in [1 .. n -> Parsed]
    <2> HAVE \A j \in (i + 1) .. n : f[j] = g[j]
    <2>1. PairsAt(s, sep, 1, FALSE, f, i) = PairsAt(s, sep, 1, FALSE, g, i)
      BY <1>1, PairsAtLocal
    <2>2. step[i][f] = PairsAt(s, sep, 1, FALSE, f, i) /\ step[i][g] = PairsAt(s, sep, 1, FALSE, g, i)
      OBVIOUS
    <2> QED
      BY <2>1, <2>2
  <1>5. \E f \in [1 .. n -> Parsed] : \A i \in 1 .. n : f[i] = step[i][f]
    <2>1. IsRecursion(step, n, Parsed)
      BY <1>3, <1>4 DEF IsRecursion
    <2>2. n \in Nat
      BY <1>1
    <2> HIDE DEF step, n
    <2>3. HasSolution(step, n, Parsed)
      BY <1>2, <2>1, <2>2, DownwardRecursion
    <2> QED
      BY <2>3 DEF HasSolution
  <1>6. PICK f \in [1 .. n -> Parsed] : \A i \in 1 .. n : f[i] = PairsAt(s, sep, 1, FALSE, f, i)
    BY <1>5
  <1>7. Solves(f)
    BY <1>6
  <1>8. PairsFrom(s, sep, 1, FALSE) = CHOOSE g : Solves(g)
    BY DEF PairsFrom
  <1>9. Solves(CHOOSE g : Solves(g))
    <2> HIDE DEF Solves
    <2> QED
      BY <1>7
  <1>10. PICK from : from = PairsFrom(s, sep, 1, FALSE) /\ from = [i \in 1 .. n |-> PairsAt(s, sep, 1, FALSE, from, i)]
    BY <1>8, <1>9
  <1> DEFINE K == {i \in 1 .. n : from[i] = f[i]}
  <1>11. \A i \in 1 .. n : (\A j \in (i + 1) .. n : j \in K) => i \in K
    <2> TAKE i \in 1 .. n
    <2> HAVE \A j \in (i + 1) .. n : j \in K
    <2>1. PairsAt(s, sep, 1, FALSE, from, i) = PairsAt(s, sep, 1, FALSE, f, i)
      BY <1>1, PairsAtLocal
    <2> QED
      BY <1>6, <1>10, <2>1
  <1>12. K = 1 .. n
    <2>1. K \in SUBSET (1 .. n)
      OBVIOUS
    <2> HIDE DEF K, n
    <2> QED
      BY <1>1, <1>11, <2>1, DownwardInduction
  <1>13. from = f
    BY <1>10, <1>12
  <1> QED
    BY <1>1, <1>6, <1>10, <1>13

\* What is found first is found.
LEMMA FindIs ==
    ASSUME NEW s \in Seq(Int), NEW c, NEW i \in Nat \ {0}, NEW j \in i .. Len(s),
           s[j] = c, \A k \in i .. (j - 1) : s[k] # c
    PROVE  Find(s, c, i) = j
  <1>1. PICK f : f = Find(s, c, i)
    OBVIOUS
  <1>2. \/ f = 0 /\ \A k \in i .. Len(s) : s[k] # c
        \/ f \in i .. Len(s) /\ s[f] = c /\ \A k \in i .. (f - 1) : s[k] # c
    BY <1>1, FindFinds
  <1>3. f \in i .. Len(s) /\ s[f] = c /\ \A k \in i .. (f - 1) : s[k] # c
    BY <1>2
  <1>4. ~ (f < j) /\ ~ (j < f)
    BY <1>3
  <1> QED
    BY <1>1, <1>3, <1>4

LEMMA SkipSpacesIs ==
    ASSUME NEW s \in Seq(Int), NEW i \in Nat \ {0}, NEW j \in i .. Len(s),
           s[j] \notin Spaces, \A k \in i .. (j - 1) : s[k] \in Spaces
    PROVE  SkipSpaces(s, i) = j
  <1>1. PICK f : f = SkipSpaces(s, i)
    OBVIOUS
  <1>2. \/ f = 0 /\ \A k \in i .. Len(s) : s[k] \in Spaces
        \/ f \in i .. Len(s) /\ s[f] \notin Spaces /\ \A k \in i .. (f - 1) : s[k] \in Spaces
    BY <1>1, SkipSpacesFinds
  <1>3. f \in i .. Len(s) /\ s[f] \notin Spaces /\ \A k \in i .. (f - 1) : s[k] \in Spaces
    BY <1>2
  <1>4. ~ (f < j) /\ ~ (j < f)
    BY <1>3
  <1> QED
    BY <1>1, <1>3, <1>4

\* Nothing is found in nothing.
LEMMA PairsAtEnd ==
    ASSUME NEW s \in Seq(Int), NEW sep
    PROVE  PairsFrom(s, sep, 1, FALSE)[Len(s) + 1] = NoPairs
  <1>1. Len(s) + 1 \in Positions(s) /\ Len(s) + 1 \in Nat \ {0} /\ ~ (Len(s) + 1 <= Len(s))
    BY DEF Positions
  <1>2. SkipSpaces(s, Len(s) + 1) = 0
    BY <1>1, SkipSpacesFinds
  <1>3. PairsAt(s, sep, 1, FALSE, PairsFrom(s, sep, 1, FALSE), Len(s) + 1) = NoPairs
    BY <1>2 DEF PairsAt
  <1> QED
    BY <1>1, <1>3, PairsFromSolves

LEMMA NamesOfRest ==
    ASSUME NEW p \in NameValue, NEW q \in Seq(NameValue)
    PROVE  Names(<<p>> \o q) = {p.name} \cup Names(q)
  <1> DEFINE all == <<p>> \o q
  <1>1. /\ all \in Seq(NameValue) /\ Len(all) = Len(q) + 1 /\ all[1] = p
        /\ \A j \in 1 .. Len(q) : all[j + 1] = q[j]
    OBVIOUS
  <1> HIDE DEF all
  <1>2. DOMAIN all = 1 .. (Len(q) + 1) /\ DOMAIN q = 1 .. Len(q) /\ Len(q) \in Nat
    BY <1>1
  <1>3. ASSUME NEW n \in Names(all) PROVE n \in {p.name} \cup Names(q)
    <2>1. PICK j \in 1 .. (Len(q) + 1) : n = all[j].name
      BY <1>2 DEF Names
    <2>2. CASE j = 1
      BY <1>1, <2>1, <2>2
    <2>3. CASE j # 1
      <3>1. j - 1 \in 1 .. Len(q) /\ (j - 1) + 1 = j
        BY <1>2, <2>1, <2>3
      <3>2. all[j] = q[j - 1]
        BY <1>1, <3>1
      <3> QED
        BY <1>2, <2>1, <3>1, <3>2 DEF Names
    <2> QED
      BY <2>2, <2>3
  <1>4. ASSUME NEW n \in {p.name} \cup Names(q) PROVE n \in Names(all)
    <2>1. CASE n = p.name
      <3>1. 1 \in DOMAIN all
        BY <1>2
      <3> QED
        BY <1>1, <2>1, <3>1 DEF Names
    <2>2. CASE n \in Names(q)
      <3>1. PICK j \in 1 .. Len(q) : n = q[j].name
        BY <1>2, <2>2 DEF Names
      <3>2. j + 1 \in DOMAIN all /\ all[j + 1] = q[j]
        BY <1>1, <1>2
      <3> QED
        BY <3>1, <3>2 DEF Names
    <2> QED
      BY <2>1, <2>2
  <1> QED
    BY <1>3, <1>4 DEF all

\* The pair the parser finds in s from i on: its name begins at first, its '='
\* is at eq and the separator after it at end, 0 if there is none.
FieldAt(s, sep, i, first, eq, end) ==
    /\ first \in i .. Len(s) /\ s[first] \notin Spaces /\ \A k \in i .. (first - 1) : s[k] \in Spaces
    /\ eq \in first .. (Len(s) - 1) /\ s[eq] = EQ /\ \A k \in first .. (eq - 1) : s[k] # EQ
    /\ \/ end = 0 /\ \A k \in (eq + 1) .. Len(s) : s[k] # sep
       \/ end \in (eq + 1) .. Len(s) /\ s[end] = sep /\ \A k \in (eq + 1) .. (end - 1) : s[k] # sep

\* A name begins in s at i or after the spaces there, and there is no '=' for it.
NameOverruns(s, i) ==
    \E first \in i .. Len(s) :
        /\ s[first] \notin Spaces /\ \A k \in i .. (first - 1) : s[k] \in Spaces
        /\ \A k \in first .. Len(s) : s[k] # EQ

\* There are only spaces from i on, or one name more and the '=' that ends s.
NothingLeft(s, i) ==
    \/ \A k \in i .. Len(s) : s[k] \in Spaces
    \/ i <= Len(s) /\ s[Len(s)] = EQ /\ \A k \in i .. (Len(s) - 1) : s[k] # EQ

AfterField(s, end) == IF end = 0 THEN Len(s) + 1 ELSE end + 1

FieldPair(s, first, eq, end) == Pair(s, first, eq, IF end = 0 THEN Len(s) ELSE end - 1)

\* The parser takes that pair and goes on behind it.
TakesField(s, sep, i, first, eq, end) ==
    LET from == PairsFrom(s, sep, 1, FALSE) IN
    /\ AfterField(s, end) \in (i + 1) .. (Len(s) + 1)
    /\ FieldPair(s, first, eq, end) \in NameValue
    /\ from[i].pairs = <<FieldPair(s, first, eq, end)>> \o from[AfterField(s, end)].pairs
    /\ from[i].overrun = from[AfterField(s, end)].overrun

\* Where s has that pair, the longer text w has a pair of the same name.
HasFieldOf(w, s, sep, i, first, eq, end) ==
    \E wend : /\ FieldAt(w, sep, i, first, eq, wend)
              /\ end # 0 => wend = end
              /\ FieldPair(w, first, eq, wend).name = FieldPair(s, first, eq, end).name

LEMMA FindNone ==
    ASSUME NEW s \in Seq(Int), NEW c, NEW i \in Nat \ {0}, \A k \in i .. Len(s) : s[k] # c
    PROVE  Find(s, c, i) = 0
  <1>1. PICK f : f = Find(s, c, i)
    OBVIOUS
  <1>2. \/ f = 0 /\ \A k \in i .. Len(s) : s[k] # c
        \/ f \in i .. Len(s) /\ s[f] = c /\ \A k \in i .. (f - 1) : s[k] # c
    BY <1>1, FindFinds
  <1> QED
    BY <1>1, <1>2

\* Where there is a field the parser takes it and goes on behind it.
LEMMA FieldTaken ==
    ASSUME NEW s \in Seq(Int), NEW sep, NEW i \in Positions(s), NEW first, NEW eq, NEW end,
           FieldAt(s, sep, i, first, eq, end)
    PROVE  TakesField(s, sep, i, first, eq, end)
  <1> USE DEF TakesField
  <1>1. i \in Nat \ {0} /\ Len(s) \in Nat
    BY DEF Positions
  <1>2. /\ first \in Nat \ {0} /\ first >= i /\ first <= Len(s)
        /\ eq \in Nat \ {0} /\ eq + 1 \in Nat \ {0} /\ eq >= first /\ eq < Len(s)
        /\ eq \in first .. Len(s)
        /\ end = 0 \/ end \in (eq + 1) .. Len(s)
    BY <1>1 DEF FieldAt
  <1>3. SkipSpaces(s, i) = first
    BY <1>1, SkipSpacesIs DEF FieldAt
  <1>4. Find(s, EQ, first) = eq
    BY <1>2, FindIs DEF FieldAt
  <1>5. Find(s, sep, eq + 1) = end
    <2>1. CASE end = 0
      BY <1>2, <2>1, FindNone DEF FieldAt
    <2>2. CASE end # 0
      <3>1. end \in (eq + 1) .. Len(s) /\ s[end] = sep /\ \A k \in (eq + 1) .. (end - 1) : s[k] # sep
        BY <2>2 DEF FieldAt
      <3> QED
        BY <1>2, <3>1, FindIs
    <2> QED
      BY <2>1, <2>2
  <1>6. AfterField(s, end) \in (i + 1) .. (Len(s) + 1)
    BY <1>1, <1>2 DEF AfterField
  <1>7. FieldPair(s, first, eq, end) \in NameValue
    <2> DEFINE last == IF end = 0 THEN Len(s) ELSE end - 1
    <2>1. last \in 1 .. Len(s) /\ first \in 1 .. Len(s)
      BY <1>1, <1>2
    <2> HIDE DEF last
    <2>2. SubSeq(s, first, eq - 1) \in Seq(Int) /\ SubSeq(s, eq + 1, last) \in Seq(Int)
      BY <1>1, <1>2, <2>1
    <2> QED
      BY <2>2 DEF FieldPair, Pair, NameValue, last
  <1>8. PICK from \in [Positions(s) -> Parsed] :
            from = PairsFrom(s, sep, 1, FALSE) /\ from[i] = PairsAt(s, sep, 1, FALSE, from, i)
    BY PairsFromSolves
  <1>9. PICK after \in Parsed : after = from[AfterField(s, end)]
    <2>1. AfterField(s, end) \in Positions(s)
      BY <1>1, <1>6 DEF Positions
    <2> QED
      BY <2>1
  <1>10. from[i] = [after EXCEPT !.pairs = <<FieldPair(s, first, eq, end)>> \o @]
    <2>1. first # 0 /\ eq # 0 /\ eq # Len(s)
      BY <1>1, <1>2
    <2> QED
      BY <1>3, <1>4, <1>5, <1>8, <1>9, <2>1 DEF PairsAt, FieldPair, AfterField
  <1>11. /\ from[i].pairs = <<FieldPair(s, first, eq, end)>> \o after.pairs
         /\ from[i].overrun = after.overrun
    BY <1>10 DEF Parsed
  <1> QED
    BY <1>6, <1>7, <1>8, <1>9, <1>11

\* Where the parser takes nothing there is nothing to take.
LEMMA FieldOrEnd ==
    ASSUME NEW s \in Seq(Int), NEW sep, NEW i \in Positions(s)
    PROVE  LET from == PairsFrom(s, sep, 1, FALSE) IN
           \/ from[i] = NoPairs /\ NothingLeft(s, i)
           \/ from[i] = [pairs |-> <<>>, overrun |-> TRUE] /\ NameOverruns(s, i)
           \/ \E first, eq, end : FieldAt(s, sep, i, first, eq, end)
  <1>1. i \in Nat \ {0} /\ Len(s) \in Nat
    BY DEF Positions
  <1>2. PICK from : from = PairsFrom(s, sep, 1, FALSE) /\ from[i] = PairsAt(s, sep, 1, FALSE, from, i)
    BY PairsFromSolves
  <1>3. PICK first : first = SkipSpaces(s, i)
    OBVIOUS
  <1>4. \/ first = 0 /\ \A k \in i .. Len(s) : s[k] \in Spaces
        \/ first \in i .. Len(s) /\ s[first] \notin Spaces /\ \A k \in i .. (first - 1) : s[k] \in Spaces
    BY <1>1, <1>3, SkipSpacesFinds
  <1>5. CASE first = 0
    <2>1. from[i] = NoPairs
      BY <1>2, <1>3, <1>5 DEF PairsAt
    <2>2. NothingLeft(s, i)
      <3>1. first \notin i .. Len(s)
        BY <1>1, <1>5
      <3>2. \A k \in i .. Len(s) : s[k] \in Spaces
        BY <1>4, <3>1
      <3> QED
        BY <3>2 DEF NothingLeft
    <2> QED
      BY <1>2, <2>1, <2>2
  <1>6. CASE first # 0
    <2>1. first \in Nat \ {0} /\ first \in i .. Len(s)
      BY <1>1, <1>4, <1>6
    <2>2. PICK eq : eq = Find(s, EQ, first)
      OBVIOUS
    <2>3. \/ eq = 0 /\ \A k \in first .. Len(s) : s[k] # EQ
          \/ eq \in first .. Len(s) /\ s[eq] = EQ /\ \A k \in first .. (eq - 1) : s[k] # EQ
      BY <2>1, <2>2, FindFinds
    <2>4. CASE eq = 0
      <3>1. from[i] = [pairs |-> <<>>, overrun |-> TRUE]
        BY <1>2, <1>3, <1>6, <2>2, <2>4 DEF PairsAt
      <3>2. NameOverruns(s, i)
        BY <1>4, <1>6, <2>1, <2>3, <2>4 DEF NameOverruns
      <3> QED
        BY <1>2, <3>1, <3>2
    <2>5. CASE eq # 0 /\ eq = Len(s)
      <3>1. from[i] = NoPairs
        BY <1>2, <1>3, <1>6, <2>2, <2>5 DEF PairsAt
      <3>2. i <= Len(s) /\ s[Len(s)] = EQ /\ \A k \in i .. (first - 1) : s[k] # EQ
        <4>1. EQ \notin Spaces
          BY DEF Spaces, SP, EQ
        <4>2. \A k \in i .. (first - 1) : s[k] \in Spaces
          BY <1>4, <1>6
        <4> QED
          BY <1>1, <2>1, <2>3, <2>5, <4>1, <4>2
      <3>3. \A k \in i .. (Len(s) - 1) : s[k] # EQ
        BY <1>1, <2>1, <2>3, <2>5, <3>2
      <3> QED
        BY <1>2, <3>1, <3>2, <3>3 DEF NothingLeft
    <2>6. CASE eq # 0 /\ eq # Len(s)
      <3>1. eq + 1 \in Nat \ {0} /\ eq \in first .. (Len(s) - 1)
        BY <1>1, <2>1, <2>3, <2>6
      <3>2. PICK end : end = Find(s, sep, eq + 1)
        OBVIOUS
      <3>3. \/ end = 0 /\ \A k \in (eq + 1) .. Len(s) : s[k] # sep
            \/ end \in (eq + 1) .. Len(s) /\ s[end] = sep /\ \A k \in (eq + 1) .. (end - 1) : s[k] # sep
        BY <3>1, <3>2, FindFinds
      <3>4. FieldAt(s, sep, i, first, eq, end)
        BY <1>4, <1>6, <2>3, <2>6, <3>1, <3>3 DEF FieldAt
      <3> QED
        BY <3>4
    <2> QED
      BY <2>4, <2>5, <2>6
  <1> QED
    BY <1>5, <1>6

\* A field of a text that is still growing is one of the whole, as is its name.
LEMMA FieldOfPrefix ==
    ASSUME NEW w \in Seq(Int), NEW k \in 0 .. Len(w), NEW s, s = SubSeq(w, 1, k),
           NEW sep, NEW i \in Positions(s), NEW first, NEW eq, NEW end,
           FieldAt(s, sep, i, first, eq, end)
    PROVE  HasFieldOf(w, s, sep, i, first, eq, end)
  <1> USE DEF HasFieldOf
  <1>1. s \in Seq(Int) /\ Len(s) = k /\ Len(w) \in Nat /\ k \in Nat /\ \A j \in 1 .. k : s[j] = w[j]
    OBVIOUS
  <1>2. i \in Nat \ {0}
    BY <1>1 DEF Positions
  <1>3. /\ first \in i .. k /\ s[first] \notin Spaces /\ \A j \in i .. (first - 1) : s[j] \in Spaces
        /\ eq \in first .. (k - 1) /\ s[eq] = EQ /\ \A j \in first .. (eq - 1) : s[j] # EQ
        /\ end = 0 \/ (end \in (eq + 1) .. k /\ s[end] = sep /\ \A j \in (eq + 1) .. (end - 1) : s[j] # sep)
    BY <1>1 DEF FieldAt
  <1>4. first \in i .. Len(w) /\ w[first] \notin Spaces /\ \A j \in i .. (first - 1) : w[j] \in Spaces
    BY <1>1, <1>2, <1>3
  <1>5. eq \in first .. (Len(w) - 1) /\ w[eq] = EQ /\ \A j \in first .. (eq - 1) : w[j] # EQ
    BY <1>1, <1>2, <1>3
  <1>6. eq + 1 \in Nat \ {0} /\ first \in 1 .. k /\ eq \in 1 .. k
    BY <1>1, <1>2, <1>3
  <1>7. SubSeq(w, first, eq - 1) = SubSeq(s, first, eq - 1)
    <2>1. eq - 1 \in Nat /\ first \in Nat /\ Len(w) >= eq /\ Len(s) >= eq
      BY <1>1, <1>6
    <2>2. \A j \in first .. (eq - 1) : s[j] = w[j]
      BY <1>1, <1>6
    <2> QED
      BY <1>1, <1>6, <2>1, <2>2
  <1>8. \A wend : FieldPair(w, first, eq, wend).name = FieldPair(s, first, eq, end).name
    BY <1>7 DEF FieldPair, Pair
  <1>9. CASE end # 0
    <2>1. end \in (eq + 1) .. Len(w) /\ w[end] = sep /\ \A j \in (eq + 1) .. (end - 1) : w[j] # sep
      <3>1. end \in (eq + 1) .. k /\ s[end] = sep /\ \A j \in (eq + 1) .. (end - 1) : s[j] # sep
        BY <1>3, <1>9
      <3>2. end \in (eq + 1) .. Len(w) /\ end \in 1 .. k
        BY <1>1, <1>6, <3>1
      <3>3. \A j \in (eq + 1) .. (end - 1) : j \in 1 .. k
        BY <1>1, <1>6, <3>1
      <3> QED
        BY <1>1, <3>1, <3>2, <3>3
    <2>2. FieldAt(w, sep, i, first, eq, end)
      BY <1>4, <1>5, <2>1 DEF FieldAt
    <2> QED
      BY <1>8, <2>2
  <1>10. CASE end = 0
    <2>1. PICK wend : wend = Find(w, sep, eq + 1)
      OBVIOUS
    <2>2. \/ wend = 0 /\ \A j \in (eq + 1) .. Len(w) : w[j] # sep
          \/ wend \in (eq + 1) .. Len(w) /\ w[wend] = sep /\ \A j \in (eq + 1) .. (wend - 1) : w[j] # sep
      BY <1>6, <2>1, FindFinds
    <2>3. FieldAt(w, sep, i, first, eq, wend)
      BY <1>4, <1>5, <2>2 DEF FieldAt
    <2> QED
      BY <1>8, <1>10, <2>3
  <1> QED
    BY <1>9, <1>10

\* A text that is still growing gives no name that the whole does not give.
LEMMA NamesOfPrefix ==
    ASSUME NEW w \in Seq(Int), NEW k \in 0 .. Len(w), NEW sep
    PROVE  Names(ParsePairs(SubSeq(w, 1, k), sep).pairs) \subseteq Names(ParsePairs(w, sep).pairs)
  <1>1. PICK s : s = SubSeq(w, 1, k)
    OBVIOUS
  <1>2. s \in Seq(Int) /\ Len(s) = k /\ Len(w) \in Nat /\ k \in Nat /\ k <= Len(w)
    BY <1>1
  <1>3. PICK f, g : f = PairsFrom(s, sep, 1, FALSE) /\ g = PairsFrom(w, sep, 1, FALSE)
    OBVIOUS
  <1>4. f \in [Positions(s) -> Parsed] /\ g \in [Positions(w) -> Parsed]
    BY <1>2, <1>3, PairsFromSolves
  <1>5. Positions(s) = 1 .. (k + 1) /\ Positions(s) \subseteq Positions(w)
    BY <1>2 DEF Positions
  <1>6. Names(<<>>) = {}
    BY DEF Names
  <1> DEFINE K == {i \in 1 .. (k + 1) : Names(f[i].pairs) \subseteq Names(g[i].pairs)}
  <1>7. ASSUME NEW i \in 1 .. (k + 1), \A j \in (i + 1) .. (k + 1) : j \in K
        PROVE  i \in K
    <2>1. i \in Positions(s) /\ i \in Positions(w) /\ i \in Nat
      BY <1>5
    <2>2. CASE f[i].pairs = <<>>
      BY <1>6, <2>2
    <2>3. CASE f[i].pairs # <<>>
      <3> HIDE DEF K
      <3>1. PICK first, eq, end : FieldAt(s, sep, i, first, eq, end)
        <4>1. \/ f[i] = NoPairs
              \/ f[i] = [pairs |-> <<>>, overrun |-> TRUE] /\ NameOverruns(s, i)
              \/ \E first, eq, end : FieldAt(s, sep, i, first, eq, end)
          BY <1>2, <1>3, <2>1, FieldOrEnd
        <4> QED
          BY <2>3, <4>1 DEF NoPairs
      <3>2. HasFieldOf(w, s, sep, i, first, eq, end)
        BY <1>1, <2>1, <3>1, FieldOfPrefix
      <3>3. PICK wend : /\ FieldAt(w, sep, i, first, eq, wend)
                        /\ end # 0 => wend = end
                        /\ FieldPair(w, first, eq, wend).name = FieldPair(s, first, eq, end).name
        BY <3>2 DEF HasFieldOf
      <3>4. TakesField(s, sep, i, first, eq, end) /\ TakesField(w, sep, i, first, eq, wend)
        BY <1>2, <2>1, <3>1, <3>3, FieldTaken
      <3>5. PICK p \in NameValue, q \in NameValue :
                p = FieldPair(s, first, eq, end) /\ q = FieldPair(w, first, eq, wend)
        BY <3>4 DEF TakesField
      <3>6. PICK m, n : m = AfterField(s, end) /\ n = AfterField(w, wend)
        OBVIOUS
      <3>7. m \in (i + 1) .. (k + 1) /\ f[i].pairs = <<p>> \o f[m].pairs
        BY <1>2, <1>3, <3>4, <3>5, <3>6 DEF TakesField
      <3>8. n \in (i + 1) .. (Len(w) + 1) /\ g[i].pairs = <<q>> \o g[n].pairs
        BY <1>3, <3>4, <3>5, <3>6 DEF TakesField
      <3>9. m \in Positions(s) /\ n \in Positions(w)
        BY <1>2, <2>1, <3>7, <3>8 DEF Positions
      <3>10. f[m].pairs \in Seq(NameValue) /\ g[n].pairs \in Seq(NameValue)
        BY <1>4, <3>9 DEF Parsed
      <3>11. Names(f[i].pairs) = {p.name} \cup Names(f[m].pairs) /\ Names(g[i].pairs) = {q.name} \cup Names(g[n].pairs)
        BY <3>7, <3>8, <3>10, NamesOfRest
      <3>12. Names(f[m].pairs) \subseteq Names(g[n].pairs)
        <4>1. CASE end = 0
          <5>1. m = Len(s) + 1
            BY <3>6, <4>1 DEF AfterField
          <5>2. f[m] = NoPairs
            BY <1>2, <1>3, <5>1, PairsAtEnd
          <5> QED
            BY <1>6, <5>2 DEF NoPairs
        <4>2. CASE end # 0
          <5>1. n = m
            BY <3>3, <3>6, <4>2 DEF AfterField
          <5>2. m \in K
            BY <1>7, <3>7
          <5> QED
            BY <5>1, <5>2 DEF K
        <4> QED
          BY <4>1, <4>2
      <3> QED
        BY <3>3, <3>5, <3>11, <3>12 DEF K
    <2> QED
      BY <2>2, <2>3
  <1>8. K = 1 .. (k + 1)
    <2>1. K \in SUBSET (1 .. (k + 1)) /\ k + 1 \in Nat
      BY <1>2
    <2> HIDE DEF K
    <2> QED
      BY <1>7, <2>1, DownwardInduction
  <1>9. 1 \in K
    <2>1. 1 \in 1 .. (k + 1)
      BY <1>2
    <2> QED
      BY <1>8, <2>1
  <1> QED
    BY <1>1, <1>3, <1>9 DEF ParsePairs, PairsBy

\* The parser leaves the text only from a field without a '='.
LEMMA OverrunSomewhere ==
    ASSUME NEW s \in Seq(Int), NEW sep, ParsePairs(s, sep).overrun
    PROVE  \E i \in 1 .. Len(s) : (i = 1 \/ s[i - 1] = sep) /\ NameOverruns(s, i)
  <1> DEFINE n == Len(s) + 1
             Begins(i) == i = 1 \/ i = n \/ s[i - 1] = sep
             Somewhere == \E i \in 1 .. Len(s) : (i = 1 \/ s[i - 1] = sep) /\ NameOverruns(s, i)
  <1>1. PICK from : from = PairsFrom(s, sep, 1, FALSE)
    OBVIOUS
  <1>2. n \in Nat /\ Len(s) \in Nat /\ Positions(s) = 1 .. n
    BY DEF Positions
  <1>3. from[n] = NoPairs
    BY <1>1, PairsAtEnd
  <1> DEFINE K == {i \in 1 .. n : from[i].overrun = TRUE /\ Begins(i) => Somewhere}
  <1>4. ASSUME NEW i \in 1 .. n, \A j \in (i + 1) .. n : j \in K
        PROVE  i \in K
    <2> SUFFICES ASSUME from[i].overrun = TRUE, Begins(i) PROVE Somewhere
      OBVIOUS
    <2> HIDE DEF K, Somewhere
    <2>1. i \in Positions(s) /\ from[i] # NoPairs /\ i # n
      BY <1>2, <1>3 DEF NoPairs
    <2>2. NameOverruns(s, i) \/ \E first, eq, end : FieldAt(s, sep, i, first, eq, end)
      <3>1. \/ from[i] = NoPairs
            \/ from[i] = [pairs |-> <<>>, overrun |-> TRUE] /\ NameOverruns(s, i)
            \/ \E first, eq, end : FieldAt(s, sep, i, first, eq, end)
        BY <1>1, <2>1, FieldOrEnd
      <3> QED
        BY <2>1, <3>1
    <2>3. CASE NameOverruns(s, i)
      <3>1. i \in 1 .. Len(s) /\ (i = 1 \/ s[i - 1] = sep)
        BY <1>2, <2>1
      <3> QED
        BY <2>3, <3>1 DEF Somewhere
    <2>4. CASE \E first, eq, end : FieldAt(s, sep, i, first, eq, end)
      <3>1. PICK first, eq, end : FieldAt(s, sep, i, first, eq, end)
        BY <2>4
      <3>2. TakesField(s, sep, i, first, eq, end)
        BY <2>1, <3>1, FieldTaken
      <3>3. PICK m : m = AfterField(s, end)
        OBVIOUS
      <3>4. m \in (i + 1) .. n /\ from[m].overrun = TRUE
        BY <1>1, <3>2, <3>3 DEF TakesField
      <3>5. Begins(m)
        <4>1. end = 0 \/ (end \in Nat /\ s[end] = sep)
          BY <1>2, <3>1 DEF FieldAt
        <4> QED
          BY <1>2, <3>3, <4>1 DEF AfterField
      <3>6. m \in K
        BY <1>4, <3>4
      <3> QED
        BY <3>4, <3>5, <3>6 DEF K
    <2> QED
      BY <2>2, <2>3, <2>4
  <1>5. K = 1 .. n
    <2>1. K \in SUBSET (1 .. n)
      OBVIOUS
    <2> HIDE DEF K, n
    <2> QED
      BY <1>2, <1>4, <2>1, DownwardInduction
  <1>6. 1 \in K
    BY <1>2, <1>5
  <1>7. from[1].overrun = TRUE
    <2>1. from[1] \in Parsed
      <3>1. from \in [Positions(s) -> Parsed]
        BY <1>1, PairsFromSolves
      <3>2. 1 \in Positions(s)
        BY DEF Positions
      <3> QED
        BY <3>1, <3>2
    <2> QED
      BY <1>1, <2>1 DEF ParsePairs, PairsBy, Parsed
  <1> QED
    BY <1>6, <1>7
----------------------------------------------------------------------------
(* Forms, cookies and what is put into a dictionary. *)

LEMMA ParsePairsParsed ==
    ASSUME NEW s \in Seq(Int), NEW sep
    PROVE  ParsePairs(s, sep) \in Parsed
  <1>1. 1 \in Positions(s)
    BY DEF Positions
  <1>2. PairsFrom(s, sep, 1, FALSE) \in [Positions(s) -> Parsed]
    BY PairsFromSolves
  <1> QED
    BY <1>1, <1>2 DEF ParsePairs, PairsBy

\* Unescaping the values changes neither the names nor the fault.
LEMMA FormIsPairs ==
    ASSUME NEW s \in Seq(Int)
    PROVE  /\ DOMAIN ParseForm(s).pairs = DOMAIN ParsePairs(s, AMP).pairs
           /\ Names(ParseForm(s).pairs) = Names(ParsePairs(s, AMP).pairs)
           /\ ParseForm(s).overrun = ParsePairs(s, AMP).overrun
  <1>1. PICK p \in Parsed : p = ParsePairs(s, AMP)
    BY ParsePairsParsed
  <1>2. PICK q : q = [i \in DOMAIN p.pairs |-> [p.pairs[i] EXCEPT !.value = UrlDecode(@)]]
    OBVIOUS
  <1>3. ParseForm(s) = [pairs |-> q, overrun |-> p.overrun]
    BY <1>1, <1>2 DEF ParseForm
  <1>4. ParseForm(s).pairs = q /\ ParseForm(s).overrun = p.overrun
    BY <1>3
  <1>5. DOMAIN q = DOMAIN p.pairs
    BY <1>2
  <1>6. \A i \in DOMAIN p.pairs : q[i].name = p.pairs[i].name
    <2> TAKE i \in DOMAIN p.pairs
    <2>1. p.pairs[i] \in NameValue
      <3>1. PICK r \in Seq(NameValue) : r = p.pairs
        BY DEF Parsed
      <3>2. r[i] \in NameValue
        BY <3>1
      <3> QED
        BY <3>1, <3>2
    <2>2. PICK v \in NameValue : v = p.pairs[i]
      BY <2>1
    <2>3. q[i] = [v EXCEPT !.value = UrlDecode(@)]
      BY <1>2, <2>2
    <2> QED
      BY <2>2, <2>3 DEF NameValue
  <1>7. Names(q) = Names(p.pairs)
    BY <1>5, <1>6 DEF Names
  <1> QED
    BY <1>1, <1>4, <1>5, <1>7

\* A dictionary forgets what was put into it under names that are put again.
LEMMA PutAgain ==
    ASSUME NEW d, NEW p, NEW q, Names(p) \subseteq Names(q)
    PROVE  PutAll(PutAll(d, p), q) = PutAll(d, q)
  <1> DEFINE e == PutAll(d, p)
             Value(n) == q[Max({i \in DOMAIN q : q[i].name = n})].value
  <1>1. DOMAIN e = DOMAIN d \cup Names(p) /\ \A n \in DOMAIN d : n \notin Names(p) => e[n] = d[n]
    BY DEF PutAll
  <1>2. PutAll(e, q) = [n \in DOMAIN e \cup Names(q) |-> IF n \in Names(q) THEN Value(n) ELSE e[n]]
    BY DEF PutAll
  <1>3. PutAll(d, q) = [n \in DOMAIN d \cup Names(q) |-> IF n \in Names(q) THEN Value(n) ELSE d[n]]
    BY DEF PutAll
  <1> HIDE DEF e, Value
  <1>4. DOMAIN e \cup Names(q) = DOMAIN d \cup Names(q)
    BY <1>1
  <1>5. \A n \in DOMAIN d \cup Names(q) : n \notin Names(q) => e[n] = d[n]
    BY <1>1
  <1>6. PutAll(e, q) = PutAll(d, q)
    BY <1>2, <1>3, <1>4, <1>5
  <1> QED
    BY <1>6 DEF e

LEMMA PutNothing ==
    ASSUME NEW p, DOMAIN p = {}
    PROVE  PutAll([n \in {} |-> <<>>], p) = [n \in {} |-> <<>>]
  <1>1. Names(p) = {}
    BY DEF Names
  <1> QED
    BY <1>1 DEF PutAll

\* One more name is added to a dictionary, or has its value replaced.
PutsOne(d, a, v) ==
    PutAll(d, <<[name |-> a, value |-> v]>>) = [n \in DOMAIN d \cup {a} |-> IF n = a THEN v ELSE d[n]]

LEMMA PutOne ==
    ASSUME NEW d, NEW a, NEW v
    PROVE  PutsOne(d, a, v)
  <1>1. PICK p : p = <<[name |-> a, value |-> v]>>
    OBVIOUS
  <1>2. DOMAIN p = {1} /\ p[1].name = a /\ p[1].value = v
    BY <1>1
  <1>3. Names(p) = {a}
    BY <1>2 DEF Names
  <1>4. {i \in DOMAIN p : p[i].name = a} = {1}
    BY <1>2
  <1>5. Max({1}) = 1
    <2>1. {1} \in SUBSET (1 .. 1) /\ {1} # {} /\ 1 \in Nat
      OBVIOUS
    <2> QED
      BY <2>1, GreatestNumber
  <1>6. PutAll(d, p) = [n \in DOMAIN d \cup {a} |-> IF n = a THEN v ELSE d[n]]
    BY <1>2, <1>3, <1>4, <1>5 DEF PutAll
  <1> QED
    BY <1>1, <1>6 DEF PutsOne
----------------------------------------------------------------------------
(* The best match. *)

\* A router is mounted at a prefix of url that ends at a '/' or is all of it.
Matches(r, url) ==
    r.type # "custom" /\ \E i \in DOMAIN url : (url[i] = SLASH \/ i = Len(url)) /\ r.mount = SubSeq(url, 1, i)

LEMMA MountedAtFinds ==
    ASSUME NEW list, NEW n \in Nat, DOMAIN list = 1 .. n, NEW where
    PROVE  LET found == MountedAt(list, where) IN
           \/ /\ found = 0
              /\ \A j \in DOMAIN list : list[j].type = "custom" \/ list[j].mount # where
           \/ /\ found \in DOMAIN list /\ list[found].type # "custom" /\ list[found].mount = where
              /\ \A j \in DOMAIN list : list[j].type # "custom" /\ list[j].mount = where => found <= j
  <1> DEFINE mounted == {j \in DOMAIN list : list[j].type # "custom" /\ list[j].mount = where}
  <1>1. mounted \in SUBSET Nat
    OBVIOUS
  <1> QED
    BY <1>1, LeastNumber DEF MountedAt

\* BestRouter is 0 if no router matches.  Otherwise it is the first of those
\* with the longest mount point among them.
LEMMA BestRouterMatches ==
    ASSUME NEW R, NEW list \in Seq(R), NEW url \in Seq(Int)
    PROVE  LET best == BestRouter(list, url) IN
           /\ best = 0 <=> \A j \in DOMAIN list : ~ Matches(list[j], url)
           /\ best # 0 => /\ best \in DOMAIN list /\ Matches(list[best], url)
                          /\ \A j \in DOMAIN list : Matches(list[j], url) =>
                                \/ Len(list[j].mount) < Len(list[best].mount)
                                \/ list[j].mount = list[best].mount /\ best <= j
  <1> DEFINE best == BestRouter(list, url)
             cuts == Cuts(list, url)
  <1>1. /\ DOMAIN list = 1 .. Len(list) /\ Len(list) \in Nat
        /\ DOMAIN url = 1 .. Len(url) /\ Len(url) \in Nat
    OBVIOUS
  <1>2. cuts \in SUBSET (1 .. Len(url))
    BY <1>1 DEF Cuts
  <1>3. ASSUME NEW j \in DOMAIN list, Matches(list[j], url)
        PROVE  \E i \in cuts : list[j].mount = SubSeq(url, 1, i) /\ list[j].type # "custom"
    <2>1. PICK i \in DOMAIN url : (url[i] = SLASH \/ i = Len(url)) /\ list[j].mount = SubSeq(url, 1, i)
      BY <1>3 DEF Matches
    <2>2. list[j].type # "custom"
      BY <1>3 DEF Matches
    <2>3. MountedAt(list, SubSeq(url, 1, i)) # 0
      <3> DEFINE where == SubSeq(url, 1, i)
      <3>1. list[j].mount = where
        BY <2>1
      <3> HIDE DEF where
      <3>2. \/ MountedAt(list, where) = 0 /\ (list[j].type = "custom" \/ list[j].mount # where)
            \/ MountedAt(list, where) \in 1 .. Len(list)
        BY <1>1, MountedAtFinds
      <3>3. MountedAt(list, where) # 0
        BY <2>2, <3>1, <3>2, <1>1
      <3> QED
        BY <3>3 DEF where
    <2> QED
      BY <2>1, <2>2, <2>3 DEF Cuts
  <1>4. CASE cuts = {}
    BY <1>3, <1>4 DEF BestRouter
  <1>5. CASE cuts # {}
    <2> DEFINE i == Max(cuts)
    <2>1. i \in cuts /\ \A k \in cuts : k <= i
      BY <1>1, <1>2, <1>5, GreatestNumber
    <2>2. best = MountedAt(list, SubSeq(url, 1, i))
      BY <1>5 DEF BestRouter
    <2> HIDE DEF i, cuts
    <2>3. i \in DOMAIN url /\ (url[i] = SLASH \/ i = Len(url)) /\ MountedAt(list, SubSeq(url, 1, i)) # 0
      BY <2>1 DEF cuts, Cuts
    <2> HIDE DEF best
    <2>4. /\ best # 0 /\ best \in DOMAIN list
          /\ list[best].type # "custom" /\ list[best].mount = SubSeq(url, 1, i)
          /\ \A j \in DOMAIN list : list[j].type # "custom" /\ list[j].mount = SubSeq(url, 1, i) => best <= j
      BY <1>1, <2>2, <2>3, MountedAtFinds
    <2>5. Matches(list[best], url)
      BY <2>3, <2>4 DEF Matches
    <2>6. ASSUME NEW j \in DOMAIN list, Matches(list[j], url)
          PROVE  \/ Len(list[j].mount) < Len(list[best].mount)
                 \/ list[j].mount = list[best].mount /\ best <= j
      <3>1. PICK k \in cuts : list[j].mount = SubSeq(url, 1, k) /\ list[j].type # "custom"
        BY <1>3, <2>6
      <3>2. k \in 1 .. Len(url) /\ i \in 1 .. Len(url) /\ k <= i
        BY <1>1, <1>2, <2>1, <2>3, <3>1
      <3>3. Len(SubSeq(url, 1, k)) = k /\ Len(SubSeq(url, 1, i)) = i
        BY <3>2, <1>1
      <3> QED
        BY <2>4, <3>1, <3>2, <3>3
    <2> USE DEF best
    <2> QED
      BY <2>4, <2>5, <2>6
  <1> QED
    BY <1>4, <1>5

\* A mount point without a '?' that the URL begins with, begins its path.
LEMMA MountBeginsPath ==
    ASSUME NEW url \in Seq(Int), NEW i \in DOMAIN url, ~ Contains(SubSeq(url, 1, i), QM)
    PROVE  StrStr(Path(url), SubSeq(url, 1, i)) = 1
  <1> DEFINE mount == SubSeq(url, 1, i)
             path == Path(url)
             marks == {k \in 1 .. Len(url) : url[k] = QM}
             starts == {k \in DOMAIN path : IsPrefix(mount, SubSeq(path, k, Len(path)))}
  <1>1. /\ Len(url) \in Nat /\ DOMAIN url = 1 .. Len(url) /\ i \in 1 .. Len(url)
        /\ mount \in Seq(Int) /\ Len(mount) = i /\ \A k \in 1 .. i : mount[k] = url[k]
    OBVIOUS
  <1>2. \A k \in 1 .. i : url[k] # QM
    BY <1>1 DEF Contains
  <1>3. path \in Seq(Int) /\ i <= Len(path) /\ \A k \in 1 .. i : path[k] = url[k]
    <2>1. CASE marks = {}
      BY <1>1, <2>1 DEF Path, Find, SelectInSubSeq
    <2>2. CASE marks # {}
      <3>1. marks \in SUBSET Nat
        BY <1>1
      <3>2. Min(marks) \in marks
        BY <2>2, <3>1, LeastNumber
      <3>3. Find(url, QM, 1) = Min(marks)
        BY <2>2 DEF Find, SelectInSubSeq
      <3> DEFINE q == Min(marks)
      <3>4. q \in 1 .. Len(url) /\ url[q] = QM
        BY <3>2
      <3> HIDE DEF q
      <3>5. Find(url, QM, 1) = q /\ q # 0
        BY <1>1, <3>3, <3>4 DEF q
      <3>6. path = SubSeq(url, 1, q - 1)
        BY <3>5 DEF Path
      <3> HIDE DEF path, marks, mount
      <3>7. i <= q - 1
        BY <1>1, <1>2, <3>4
      <3> QED
        BY <1>1, <3>4, <3>6, <3>7
    <2> QED
      BY <2>1, <2>2
  <1> HIDE DEF path, mount
  <1>4. SubSeq(path, 1, Len(path)) = path
    BY <1>3
  <1>5. SubSeq(path, 1, i) = mount /\ SubSeq(mount, 1, i) = mount
    BY <1>1, <1>3
  <1>6. 1 \in starts
    BY <1>1, <1>3, <1>4, <1>5 DEF IsPrefix
  <1>7. starts \in SUBSET Nat /\ \A k \in starts : 1 <= k
    BY <1>3
  <1>8. Min(starts) = 1
    <2>1. Min(starts) \in starts /\ Min(starts) <= 1
      BY <1>6, <1>7, LeastNumber
    <2> QED
      BY <1>7, <2>1
  <1> QED
    BY <1>6, <1>8 DEF StrStr, path, mount

\* A mount point that ends with '/' matches exactly if the URL begins with it.
LEMMA MatchesIsPrefix ==
    ASSUME NEW r, r.type # "custom", r.mount \in Seq(Int), r.mount # <<>>, Last(r.mount) = SLASH,
           NEW url \in Seq(Int)
    PROVE  Matches(r, url) <=> IsPrefix(r.mount, url)
  <1> DEFINE mount == r.mount
             n == Len(mount)
  <1>1. n \in 1 .. n /\ mount[n] = SLASH /\ n \in Nat /\ DOMAIN url = 1 .. Len(url) /\ Len(url) \in Nat
        /\ mount \in Seq(Int)
    BY DEF Last
  <1> HIDE DEF mount
  <1>2. SubSeq(mount, 1, n) = mount
    BY <1>1
  <1>3. ASSUME IsPrefix(mount, url) PROVE Matches(r, url)
    <2>1. n \in DOMAIN url /\ mount = SubSeq(url, 1, n)
      BY <1>1, <1>2, <1>3 DEF IsPrefix
    <2>2. SubSeq(url, 1, n)[n] = url[n]
      BY <1>1, <2>1
    <2> QED
      BY <1>1, <2>1, <2>2 DEF Matches, mount
  <1>4. ASSUME Matches(r, url) PROVE IsPrefix(mount, url)
    <2>1. PICK i \in DOMAIN url : mount = SubSeq(url, 1, i)
      BY <1>4 DEF Matches, mount
    <2>2. n = i /\ n <= Len(url)
      BY <1>1, <2>1
    <2> QED
      BY <1>2, <2>1, <2>2 DEF IsPrefix
  <1> QED
    BY <1>3, <1>4 DEF mount

\* Of the routers in the list that are mounted at what url starts with, best is
\* the one with the longest mount point, the earliest that is mounted there; it
\* is 0 if there are none.
LongestOf(list, url, best) ==
    LET prefixing == {j \in DOMAIN list : list[j].type # "custom" /\ IsPrefix(list[j].mount, url)}
    IN  /\ best = 0 <=> prefixing = {}
        /\ best # 0 => /\ best \in prefixing
                       /\ ~ Contains(list[best].mount, QM) => StrStr(Path(url), list[best].mount) = 1
                       /\ \A j \in prefixing :
                             \/ Len(list[j].mount) < Len(list[best].mount)
                             \/ list[j].mount = list[best].mount /\ best <= j

LEMMA LongestMatch ==
    ASSUME NEW R, NEW list \in Seq(R), NEW url \in Seq(Int),
           \A r \in R : r.type # "custom" => r.mount \in Seq(Int) /\ r.mount # <<>> /\ Last(r.mount) = SLASH
    PROVE  LongestOf(list, url, BestRouter(list, url))
  <1>2. \A j \in DOMAIN list : list[j] \in R
    OBVIOUS
  <1>3. \A j \in DOMAIN list : Matches(list[j], url) <=> list[j].type # "custom" /\ IsPrefix(list[j].mount, url)
    <2> TAKE j \in DOMAIN list
    <2>1. CASE list[j].type = "custom"
      BY <2>1 DEF Matches
    <2>2. CASE list[j].type # "custom"
      BY <1>2, <2>2, MatchesIsPrefix
    <2> QED
      BY <2>1, <2>2
  <1>4. ASSUME BestRouter(list, url) # 0, ~ Contains(list[BestRouter(list, url)].mount, QM)
        PROVE  StrStr(Path(url), list[BestRouter(list, url)].mount) = 1
    <2>1. Matches(list[BestRouter(list, url)], url)
      BY <1>4, BestRouterMatches
    <2> QED
      BY <1>4, <2>1, MountBeginsPath DEF Matches
  <1> QED
    BY <1>3, <1>4, BestRouterMatches DEF LongestOf

----------------------------------------------------------------------------
(* URL escapes. *)

\* Two digits make up a char again.
LEMMA LowBits ==
    ASSUME NEW b \in 0 .. 15
    PROVE  /\ b = 8 * ((b \div 8) % 2) + 4 * ((b \div 4) % 2) + 2 * ((b \div 2) % 2) + ((b \div 1) % 2)
           /\ \A w \in {16, 32, 64, 128} : (b \div w) % 2 = 0
  OBVIOUS

LEMMA HighBits ==
    ASSUME NEW a \in 0 .. 7
    PROVE  /\ a = 4 * (((16 * a) \div 64) % 2) + 2 * (((16 * a) \div 32) % 2) + (((16 * a) \div 16) % 2)
           /\ \A w \in {1, 2, 4, 8, 128} : ((16 * a) \div w) % 2 = 0
  OBVIOUS

\* A digit is read as the number it was written for.
LEMMA DigitsBack ==
    ASSUME NEW n \in 0 .. 15
    PROVE  FromHex(HexCode(n)) = n
  BY DEF FromHex, HexCode, Digits, Lower

LEMMA EscapeBack ==
    ASSUME NEW c \in 1 .. 127
    PROVE  Char(BitOr(16 * FromHex(HexCode(c \div 16)), FromHex(HexCode(c % 16)))) = c
  <1>1. c \div 16 \in 0 .. 7 /\ c % 16 \in 0 .. 15 /\ c = 16 * (c \div 16) + (c % 16)
    OBVIOUS
  <1>2. PICK a \in 0 .. 7, b \in 0 .. 15 : a = c \div 16 /\ b = c % 16 /\ c = 16 * a + b
    BY <1>1
  <1>3. FromHex(HexCode(c \div 16)) = a /\ FromHex(HexCode(c % 16)) = b
    BY <1>2, DigitsBack
  <1> DEFINE A(w) == ((16 * a) \div w) % 2
             B(w) == (b \div w) % 2
             Bit(w) == IF A(w) = 1 \/ B(w) = 1 THEN w ELSE 0
  <1>4. /\ a = 4 * A(64) + 2 * A(32) + A(16) /\ A(1) = 0 /\ A(2) = 0 /\ A(4) = 0 /\ A(8) = 0 /\ A(128) = 0
        /\ b = 8 * B(8) + 4 * B(4) + 2 * B(2) + B(1) /\ B(16) = 0 /\ B(32) = 0 /\ B(64) = 0 /\ B(128) = 0
    BY LowBits, HighBits
  <1>5. \A w \in {1, 2, 4, 8, 16, 32, 64, 128} : A(w) \in {0, 1} /\ B(w) \in {0, 1}
    OBVIOUS
  <1>6. BitOr(16 * a, b) = Bit(1) + Bit(2) + Bit(4) + Bit(8) + Bit(16) + Bit(32) + Bit(64) + Bit(128)
    BY DEF BitOr
  <1> HIDE DEF A, B
  <1>7. Bit(1) = B(1) /\ Bit(2) = 2 * B(2) /\ Bit(4) = 4 * B(4) /\ Bit(8) = 8 * B(8) /\ Bit(16) = 16 * A(16)
    BY <1>4, <1>5
  <1>8. Bit(32) = 32 * A(32) /\ Bit(64) = 64 * A(64) /\ Bit(128) = 0
    BY <1>4, <1>5
  <1> HIDE DEF Bit
  <1>9. BitOr(16 * a, b) = c
    <2>1. A(16) \in {0, 1} /\ A(32) \in {0, 1} /\ A(64) \in {0, 1}
      BY <1>5
    <2>2. B(1) \in {0, 1} /\ B(2) \in {0, 1} /\ B(4) \in {0, 1} /\ B(8) \in {0, 1}
      BY <1>5
    <2> QED
      BY <1>2, <1>4, <1>6, <1>7, <1>8, <2>1, <2>2
  <1>10. Char(c) = c
    BY DEF Char
  <1> QED
    BY <1>3, <1>9, <1>10

\* guava_url_decode goes forward in chars.
LEMMA DecodeAtTyped ==
    ASSUME NEW s \in Seq(Int), NEW plus \in Int, NEW i \in Positions(s), NEW rest \in [Positions(s) -> Seq(Int)]
    PROVE  DecodeAt(s, plus, rest, i) \in Seq(Int)
  <1>1. i \in Nat \ {0} /\ Len(s) \in Nat
    BY DEF Positions
  <1>2. CASE i > Len(s)
    <2>1. DecodeAt(s, plus, rest, i) = <<>> /\ <<>> \in Seq(Int)
      BY <1>2 DEF DecodeAt
    <2> QED
      BY <2>1
  <1>3. CASE ~ (i > Len(s)) /\ s[i] # PCT
    <2>1. i + 1 \in Positions(s) /\ s[i] \in Int
      BY <1>1, <1>3 DEF Positions
    <2>2. PICK r \in Seq(Int) : r = rest[i + 1]
      BY <2>1
    <2>3. PICK x \in Int : x = IF s[i] = PLUS THEN plus ELSE s[i]
      BY <2>1
    <2>4. DecodeAt(s, plus, rest, i) = <<x>> \o r
      BY <1>3, <2>2, <2>3 DEF DecodeAt
    <2> QED
      BY <2>4
  <1>4. CASE ~ (i > Len(s)) /\ s[i] = PCT /\ i + 2 <= Len(s)
    <2>1. i + 3 \in Positions(s)
      BY <1>1, <1>4 DEF Positions
    <2>2. PICK r \in Seq(Int) : r = rest[i + 3]
      BY <2>1
    <2>3. PICK x : x = BitOr(16 * FromHex(s[i + 1]), FromHex(s[i + 2]))
      OBVIOUS
    <2>4. x \in Int
      <3> DEFINE u == 16 * FromHex(s[i + 1])
                 v == FromHex(s[i + 2])
      <3>1. BitOr(u, v) \in Int
        <4> HIDE DEF u, v
        <4> QED
          BY DEF BitOr
      <3> QED
        BY <2>3, <3>1
    <2>5. Char(x) \in Int
      BY <2>4 DEF Char
    <2>6. DecodeAt(s, plus, rest, i) = <<Char(x)>> \o r
      BY <1>4, <2>2, <2>3 DEF DecodeAt
    <2>7. PICK y \in Int : y = Char(x)
      BY <2>5
    <2>8. <<y>> \o r \in Seq(Int)
      OBVIOUS
    <2> QED
      BY <2>6, <2>7, <2>8
  <1>5. CASE ~ (i > Len(s)) /\ s[i] = PCT /\ ~ (i + 2 <= Len(s))
    <2>1. i + 1 \in Positions(s)
      BY <1>1, <1>5 DEF Positions
    <2>2. DecodeAt(s, plus, rest, i) = rest[i + 1]
      BY <1>5 DEF DecodeAt
    <2> QED
      BY <2>1, <2>2
  <1> QED
    BY <1>2, <1>3, <1>4, <1>5

LEMMA DecodeAtLocal ==
    ASSUME NEW s \in Seq(Int), NEW plus, NEW i \in Positions(s), NEW f, NEW g,
           \A j \in (i + 1) .. (Len(s) + 1) : f[j] = g[j]
    PROVE  DecodeAt(s, plus, f, i) = DecodeAt(s, plus, g, i)
  <1>1. i \in Nat \ {0} /\ Len(s) \in Nat
    BY DEF Positions
  <1>2. i <= Len(s) => f[i + 1] = g[i + 1]
    BY <1>1
  <1>3. i + 2 <= Len(s) => f[i + 3] = g[i + 3]
    BY <1>1
  <1> QED
    BY <1>1, <1>2, <1>3 DEF DecodeAt

\* The definition has the solution it is meant to have.
LEMMA DecodeFromSolves ==
    ASSUME NEW s \in Seq(Int), NEW plus \in Int
    PROVE  LET from == DecodeFrom(s, plus) IN
           /\ from \in [Positions(s) -> Seq(Int)]
           /\ \A i \in Positions(s) : from[i] = DecodeAt(s, plus, from, i)
  <1> DEFINE n == Len(s) + 1
             T == Seq(Int)
             step == [i \in 1 .. n |-> [f \in [1 .. n -> T] |-> DecodeAt(s, plus, f, i)]]
             Solves(g) == g = [i \in 1 .. n |-> DecodeAt(s, plus, g, i)]
  <1>1. n \in Nat /\ Positions(s) = 1 .. n
    BY DEF Positions
  <1>2. <<>> \in T
    OBVIOUS
  <1>3. step \in [1 .. n -> [[1 .. n -> T] -> T]]
    BY <1>1, DecodeAtTyped
  <1>4. \A i \in 1 .. n : \A f, g \in [1 .. n -> T] :
            (\A j \in (i + 1) .. n : f[j] = g[j]) => step[i][f] = step[i][g]
    <2> TAKE i \in 1 .. n
    <2> TAKE f, g \in [1 .. n -> T]
    <2> HAVE \A j \in (i + 1) .. n : f[j] = g[j]
    <2>1. DecodeAt(s, plus, f, i) = DecodeAt(s, plus, g, i)
      BY <1>1, DecodeAtLocal
    <2>2. step[i][f] = DecodeAt(s, plus, f, i) /\ step[i][g] = DecodeAt(s, plus, g, i)
      OBVIOUS
    <2> QED
      BY <2>1, <2>2
  <1>5. \E f \in [1 .. n -> T] : \A i \in 1 .. n : f[i] = step[i][f]
    <2>1. IsRecursion(step, n, T)
      BY <1>3, <1>4 DEF IsRecursion
    <2>2. n \in Nat
      BY <1>1
    <2> HIDE DEF step, n, T
    <2>3. HasSolution(step, n, T)
      BY <1>2, <2>1, <2>2, DownwardRecursion
    <2> QED
      BY <2>3 DEF HasSolution
  <1>6. PICK f \in [1 .. n -> T] : \A i \in 1 .. n : f[i] = DecodeAt(s, plus, f, i)
    BY <1>5
  <1>7. Solves(f)
    BY <1>6
  <1>8. DecodeFrom(s, plus) = CHOOSE g : Solves(g)
    BY DEF DecodeFrom
  <1>9. Solves(CHOOSE g : Solves(g))
    <2> HIDE DEF Solves
    <2> QED
      BY <1>7
  <1>10. PICK from : from = DecodeFrom(s, plus) /\ from = [i \in 1 .. n |-> DecodeAt(s, plus, from, i)]
    BY <1>8, <1>9
  <1> DEFINE K == {i \in 1 .. n : from[i] = f[i]}
  <1>11. \A i \in 1 .. n : (\A j \in (i + 1) .. n : j \in K) => i \in K
    <2> TAKE i \in 1 .. n
    <2> HAVE \A j \in (i + 1) .. n : j \in K
    <2>1. DecodeAt(s, plus, from, i) = DecodeAt(s, plus, f, i)
      BY <1>1, DecodeAtLocal
    <2> QED
      BY <1>6, <1>10, <2>1
  <1>12. K = 1 .. n
    <2>1. K \in SUBSET (1 .. n)
      OBVIOUS
    <2> HIDE DEF K, n
    <2> QED
      BY <1>1, <1>11, <2>1, DownwardInduction
  <1>13. from = f
    BY <1>10, <1>12
  <1> QED
    BY <1>1, <1>6, <1>10, <1>13

\* A char is written as itself, as a plus or as a percent sign and two digits.
LEMMA EscapedIs ==
    ASSUME NEW c \in Int
    PROVE  Escaped(c) \in Seq(Int)
  <1>1. HexCode(c \div 16) \in Int /\ HexCode(c % 16) \in Int
    BY DEF HexCode
  <1> QED
    BY <1>1 DEF Escaped, PCT, PLUS

LEMMA EncodeAtTyped ==
    ASSUME NEW s \in Seq(Int), NEW i \in Positions(s), NEW rest \in [Positions(s) -> Seq(Int)]
    PROVE  EncodeAt(s, rest, i) \in Seq(Int)
  <1>1. i \in Nat \ {0} /\ Len(s) \in Nat
    BY DEF Positions
  <1>2. CASE i > Len(s)
    <2>1. EncodeAt(s, rest, i) = <<>> /\ <<>> \in Seq(Int)
      BY <1>2 DEF EncodeAt
    <2> QED
      BY <2>1
  <1>3. CASE ~ (i > Len(s))
    <2>1. i + 1 \in Positions(s) /\ s[i] \in Int
      BY <1>1, <1>3 DEF Positions
    <2>2. PICK r \in Seq(Int) : r = rest[i + 1]
      BY <2>1
    <2>3. PICK x \in Seq(Int) : x = Escaped(s[i])
      BY <2>1, EscapedIs
    <2>4. EncodeAt(s, rest, i) = x \o r
      BY <1>3, <2>2, <2>3 DEF EncodeAt
    <2> QED
      BY <2>4
  <1> QED
    BY <1>2, <1>3

LEMMA EncodeAtLocal ==
    ASSUME NEW s \in Seq(Int), NEW i \in Positions(s), NEW f, NEW g,
           \A j \in (i + 1) .. (Len(s) + 1) : f[j] = g[j]
    PROVE  EncodeAt(s, f, i) = EncodeAt(s, g, i)
  <1>1. i \in Nat \ {0} /\ Len(s) \in Nat
    BY DEF Positions
  <1>2. i <= Len(s) => f[i + 1] = g[i + 1]
    BY <1>1
  <1> QED
    BY <1>1, <1>2 DEF EncodeAt

LEMMA EncodeFromSolves ==
    ASSUME NEW s \in Seq(Int)
    PROVE  LET from == EncodeFrom(s) IN
           /\ from \in [Positions(s) -> Seq(Int)]
           /\ \A i \in Positions(s) : from[i] = EncodeAt(s, from, i)
  <1> DEFINE n == Len(s) + 1
             T == Seq(Int)
             step == [i \in 1 .. n |-> [f \in [1 .. n -> T] |-> EncodeAt(s, f, i)]]
             Solves(g) == g = [i \in 1 .. n |-> EncodeAt(s, g, i)]
  <1>1. n \in Nat /\ Positions(s) = 1 .. n
    BY DEF Positions
  <1>2. <<>> \in T
    OBVIOUS
  <1>3. step \in [1 .. n -> [[1 .. n -> T] -> T]]
    BY <1>1, EncodeAtTyped
  <1>4. \A i \in 1 .. n : \A f, g \in [1 .. n -> T] :
            (\A j \in (i + 1) .. n : f[j] = g[j]) => step[i][f] = step[i][g]
    <2> TAKE i \in 1 .. n
    <2> TAKE f, g \in [1 .. n -> T]
    <2> HAVE \A j \in (i + 1) .. n : f[j] = g[j]
    <2>1. EncodeAt(s, f, i) = EncodeAt(s, g, i)
      BY <1>1, EncodeAtLocal
    <2>2. step[i][f] = EncodeAt(s, f, i) /\ step[i][g] = EncodeAt(s, g, i)
      OBVIOUS
    <2> QED
      BY <2>1, <2>2
  <1>5. \E f \in [1 .. n -> T] : \A i \in 1 .. n : f[i] = step[i][f]
    <2>1. IsRecursion(step, n, T)
      BY <1>3, <1>4 DEF IsRecursion
    <2>2. n \in Nat
      BY <1>1
    <2> HIDE DEF step, n, T
    <2>3. HasSolution(step, n, T)
      BY <1>2, <2>1, <2>2, DownwardRecursion
    <2> QED
      BY <2>3 DEF HasSolution
  <1>6. PICK f \in [1 .. n -> T] : \A i \in 1 .. n : f[i] = EncodeAt(s, f, i)
    BY <1>5
  <1>7. Solves(f)
    BY <1>6
  <1>8. EncodeFrom(s) = CHOOSE g : Solves(g)
    BY DEF EncodeFrom
  <1>9. Solves(CHOOSE g : Solves(g))
    <2> HIDE DEF Solves
    <2> QED
      BY <1>7
  <1>10. PICK from : from = EncodeFrom(s) /\ from = [i \in 1 .. n |-> EncodeAt(s, from, i)]
    BY <1>8, <1>9
  <1> DEFINE K == {i \in 1 .. n : from[i] = f[i]}
  <1>11. \A i \in 1 .. n : (\A j \in (i + 1) .. n : j \in K) => i \in K
    <2> TAKE i \in 1 .. n
    <2> HAVE \A j \in (i + 1) .. n : j \in K
    <2>1. EncodeAt(s, from, i) = EncodeAt(s, f, i)
      BY <1>1, EncodeAtLocal
    <2> QED
      BY <1>6, <1>10, <2>1
  <1>12. K = 1 .. n
    <2>1. K \in SUBSET (1 .. n)
      OBVIOUS
    <2> HIDE DEF K, n
    <2> QED
      BY <1>1, <1>11, <2>1, DownwardInduction
  <1>13. from = f
    BY <1>10, <1>12
  <1> QED
    BY <1>1, <1>6, <1>10, <1>13

\* What is written from a position on depends on what follows only.
IsBehind(t, c, s) ==
    /\ Len(s) = Len(c) + Len(t)
    /\ \A k \in 1 .. Len(t) : s[Len(c) + k] = t[k]

LEMMA DecodeBehind ==
    ASSUME NEW c \in Seq(Int), NEW t \in Seq(Int), NEW s \in Seq(Int), NEW plus \in Int, IsBehind(t, c, s)
    PROVE  DecodeFrom(s, plus)[Len(c) + 1] = DecodeWith(t, plus)
  <1>1. PICK f : f = DecodeFrom(s, plus)
    OBVIOUS
  <1>2. PICK g : g = DecodeFrom(t, plus)
    OBVIOUS
  <1>3. PICK m, n : m = Len(c) /\ n = Len(t) + 1
    OBVIOUS
  <1>4. m \in Nat /\ n \in Nat \ {0} /\ Len(s) = m + (n - 1) /\ Len(t) = n - 1
    BY <1>3 DEF IsBehind
  <1>5. /\ \A i \in 1 .. n : g[i] = DecodeAt(t, plus, g, i)
        /\ \A i \in 1 .. (m + n) : f[i] = DecodeAt(s, plus, f, i)
    <2>1. Positions(t) = 1 .. n /\ Positions(s) = 1 .. (m + n)
      BY <1>4 DEF Positions
    <2> QED
      BY <1>1, <1>2, <2>1, DecodeFromSolves
  <1> DEFINE K == {k \in 1 .. n : f[m + k] = g[k]}
  <1>6. ASSUME NEW i \in 1 .. n, \A j \in (i + 1) .. n : j \in K PROVE i \in K
    <2>1. \A j \in (i + 1) .. n : f[m + j] = g[j]
      BY <1>6
    <2>2. m + i \in 1 .. (m + n) /\ (m + i > Len(s) <=> i > Len(t)) /\ ((m + i) + 2 <= Len(s) <=> i + 2 <= Len(t))
      BY <1>4
    <2>3. f[m + i] = DecodeAt(s, plus, f, m + i) /\ g[i] = DecodeAt(t, plus, g, i)
      BY <1>5, <2>2
    <2>4. \A k \in 1 .. (n - 1) : s[m + k] = t[k]
      BY <1>3, <1>4 DEF IsBehind
    <2>5. i <= Len(t) => /\ s[m + i] = t[i] /\ f[(m + i) + 1] = g[i + 1]
      <3>1. i <= Len(t) => i \in 1 .. (n - 1) /\ i + 1 \in (i + 1) .. n /\ (m + i) + 1 = m + (i + 1)
        BY <1>4
      <3> QED
        BY <2>1, <2>4, <3>1
    <2>6. i + 2 <= Len(t) => /\ s[(m + i) + 1] = t[i + 1] /\ s[(m + i) + 2] = t[i + 2]
                             /\ f[(m + i) + 3] = g[i + 3]
      <3>1. i + 2 <= Len(t) => /\ i + 1 \in 1 .. (n - 1) /\ i + 2 \in 1 .. (n - 1) /\ i + 3 \in (i + 1) .. n
                               /\ (m + i) + 1 = m + (i + 1) /\ (m + i) + 2 = m + (i + 2) /\ (m + i) + 3 = m + (i + 3)
        BY <1>4
      <3> QED
        BY <2>1, <2>4, <3>1
    <2>7. DecodeAt(s, plus, f, m + i) = DecodeAt(t, plus, g, i)
      <3>1. PICK p : p = m + i
        OBVIOUS
      <3>2. CASE i > Len(t)
        BY <2>2, <3>2 DEF DecodeAt
      <3>3. CASE ~ (i > Len(t)) /\ t[i] # PCT
        <4>1. s[p] = t[i] /\ f[p + 1] = g[i + 1] /\ ~ (p > Len(s))
          BY <1>4, <2>2, <2>5, <3>1, <3>3
        <4> QED
          BY <3>1, <3>3, <4>1 DEF DecodeAt
      <3>4. CASE ~ (i > Len(t)) /\ t[i] = PCT /\ i + 2 <= Len(t)
        <4>1. s[p] = t[i] /\ s[p + 1] = t[i + 1] /\ s[p + 2] = t[i + 2] /\ f[p + 3] = g[i + 3]
              /\ ~ (p > Len(s)) /\ p + 2 <= Len(s)
          BY <1>4, <2>2, <2>5, <2>6, <3>1, <3>4
        <4> QED
          BY <3>1, <3>4, <4>1 DEF DecodeAt
      <3>5. CASE ~ (i > Len(t)) /\ t[i] = PCT /\ ~ (i + 2 <= Len(t))
        <4>1. s[p] = t[i] /\ f[p + 1] = g[i + 1] /\ ~ (p > Len(s)) /\ ~ (p + 2 <= Len(s))
          BY <1>4, <2>2, <2>5, <3>1, <3>5
        <4> QED
          BY <3>1, <3>5, <4>1 DEF DecodeAt
      <3> QED
        BY <3>2, <3>3, <3>4, <3>5
    <2> QED
      BY <2>3, <2>7
  <1>7. K = 1 .. n
    <2>1. K \in SUBSET (1 .. n)
      OBVIOUS
    <2>2. \A i \in 1 .. n : (\A j \in (i + 1) .. n : j \in K) => i \in K
      BY <1>6
    <2>3. n \in Nat
      BY <1>4
    <2> HIDE DEF K
    <2> QED
      BY <2>1, <2>2, <2>3, DownwardInduction
  <1>8. f[m + 1] = g[1]
    <2>1. 1 \in K
      BY <1>4, <1>7
    <2> QED
      BY <2>1
  <1> QED
    BY <1>1, <1>2, <1>3, <1>8 DEF DecodeWith

\* Texts of one length and the same chars are the same.
LEMMA SameText ==
    ASSUME NEW s \in Seq(Int), NEW u \in Seq(Int), Len(u) = Len(s), \A k \in 1 .. Len(s) : u[k] = s[k]
    PROVE  u = s
  OBVIOUS

\* One text behind another.
LEMMA JoinedIs ==
    ASSUME NEW a \in Seq(Int), NEW b \in Seq(Int)
    PROVE  /\ a \o b \in Seq(Int) /\ Len(a \o b) = Len(a) + Len(b)
           /\ \A k \in 1 .. Len(a) : (a \o b)[k] = a[k]
           /\ \A k \in 1 .. Len(b) : (a \o b)[Len(a) + k] = b[k]
  OBVIOUS

\* What was written for a char is decoded to it, whatever follows.
LEMMA DecodeEscaped ==
    ASSUME NEW c \in 1 .. 127, NEW t \in Seq(Int)
    PROVE  DecodeWith(Escaped(c) \o t, SP) = <<c>> \o DecodeWith(t, SP)
  <1>1. PICK u \in Seq(Int) : u = Escaped(c)
    BY EscapedIs
  <1>2. PICK s \in Seq(Int) : s = u \o t
    BY JoinedIs
  <1>3. PICK r : r = DecodeWith(t, SP)
    OBVIOUS
  <1>4. /\ Len(s) = Len(u) + Len(t) /\ Len(u) \in Nat /\ Len(t) \in Nat
        /\ \A k \in 1 .. Len(t) : s[Len(u) + k] = t[k]
        /\ \A k \in 1 .. Len(u) : s[k] = u[k]
    BY <1>2, JoinedIs
  <1>5. PICK f : f = DecodeFrom(s, SP)
    OBVIOUS
  <1>6. SP \in Int
    BY DEF SP
  <1>7. f[Len(u) + 1] = r
    <2>1. IsBehind(t, u, s)
      BY <1>4 DEF IsBehind
    <2> QED
      BY <1>3, <1>5, <1>6, <2>1, DecodeBehind
  <1>8. Len(u) >= 1 => DecodeWith(s, SP) = DecodeAt(s, SP, f, 1)
    <2>1. 1 \in Positions(s)
      BY <1>4 DEF Positions
    <2> QED
      BY <1>5, <1>6, <2>1, DecodeFromSolves DEF DecodeWith
  <1>9. CASE c \in Unreserved
    <2>1. u = <<c>>
      BY <1>1, <1>9 DEF Escaped
    <2>2. Len(u) = 1 /\ u[1] = c
      BY <2>1
    <2>3. s[1] = c /\ ~ (1 > Len(s)) /\ f[1 + 1] = r
      BY <1>4, <1>7, <2>2
    <2>4. c # PCT /\ c # PLUS
      BY <1>9 DEF PCT, PLUS, Unreserved, Digits, Upper, Lower
    <2>5. DecodeAt(s, SP, f, 1) = <<c>> \o r
      BY <2>3, <2>4 DEF DecodeAt
    <2>6. DecodeWith(s, SP) = <<c>> \o r
      BY <1>8, <2>2, <2>5
    <2> QED
      BY <1>1, <1>2, <1>3, <2>6
  <1>10. CASE c \notin Unreserved /\ c = SP
    <2>1. u = <<PLUS>>
      BY <1>1, <1>10 DEF Escaped
    <2>2. Len(u) = 1 /\ u[1] = PLUS
      BY <2>1
    <2>3. s[1] = PLUS /\ ~ (1 > Len(s)) /\ f[1 + 1] = r
      BY <1>4, <1>7, <2>2
    <2>4. PLUS # PCT
      BY DEF PCT, PLUS
    <2>5. DecodeAt(s, SP, f, 1) = <<SP>> \o r
      BY <2>3, <2>4 DEF DecodeAt
    <2>6. DecodeWith(s, SP) = <<c>> \o r
      BY <1>8, <1>10, <2>2, <2>5
    <2> QED
      BY <1>1, <1>2, <1>3, <2>6
  <1>11. CASE c \notin Unreserved /\ c # SP
    <2>1. u = <<PCT, HexCode(c \div 16), HexCode(c % 16)>>
      BY <1>1, <1>11 DEF Escaped
    <2>2. Len(u) = 3 /\ u[1] = PCT /\ u[2] = HexCode(c \div 16) /\ u[3] = HexCode(c % 16)
      BY <2>1
    <2>3. /\ s[1] = PCT /\ s[1 + 1] = HexCode(c \div 16) /\ s[1 + 2] = HexCode(c % 16) /\ f[1 + 3] = r
          /\ ~ (1 > Len(s)) /\ 1 + 2 <= Len(s)
      BY <1>4, <1>7, <2>2
    <2>4. DecodeAt(s, SP, f, 1) = <<Char(BitOr(16 * FromHex(s[1 + 1]), FromHex(s[1 + 2])))>> \o f[1 + 3]
      BY <2>3 DEF DecodeAt
    <2>5. Char(BitOr(16 * FromHex(s[1 + 1]), FromHex(s[1 + 2]))) = c
      BY <2>3, EscapeBack
    <2>6. DecodeWith(s, SP) = <<c>> \o r
      <3>1. DecodeWith(s, SP) = DecodeAt(s, SP, f, 1)
        BY <1>8, <2>2
      <3>2. <<Char(BitOr(16 * FromHex(s[1 + 1]), FromHex(s[1 + 2])))>> \o f[1 + 3] = <<c>> \o r
        <4>1. f[1 + 3] = r
          BY <2>3
        <4> QED
          BY <2>5, <4>1, Zenon
      <3> QED
        BY <2>4, <3>1, <3>2
    <2> QED
      BY <1>1, <1>2, <1>3, <2>6
  <1> QED
    BY <1>9, <1>10, <1>11

LEMMA HeadAndRest ==
    ASSUME NEW s \in Seq(Int), NEW i \in 1 .. Len(s)
    PROVE  <<s[i]>> \o SubSeq(s, i + 1, Len(s)) = SubSeq(s, i, Len(s))
  <1>1. PICK t : t = SubSeq(s, i + 1, Len(s))
    OBVIOUS
  <1>2. PICK u : u = SubSeq(s, i, Len(s))
    OBVIOUS
  <1>3. t \in Seq(Int) /\ Len(t) = Len(s) - i /\ \A k \in 1 .. (Len(s) - i) : t[k] = s[i + k]
    BY <1>1
  <1>4. u \in Seq(Int) /\ Len(u) = (Len(s) - i) + 1 /\ \A k \in 1 .. ((Len(s) - i) + 1) : u[k] = s[(i - 1) + k]
    BY <1>2
  <1>5. PICK v : v = <<s[i]>> \o t
    OBVIOUS
  <1>6. s[i] \in Int /\ Len(s) \in Nat
    OBVIOUS
  <1>7. v \in Seq(Int) /\ Len(v) = 1 + Len(t) /\ v[1] = s[i] /\ \A k \in 1 .. Len(t) : v[1 + k] = t[k]
    <2>1. PICK x \in Int : x = s[i]
      BY <1>6
    <2>4. PICK w : w = <<x>>
      OBVIOUS
    <2>5. w \in Seq(Int)
      BY <2>4
    <2>2. Len(w) = 1 /\ w[1] = s[i]
      BY <2>1, <2>4
    <2>3. /\ v \in Seq(Int) /\ Len(v) = Len(w) + Len(t)
          /\ \A k \in 1 .. Len(w) : v[k] = w[k]
          /\ \A k \in 1 .. Len(t) : v[Len(w) + k] = t[k]
      BY <1>3, <1>5, <2>1, <2>4, <2>5, JoinedIs
    <2> QED
      BY <2>2, <2>3
  <1>8. Len(u) = Len(v)
    BY <1>3, <1>4, <1>6, <1>7
  <1>9. ASSUME NEW k \in 1 .. Len(v) PROVE v[k] = u[k]
    <2>1. CASE k = 1
      <3>1. 1 \in 1 .. ((Len(s) - i) + 1) /\ (i - 1) + 1 = i
        BY <1>6
      <3>2. u[1] = s[i]
        BY <1>4, <3>1
      <3> QED
        BY <1>7, <2>1, <3>2
    <2>2. CASE k # 1
      <3>1. k - 1 \in 1 .. Len(t) /\ 1 + (k - 1) = k /\ k \in 1 .. ((Len(s) - i) + 1) /\ i + (k - 1) = (i - 1) + k
        BY <1>3, <1>6, <1>7, <2>2
      <3>2. v[k] = t[k - 1]
        BY <1>7, <3>1
      <3>3. t[k - 1] = s[i + (k - 1)]
        BY <1>3, <3>1
      <3> QED
        BY <1>4, <3>1, <3>2, <3>3
    <2> QED
      BY <2>1, <2>2
  <1>10. v = u
    BY <1>4, <1>7, <1>8, <1>9
  <1> QED
    BY <1>1, <1>2, <1>5, <1>10

\* What is escaped comes back.
LEMMA DecodeEncoded ==
    ASSUME NEW s \in Seq(Int), \A i \in 1 .. Len(s) : s[i] \in 1 .. 127
    PROVE  UrlDecode(UrlEncode(s)) = s
  <1>1. PICK e, n : e = EncodeFrom(s) /\ n = Len(s) + 1
    OBVIOUS
  <1>2. /\ n \in Nat \ {0} /\ e \in [1 .. n -> Seq(Int)]
        /\ \A i \in 1 .. n : e[i] = EncodeAt(s, e, i)
    <2>1. Positions(s) = 1 .. n /\ n \in Nat \ {0}
      BY <1>1 DEF Positions
    <2> QED
      BY <1>1, <2>1, EncodeFromSolves
  <1> DEFINE K == {i \in 1 .. n : DecodeWith(e[i], SP) = SubSeq(s, i, Len(s))}
  <1>3. ASSUME NEW i \in 1 .. n, \A j \in (i + 1) .. n : j \in K PROVE i \in K
    <2>1. CASE i = n
      <3>1. e[i] = <<>>
        <4>1. e[i] = EncodeAt(s, e, i)
          BY <1>2
        <4>2. i > Len(s)
          BY <1>1, <2>1
        <4> QED
          BY <4>1, <4>2 DEF EncodeAt
      <3>2. DecodeWith(<<>>, SP) = <<>>
        <4>1. <<>> \in Seq(Int) /\ 1 \in Positions(<<>>) /\ 1 > Len(<<>>) /\ SP \in Int
          BY DEF Positions, SP
        <4>2. DecodeFrom(<<>>, SP)[1] = DecodeAt(<<>>, SP, DecodeFrom(<<>>, SP), 1)
          BY <4>1, DecodeFromSolves
        <4> QED
          BY <4>1, <4>2 DEF DecodeWith, DecodeAt
      <3>3. SubSeq(s, i, Len(s)) = <<>>
        BY <1>1, <2>1
      <3> QED
        BY <3>1, <3>2, <3>3
    <2>2. CASE i # n
      <3>1. i \in 1 .. Len(s) /\ i + 1 \in (i + 1) .. n /\ i + 1 \in 1 .. n
        BY <1>1, <1>2, <2>2
      <3>2. DecodeWith(e[i + 1], SP) = SubSeq(s, i + 1, Len(s))
        BY <1>3, <3>1
      <3>3. e[i] = Escaped(s[i]) \o e[i + 1] /\ e[i + 1] \in Seq(Int)
        <4>1. i \in 1 .. n /\ ~ (i > Len(s))
          BY <3>1
        <4>2. e[i] = EncodeAt(s, e, i)
          BY <1>2
        <4> QED
          BY <1>2, <3>1, <4>1, <4>2 DEF EncodeAt
      <3>4. s[i] \in 1 .. 127
        BY <3>1
      <3>5. DecodeWith(e[i], SP) = <<s[i]>> \o SubSeq(s, i + 1, Len(s))
        BY <3>2, <3>3, <3>4, DecodeEscaped
      <3> QED
        BY <3>1, <3>5, HeadAndRest
    <2> QED
      BY <2>1, <2>2
  <1>4. K = 1 .. n
    <2>1. K \in SUBSET (1 .. n)
      OBVIOUS
    <2>2. \A i \in 1 .. n : (\A j \in (i + 1) .. n : j \in K) => i \in K
      BY <1>3
    <2>3. n \in Nat
      BY <1>2
    <2> HIDE DEF K
    <2> QED
      BY <2>1, <2>2, <2>3, DownwardInduction
  <1>5. DecodeWith(UrlEncode(s), SP) = s
    <2>1. 1 \in 1 .. n
      BY <1>2
    <2>3. 1 \in K
      BY <1>4, <2>1
    <2>2. SubSeq(s, 1, Len(s)) = s
      OBVIOUS
    <2> QED
      BY <1>1, <2>2, <2>3 DEF UrlEncode
  <1>6. CString(s) = s
    <2>1. ASSUME NEW i \in 1 .. Len(s) PROVE s[i] # 0
      <3>1. PICK c \in 1 .. 127 : c = s[i]
        OBVIOUS
      <3>2. c # 0
        OBVIOUS
      <3> QED
        BY <3>1, <3>2
    <2>2. ~ Contains(s, 0)
      BY <2>1 DEF Contains
    <2> QED
      BY <2>2 DEF CString
  <1> QED
    BY <1>5, <1>6 DEF UrlDecode

----------------------------------------------------------------------------
(* Cookies. *)

\* What a trimmed text is.
Trimmed(s) == s # <<>> => s[1] \notin Spaces /\ s[Len(s)] \notin Spaces

\* Nothing but spaces, or a part of s without spaces at its ends.
BlankText(s) == \A k \in 1 .. Len(s) : s[k] \in Spaces
Core(s, a, b) ==
    /\ a \in 1 .. Len(s) /\ b \in a .. Len(s)
    /\ s[a] \notin Spaces /\ s[b] \notin Spaces
    /\ \A k \in 1 .. Len(s) : k < a \/ b < k => s[k] \in Spaces

\* Trimming leaves the part, if there is one.
LEMMA TrimFinds ==
    ASSUME NEW s \in Seq(Int)
    PROVE  \/ BlankText(s) /\ Trim(s) = <<>>
           \/ \E a, b : Core(s, a, b) /\ Trim(s) = SubSeq(s, a, b)
  <1> DEFINE inner == {i \in DOMAIN s : s[i] \notin Spaces}
  <1>1. DOMAIN s = 1 .. Len(s) /\ Len(s) \in Nat
    OBVIOUS
  <1>2. inner \in SUBSET (1 .. Len(s)) /\ inner \in SUBSET Nat
    BY <1>1
  <1>3. Trim(s) = IF inner = {} THEN <<>> ELSE SubSeq(s, Min(inner), Max(inner))
    BY DEF Trim
  <1>4. \A k \in 1 .. Len(s) : k \notin inner => s[k] \in Spaces
    BY <1>1
  <1>5. \A k \in inner : s[k] \notin Spaces
    OBVIOUS
  <1> HIDE DEF inner
  <1>6. CASE inner = {}
    BY <1>3, <1>4, <1>6 DEF BlankText
  <1>7. CASE inner # {}
    <2>1. Min(inner) \in inner /\ \A m \in inner : Min(inner) <= m
      BY <1>2, <1>7, LeastNumber
    <2>2. Max(inner) \in inner /\ \A m \in inner : m <= Max(inner)
      BY <1>1, <1>2, <1>7, GreatestNumber
    <2>3. PICK a, b : a = Min(inner) /\ b = Max(inner)
      OBVIOUS
    <2>4. a \in 1 .. Len(s) /\ b \in 1 .. Len(s) /\ a <= b
      BY <1>2, <2>1, <2>2, <2>3
    <2>5. \A k \in 1 .. Len(s) : k < a \/ b < k => k \notin inner
      BY <2>1, <2>2, <2>3, <2>4
    <2>6. Core(s, a, b)
      <3>1. b \in a .. Len(s)
        BY <2>4
      <3>2. s[a] \notin Spaces /\ s[b] \notin Spaces
        BY <1>5, <2>1, <2>2, <2>3
      <3> QED
        BY <1>4, <2>4, <2>5, <3>1, <3>2 DEF Core
    <2> QED
      BY <1>3, <1>7, <2>3, <2>6
  <1> QED
    BY <1>6, <1>7

\* The part that is left.
LEMMA TrimIs ==
    ASSUME NEW s \in Seq(Int), NEW a, NEW b, Core(s, a, b)
    PROVE  Trim(s) = SubSeq(s, a, b)
  <1>1. a \in 1 .. Len(s) /\ b \in a .. Len(s) /\ b \in 1 .. Len(s) /\ Len(s) \in Nat
    BY DEF Core
  <1>2. ~ BlankText(s)
    BY <1>1 DEF Core, BlankText
  <1>3. PICK c, d : Core(s, c, d) /\ Trim(s) = SubSeq(s, c, d)
    BY <1>2, TrimFinds
  <1>4. c \in 1 .. Len(s) /\ d \in c .. Len(s) /\ d \in 1 .. Len(s)
    BY <1>1, <1>3 DEF Core
  <1>5. ~ (a < c) /\ ~ (d < a) /\ ~ (b < c) /\ ~ (d < b)
    BY <1>1, <1>3 DEF Core
  <1>6. ~ (c < a) /\ ~ (b < c) /\ ~ (d < a) /\ ~ (b < d)
    BY <1>3, <1>4 DEF Core
  <1>7. a = c /\ b = d
    BY <1>1, <1>4, <1>5, <1>6
  <1> QED
    BY <1>3, <1>7

LEMMA TrimBlank ==
    ASSUME NEW s \in Seq(Int), BlankText(s)
    PROVE  Trim(s) = <<>>
  <1>1. \A a, b : ~ Core(s, a, b)
    BY DEF Core, BlankText
  <1> QED
    BY <1>1, TrimFinds

\* A part of a text.
PartOf(t, s) == \A k \in 1 .. Len(t) : \E j \in 1 .. Len(s) : t[k] = s[j]

\* A trimmed text is trimmed, and made of what was there.
LEMMA TrimTrims ==
    ASSUME NEW s \in Seq(Int)
    PROVE  Trim(s) \in Seq(Int) /\ Trimmed(Trim(s)) /\ PartOf(Trim(s), s)
  <1>1. CASE BlankText(s) /\ Trim(s) = <<>>
    <2>1. <<>> \in Seq(Int) /\ Len(<<>>) = 0
      OBVIOUS
    <2> QED
      BY <1>1, <2>1 DEF Trimmed, PartOf
  <1>2. CASE \E a, b : Core(s, a, b) /\ Trim(s) = SubSeq(s, a, b)
    <2>1. PICK a, b : Core(s, a, b) /\ Trim(s) = SubSeq(s, a, b)
      BY <1>2
    <2>2. PICK t : t = Trim(s)
      OBVIOUS
    <2>3. a \in Nat \ {0} /\ b \in Nat /\ a <= b /\ b <= Len(s) /\ Len(s) \in Nat
      BY <2>1 DEF Core
    <2>4. t \in Seq(Int) /\ Len(t) = (b - a) + 1 /\ \A k \in 1 .. ((b - a) + 1) : t[k] = s[(a - 1) + k]
      <3>1. a \in Nat \ {0} /\ b \in Nat /\ a <= b + 1 /\ b <= Len(s)
        BY <2>3
      <3>2. t = SubSeq(s, a, b)
        BY <2>1, <2>2
      <3> QED
        BY <3>1, <3>2, SubSeqIs
    <2>5. t[1] = s[a] /\ t[Len(t)] = s[b]
      <3>1. 1 \in 1 .. ((b - a) + 1) /\ (a - 1) + 1 = a
        BY <2>3
      <3>2. (b - a) + 1 \in 1 .. ((b - a) + 1) /\ (a - 1) + ((b - a) + 1) = b
        BY <2>3
      <3> QED
        BY <2>4, <3>1, <3>2
    <2>6. Trimmed(t)
      BY <2>1, <2>5 DEF Trimmed, Core
    <2>7. ASSUME NEW k \in 1 .. Len(t) PROVE \E j \in 1 .. Len(s) : t[k] = s[j]
      <3>1. k \in 1 .. ((b - a) + 1) /\ (a - 1) + k \in 1 .. Len(s)
        BY <2>3, <2>4
      <3> QED
        BY <2>4, <3>1
    <2> QED
      BY <2>2, <2>4, <2>6, <2>7 DEF PartOf
  <1> QED
    BY <1>1, <1>2, TrimFinds

\* A trimmed text, and it with a space behind, is trimmed to itself.
LEMMA TrimAgain ==
    ASSUME NEW s \in Seq(Int), Trimmed(s)
    PROVE  Trim(s) = s
  <1>1. Len(s) \in Nat /\ (s = <<>> <=> Len(s) = 0)
    OBVIOUS
  <1>2. CASE s = <<>>
    <2>1. BlankText(s)
      BY <1>1, <1>2 DEF BlankText
    <2> QED
      BY <1>2, <2>1, TrimBlank
  <1>3. CASE s # <<>>
    <2>1. Core(s, 1, Len(s))
      <3>1. 1 \in 1 .. Len(s) /\ Len(s) \in 1 .. Len(s) /\ \A k \in 1 .. Len(s) : ~ (k < 1 \/ Len(s) < k)
        BY <1>1, <1>3
      <3> QED
        BY <1>3, <3>1 DEF Core, Trimmed
    <2>2. SubSeq(s, 1, Len(s)) = s
      OBVIOUS
    <2> QED
      BY <2>1, <2>2, TrimIs
  <1> QED
    BY <1>2, <1>3

LEMMA TrimBehind ==
    ASSUME NEW s \in Seq(Int), NEW t \in Seq(Int), Trimmed(s), Len(t) = Len(s) + 1, t[Len(t)] \in Spaces,
           \A k \in 1 .. Len(s) : t[k] = s[k]
    PROVE  Trim(t) = s
  <1>1. Len(s) \in Nat /\ (s = <<>> <=> Len(s) = 0)
    OBVIOUS
  <1>2. CASE s = <<>>
    <2>1. BlankText(t)
      <3>1. \A k \in 1 .. Len(t) : k = Len(t)
        BY <1>1, <1>2
      <3> QED
        BY <3>1 DEF BlankText
    <2> QED
      BY <1>2, <2>1, TrimBlank
  <1>3. CASE s # <<>>
    <2>1. Core(t, 1, Len(s))
      <3>1. /\ 1 \in 1 .. Len(t) /\ 1 \in 1 .. Len(s) /\ Len(s) \in 1 .. Len(t) /\ Len(s) \in 1 .. Len(s)
            /\ \A k \in 1 .. Len(t) : k < 1 \/ Len(s) < k => k = Len(t)
        BY <1>1, <1>3
      <3>2. t[1] = s[1] /\ t[Len(s)] = s[Len(s)]
        BY <3>1
      <3> QED
        BY <1>3, <3>1, <3>2 DEF Core, Trimmed
    <2>2. SubSeq(t, 1, Len(s)) = s
      <3>1. PICK u : u = SubSeq(t, 1, Len(s))
        OBVIOUS
      <3>2. Len(s) <= Len(t)
        BY <1>1
      <3>3. u \in Seq(Int) /\ Len(u) = Len(s) /\ \A k \in 1 .. Len(s) : u[k] = t[k]
        BY <1>1, <3>1, <3>2, PrefixIs
      <3>4. \A k \in 1 .. Len(s) : u[k] = s[k]
        BY <3>3
      <3>5. u = s
        BY <3>3, <3>4, SameText
      <3> QED
        BY <3>1, <3>5
    <2> QED
      BY <2>1, <2>2, TrimIs
  <1> QED
    BY <1>2, <1>3

\* A cookie that can be sent: what a browser keeps.
Sendable(c) ==
    /\ c \in NameValue /\ c.name # <<>> /\ Trimmed(c.name) /\ Trimmed(c.value)
    /\ \A k \in 1 .. Len(c.name) : c.name[k] # EQ /\ c.name[k] # SEMI
    /\ \A k \in 1 .. Len(c.value) : c.value[k] # SEMI

\* The length of name, '=' and value.
Size(c) == Len(c.name) + 1 + Len(c.value)

\* A text that begins with a cookie's name and value and ends there or goes on.
Spells(h, c) ==
    /\ h \in Seq(Int) /\ Size(c) <= Len(h)
    /\ \A k \in 1 .. Len(c.name) : h[k] = c.name[k]
    /\ h[Len(c.name) + 1] = EQ
    /\ \A k \in 1 .. Len(c.value) : h[Len(c.name) + 1 + k] = c.value[k]

\* name, '=' and value one after the other.
LEMMA SpelledOut ==
    ASSUME NEW c \in NameValue
    PROVE  LET h == c.name \o <<EQ>> \o c.value IN
           Spells(h, c) /\ Len(h) = Size(c)
  <1>1. PICK n, v : n = c.name /\ v = c.value /\ n \in Seq(Int) /\ v \in Seq(Int)
    BY DEF NameValue
  <1>2. PICK e : e = <<EQ>> /\ e \in Seq(Int) /\ Len(e) = 1 /\ e[1] = EQ
    <2>1. PICK x \in Int : x = EQ
      BY DEF EQ
    <2>2. PICK e : e = <<x>>
      OBVIOUS
    <2>3. e \in Seq(Int) /\ Len(e) = 1 /\ e[1] = x
      BY <2>2
    <2> QED
      BY <2>1, <2>2, <2>3
  <1>3. PICK l : l = n \o e
    OBVIOUS
  <1>4. /\ l \in Seq(Int) /\ Len(l) = Len(n) + 1
        /\ \A k \in 1 .. Len(n) : l[k] = n[k]
        /\ \A k \in 1 .. 1 : l[Len(n) + k] = e[k]
    BY <1>1, <1>2, <1>3, JoinedIs
  <1>5. l[Len(n) + 1] = EQ
    BY <1>2, <1>4
  <1>6. PICK h : h = l \o v
    OBVIOUS
  <1>7. /\ h \in Seq(Int) /\ Len(h) = Len(l) + Len(v)
        /\ \A k \in 1 .. Len(l) : h[k] = l[k]
        /\ \A k \in 1 .. Len(v) : h[Len(l) + k] = v[k]
    <2>1. l \in Seq(Int) /\ v \in Seq(Int)
      BY <1>1, <1>4
    <2> QED
      BY <1>6, <2>1, JoinedIs
  <1>8. Len(n) \in Nat /\ Len(v) \in Nat
    BY <1>1
  <1>9. /\ \A k \in 1 .. Len(n) : h[k] = n[k]
        /\ h[Len(n) + 1] = EQ
    <2>1. \A k \in 1 .. Len(n) : k \in 1 .. Len(l)
      BY <1>4, <1>8
    <2>2. Len(n) + 1 \in 1 .. Len(l)
      BY <1>4, <1>8
    <2> QED
      BY <1>4, <1>5, <1>7, <2>1, <2>2
  <1>10. /\ \A k \in 1 .. Len(v) : h[Len(n) + 1 + k] = v[k]
         /\ Len(h) = Len(n) + 1 + Len(v)
    BY <1>4, <1>7
  <1>11. Spells(h, c)
    <2>1. Len(n) + 1 + Len(v) <= Len(h) /\ h \in Seq(Int)
      BY <1>7, <1>8, <1>10
    <2>2. /\ Len(c.name) = Len(n) /\ Len(c.value) = Len(v)
          /\ \A k \in 1 .. Len(v) : h[Len(n) + 1 + k] = v[k]
      BY <1>1, <1>10
    <2> QED
      BY <1>1, <1>9, <2>1, <2>2 DEF Spells, Size
  <1>12. h = c.name \o <<EQ>> \o c.value
    BY <1>1, <1>2, <1>3, <1>6
  <1> QED
    BY <1>1, <1>10, <1>11, <1>12 DEF Size

\* A text is spelled out by what is before and behind a '=' in it.
LEMMA SplitSpells ==
    ASSUME NEW s \in Seq(Int), NEW i \in 1 .. Len(s), s[i] = EQ,
           NEW c, c = [name |-> SubSeq(s, 1, i - 1), value |-> SubSeq(s, i + 1, Len(s))]
    PROVE  c \in NameValue /\ Spells(s, c) /\ Len(s) = Size(c) /\ Len(c.name) = i - 1
  <1>1. Len(s) \in Nat /\ i \in Nat /\ 1 <= i /\ i <= Len(s)
    OBVIOUS
  <1>2. PICK n, v : n = SubSeq(s, 1, i - 1) /\ v = SubSeq(s, i + 1, Len(s)) /\ c = [name |-> n, value |-> v]
    OBVIOUS
  <1>3. n \in Seq(Int) /\ Len(n) = i - 1 /\ \A k \in 1 .. (i - 1) : n[k] = s[k]
    <2>1. i - 1 \in Nat /\ i - 1 <= Len(s)
      BY <1>1
    <2> QED
      BY <1>2, <2>1, PrefixIs
  <1>4. /\ v \in Seq(Int) /\ Len(v) = (Len(s) - (i + 1)) + 1
        /\ \A k \in 1 .. ((Len(s) - (i + 1)) + 1) : v[k] = s[((i + 1) - 1) + k]
    <2>1. i + 1 \in Nat \ {0} /\ i + 1 <= Len(s) + 1 /\ Len(s) <= Len(s)
      BY <1>1
    <2> QED
      BY <1>1, <1>2, <2>1, SubSeqIs
  <1>5. c.name = n /\ c.value = v
    BY ONLY <1>2
  <1>6. c \in NameValue
    <2>1. n \in Seq(Int) /\ v \in Seq(Int)
      BY <1>3, <1>4
    <2>2. [name |-> n, value |-> v] \in [name : Seq(Int), value : Seq(Int)]
      BY <2>1
    <2> QED
      BY <1>2, <2>2 DEF NameValue
  <1>7. \A k \in 1 .. Len(n) : s[k] = n[k]
    BY <1>3
  <1>8. s[Len(n) + 1] = EQ /\ Len(s) = Len(n) + 1 + Len(v)
    BY <1>1, <1>3, <1>4
  <1>9. ASSUME NEW k \in 1 .. Len(v) PROVE s[Len(n) + 1 + k] = v[k]
    <2>1. k \in 1 .. ((Len(s) - (i + 1)) + 1) /\ ((i + 1) - 1) + k = Len(n) + 1 + k
      BY <1>1, <1>3, <1>4
    <2> QED
      BY <1>4, <2>1
  <1>10. Len(n) + 1 + Len(v) <= Len(s)
    BY <1>1, <1>8
  <1> QED
    BY <1>3, <1>5, <1>6, <1>7, <1>8, <1>9, <1>10 DEF Spells, Size

\* The first part of a Set-Cookie line, up to the first ';'.
FirstPart(s) == IF Find(s, SEMI, 1) = 0 THEN s ELSE SubSeq(s, 1, Find(s, SEMI, 1) - 1)

\* It has no such char and begins the line.
LEMMA FirstPartIs ==
    ASSUME NEW s \in Seq(Int)
    PROVE  /\ FirstPart(s) \in Seq(Int) /\ Len(FirstPart(s)) <= Len(s)
           /\ \A k \in 1 .. Len(FirstPart(s)) : FirstPart(s)[k] = s[k] /\ s[k] # SEMI
  <1>1. PICK f : f = Find(s, SEMI, 1)
    OBVIOUS
  <1>2. \/ f = 0 /\ \A k \in 1 .. Len(s) : s[k] # SEMI
        \/ f \in 1 .. Len(s) /\ s[f] = SEMI /\ \A k \in 1 .. (f - 1) : s[k] # SEMI
    BY <1>1, FindFinds
  <1>3. CASE f = 0
    <2>1. \A k \in 1 .. Len(s) : s[k] # SEMI
      BY <1>2, <1>3
    <2>2. FirstPart(s) = s /\ Len(s) \in Nat
      BY <1>1, <1>3 DEF FirstPart
    <2> QED
      BY <2>1, <2>2
  <1>4. CASE f # 0
    <2>1. f \in 1 .. Len(s) /\ \A k \in 1 .. (f - 1) : s[k] # SEMI
      BY <1>2, <1>4
    <2>2. f - 1 \in Nat /\ f - 1 <= Len(s)
      BY <2>1
    <2>3. PICK p : p = FirstPart(s)
      OBVIOUS
    <2>4. p \in Seq(Int) /\ Len(p) = f - 1 /\ \A k \in 1 .. (f - 1) : p[k] = s[k]
      <3>1. p = SubSeq(s, 1, f - 1)
        BY <1>1, <1>4, <2>3 DEF FirstPart
      <3> QED
        BY <2>2, <3>1, PrefixIs
    <2> QED
      BY <2>1, <2>2, <2>3, <2>4
  <1> QED
    BY <1>3, <1>4

KeptName(p) == Trim(SubSeq(p, 1, Find(p, EQ, 1) - 1))
KeptValue(p) == Trim(SubSeq(p, Find(p, EQ, 1) + 1, Len(p)))
KeptPair(p) == [name |-> KeptName(p), value |-> KeptValue(p)]

\* What is kept is made of its first part.
LEMMA KeptIs ==
    ASSUME NEW s
    PROVE  LET p == FirstPart(s) IN
           Kept(s) = IF Find(p, EQ, 1) = 0 \/ KeptName(p) = <<>> THEN <<>> ELSE <<KeptPair(p)>>
  BY DEF Kept, FirstPart, KeptName, KeptValue, KeptPair

\* Before and behind the first '=' of a text without ';'.
LEMMA SplitPart ==
    ASSUME NEW p \in Seq(Int), Find(p, EQ, 1) # 0, \A k \in 1 .. Len(p) : p[k] # SEMI
    PROVE  LET n == SubSeq(p, 1, Find(p, EQ, 1) - 1)
               v == SubSeq(p, Find(p, EQ, 1) + 1, Len(p))
           IN  /\ n \in Seq(Int) /\ v \in Seq(Int)
               /\ \A k \in 1 .. Len(n) : n[k] # EQ /\ n[k] # SEMI
               /\ \A k \in 1 .. Len(v) : v[k] # SEMI
  <1>1. PICK e : e = Find(p, EQ, 1)
    OBVIOUS
  <1>2. e \in 1 .. Len(p) /\ p[e] = EQ /\ \A k \in 1 .. (e - 1) : p[k] # EQ
    BY <1>1, FindFinds
  <1>3. PICK n, v : n = SubSeq(p, 1, e - 1) /\ v = SubSeq(p, e + 1, Len(p))
    OBVIOUS
  <1>4. n \in Seq(Int) /\ Len(n) = e - 1 /\ \A k \in 1 .. (e - 1) : n[k] = p[k]
    <2>1. e - 1 \in Nat /\ e - 1 <= Len(p)
      BY <1>2
    <2> QED
      BY <1>3, <2>1, PrefixIs
  <1>5. /\ v \in Seq(Int) /\ Len(v) = (Len(p) - (e + 1)) + 1
        /\ \A k \in 1 .. ((Len(p) - (e + 1)) + 1) : v[k] = p[((e + 1) - 1) + k]
    <2>1. e + 1 \in Nat \ {0} /\ e + 1 <= Len(p) + 1 /\ Len(p) <= Len(p) /\ Len(p) \in Nat
      BY <1>2
    <2> QED
      BY <1>3, <2>1, SubSeqIs
  <1>6. ASSUME NEW k \in 1 .. Len(n) PROVE n[k] # EQ /\ n[k] # SEMI
    <2>1. k \in 1 .. (e - 1) /\ k \in 1 .. Len(p)
      BY <1>2, <1>4
    <2> QED
      BY <1>2, <1>4, <2>1
  <1>7. ASSUME NEW k \in 1 .. Len(v) PROVE v[k] # SEMI
    <2>1. k \in 1 .. ((Len(p) - (e + 1)) + 1) /\ ((e + 1) - 1) + k \in 1 .. Len(p)
      BY <1>2, <1>5
    <2> QED
      BY <1>5, <2>1
  <1> QED
    BY <1>1, <1>3, <1>4, <1>5, <1>6, <1>7

\* What a browser keeps can be sent.
LEMMA KeptSendable ==
    ASSUME NEW s \in Seq(Int), Kept(s) # <<>>
    PROVE  \E c : Kept(s) = <<c>> /\ Sendable(c)
  <1>1. PICK p : p = FirstPart(s)
    OBVIOUS
  <1>2. p \in Seq(Int) /\ \A k \in 1 .. Len(p) : p[k] # SEMI
    BY <1>1, FirstPartIs
  <1>3. PICK c : c = KeptPair(p)
    OBVIOUS
  <1>4. Kept(s) = <<c>> /\ Find(p, EQ, 1) # 0 /\ KeptName(p) # <<>>
    BY <1>1, <1>3, KeptIs
  <1>5. PICK n, v : n = SubSeq(p, 1, Find(p, EQ, 1) - 1) /\ v = SubSeq(p, Find(p, EQ, 1) + 1, Len(p))
    OBVIOUS
  <1>6. /\ n \in Seq(Int) /\ v \in Seq(Int)
        /\ \A k \in 1 .. Len(n) : n[k] # EQ /\ n[k] # SEMI
        /\ \A k \in 1 .. Len(v) : v[k] # SEMI
    BY <1>2, <1>4, <1>5, SplitPart
  <1>7. PICK a, b : a = Trim(n) /\ b = Trim(v)
    OBVIOUS
  <1>8. /\ a \in Seq(Int) /\ Trimmed(a) /\ PartOf(a, n)
        /\ b \in Seq(Int) /\ Trimmed(b) /\ PartOf(b, v)
    BY <1>6, <1>7, TrimTrims
  <1>9. ASSUME NEW k \in 1 .. Len(a) PROVE a[k] # EQ /\ a[k] # SEMI
    <2>1. PICK j \in 1 .. Len(n) : a[k] = n[j]
      BY <1>8 DEF PartOf
    <2> QED
      BY <1>6, <2>1
  <1>10. ASSUME NEW k \in 1 .. Len(b) PROVE b[k] # SEMI
    <2>1. PICK j \in 1 .. Len(v) : b[k] = v[j]
      BY <1>8 DEF PartOf
    <2> QED
      BY <1>6, <2>1
  <1>11. a = KeptName(p) /\ b = KeptValue(p) /\ c = [name |-> a, value |-> b]
    BY <1>3, <1>5, <1>7 DEF KeptName, KeptValue, KeptPair
  <1>12. c \in NameValue /\ c.name = a /\ c.value = b
    <2>1. [name |-> a, value |-> b] \in [name : Seq(Int), value : Seq(Int)]
      BY <1>8
    <2> QED
      BY <1>11, <2>1 DEF NameValue
  <1>13. Sendable(c)
    BY <1>4, <1>8, <1>9, <1>10, <1>11, <1>12 DEF Sendable
  <1> QED
    BY <1>4, <1>13

\* A line of that length, or one that goes on with a space and a ';'.
EndsOrGoesOn(s, m) == Len(s) = m \/ (m + 2 <= Len(s) /\ s[m + 1] = SP /\ s[m + 2] = SEMI)

\* The first part is the cookie set, or that and a space.
LEMMA SpelledFirst ==
    ASSUME NEW c, Sendable(c), NEW s, Spells(s, c), EndsOrGoesOn(s, Size(c))
    PROVE  LET p == FirstPart(s)
               m == Size(c)
           IN  /\ Spells(p, c)
               /\ Len(p) = m \/ (Len(p) = m + 1 /\ p[m + 1] = SP)
  <1>1. PICK n, v : n = c.name /\ v = c.value
    OBVIOUS
  <1>2. n \in Seq(Int) /\ v \in Seq(Int)
    BY <1>1 DEF Sendable, NameValue
  <1>3. PICK m \in Nat : m = Len(n) + 1 + Len(v)
    BY <1>2
  <1>4. s \in Seq(Int) /\ Len(s) \in Nat /\ m <= Len(s)
    <2>1. s \in Seq(Int) /\ Size(c) <= Len(s)
      BY DEF Spells, Size
    <2>2. c.name = n /\ c.value = v
      BY <1>1
    <2>3. Len(n) + 1 + Len(v) <= Len(s)
      BY <2>1, <2>2 DEF Size
    <2>4. m <= Len(s)
      BY <1>3, <2>3
    <2>5. Len(s) \in Nat
      BY <2>1
    <2> QED
      BY <2>1, <2>4, <2>5
  <1>5. ASSUME NEW k \in 1 .. m PROVE s[k] # SEMI
    <2>1. Len(n) \in Nat /\ Len(v) \in Nat
      BY <1>2
    <2>2. CASE k <= Len(n)
      <3>1. k \in 1 .. Len(n)
        BY <2>1, <2>2
      <3> QED
        BY <1>1, <3>1 DEF Spells, Sendable
    <2>3. CASE k = Len(n) + 1
      BY <1>1, <2>3 DEF Spells, EQ, SEMI
    <2>4. CASE k > Len(n) + 1
      <3>1. k - (Len(n) + 1) \in 1 .. Len(v) /\ Len(n) + 1 + (k - (Len(n) + 1)) = k
        BY <1>3, <2>1, <2>4
      <3>2. PICK j \in 1 .. Len(v) : Len(n) + 1 + j = k
        BY <3>1
      <3>3. s[Len(n) + 1 + j] = v[j] /\ v[j] # SEMI
        BY <1>1 DEF Spells, Sendable
      <3> QED
        BY <3>2, <3>3
    <2> QED
      BY <2>1, <2>2, <2>3, <2>4
  <1>6. PICK p : p = FirstPart(s)
    OBVIOUS
  <1>7. p \in Seq(Int) /\ Len(p) <= Len(s) /\ \A k \in 1 .. Len(p) : p[k] = s[k]
    BY <1>4, <1>6, FirstPartIs
  <1>8. Len(p) = m \/ (Len(p) = m + 1 /\ s[m + 1] = SP)
    <2>1. CASE Len(s) = m
      <3>1. Find(s, SEMI, 1) = 0
        <4>1. \A k \in 1 .. Len(s) : s[k] # SEMI
          BY <1>5, <2>1
        <4> QED
          BY <1>4, <4>1, FindNone
      <3>2. p = s
        BY <1>6, <3>1 DEF FirstPart
      <3> QED
        BY <2>1, <3>2
    <2>2. CASE m + 2 <= Len(s) /\ s[m + 1] = SP /\ s[m + 2] = SEMI
      <3>1. Find(s, SEMI, 1) = m + 2
        <4>1. m + 2 \in 1 .. Len(s)
          BY <2>2
        <4>2. ASSUME NEW k \in 1 .. ((m + 2) - 1) PROVE s[k] # SEMI
          <5>1. k \in 1 .. m \/ k = m + 1
            OBVIOUS
          <5>2. SP # SEMI
            BY DEF SP, SEMI
          <5> QED
            BY <1>5, <2>2, <5>1, <5>2
        <4> QED
          BY <1>4, <2>2, <4>1, <4>2, FindIs
      <3>2. p = SubSeq(s, 1, (m + 2) - 1) /\ (m + 2) - 1 = m + 1
        BY <1>6, <3>1 DEF FirstPart
      <3>3. Len(p) = m + 1
        BY <1>4, <2>2, <3>2, PrefixIs
      <3> QED
        BY <2>2, <3>3
    <2> QED
      BY <1>1, <1>3, <2>1, <2>2 DEF EndsOrGoesOn, Size
  <1>9. m <= Len(p)
    BY <1>8
  <1>10. \A k \in 1 .. m : p[k] = s[k]
    BY <1>7, <1>9
  <1>11. Spells(p, c)
    <2>1. Len(n) \in Nat /\ Len(v) \in Nat
      BY <1>2
    <2>2. \A k \in 1 .. Len(n) : k \in 1 .. m
      BY <1>3, <2>1
    <2>3. Len(n) + 1 \in 1 .. m
      BY <1>3, <2>1
    <2>4. \A k \in 1 .. Len(v) : Len(n) + 1 + k \in 1 .. m
      BY <1>3, <2>1
    <2>5. Len(n) + 1 + Len(v) <= Len(p)
      BY <1>3, <1>9
    <2>6. \A k \in 1 .. Len(n) : p[k] = n[k]
      BY <1>1, <1>10, <2>2 DEF Spells, Size
    <2>7. p[Len(n) + 1] = EQ
      BY <1>1, <1>10, <2>3 DEF Spells, Size
    <2>8. \A k \in 1 .. Len(v) : p[Len(n) + 1 + k] = v[k]
      BY <1>1, <1>10, <2>4 DEF Spells, Size
    <2> QED
      BY <1>1, <1>7, <2>5, <2>6, <2>7, <2>8 DEF Spells, Size
  <1>12. Len(p) = m + 1 => p[m + 1] = s[m + 1]
    BY <1>7
  <1> QED
    BY <1>1, <1>3, <1>6, <1>8, <1>11, <1>12 DEF Size

\* A cookie that can be sent is kept as it was set.
LEMMA KeptAsSet ==
    ASSUME NEW c, Sendable(c), NEW s, Spells(s, c), EndsOrGoesOn(s, Size(c))
    PROVE  Kept(s) = <<c>>
  <1>1. PICK p : p = FirstPart(s)
    OBVIOUS
  <1>2. PICK n, v : n = c.name /\ v = c.value /\ c = [name |-> n, value |-> v]
    BY DEF Sendable, NameValue
  <1>3. PICK m : m = Len(n) + 1 + Len(v)
    OBVIOUS
  <1>4. Spells(p, c) /\ (Len(p) = m \/ (Len(p) = m + 1 /\ p[m + 1] = SP))
    BY <1>1, <1>2, <1>3, SpelledFirst DEF Size
  <1>5. n \in Seq(Int) /\ v \in Seq(Int) /\ n # <<>> /\ Trimmed(n) /\ Trimmed(v) /\ \A k \in 1 .. Len(n) : n[k] # EQ
    BY <1>2 DEF Sendable, NameValue
  <1>6. /\ p \in Seq(Int)
        /\ \A k \in 1 .. Len(n) : p[k] = n[k]
        /\ p[Len(n) + 1] = EQ
        /\ \A k \in 1 .. Len(v) : p[Len(n) + 1 + k] = v[k]
    BY <1>2, <1>4 DEF Spells, Size
  <1>7. Len(n) \in Nat /\ Len(v) \in Nat /\ m \in Nat /\ m <= Len(p) /\ Len(p) \in Nat
    BY <1>3, <1>4, <1>5, <1>6
  <1>8. Find(p, EQ, 1) = Len(n) + 1
    <2>1. Len(n) + 1 \in 1 .. Len(p)
      BY <1>3, <1>7
    <2>2. \A k \in 1 .. ((Len(n) + 1) - 1) : p[k] # EQ
      <3>1. (Len(n) + 1) - 1 = Len(n)
        BY <1>7
      <3> QED
        BY <1>5, <1>6, <3>1
    <2> QED
      BY <1>6, <2>1, <2>2, FindIs
  <1>9. KeptName(p) = n
    <2>1. PICK u : u = SubSeq(p, 1, (Len(n) + 1) - 1)
      OBVIOUS
    <2>2. (Len(n) + 1) - 1 = Len(n) /\ Len(n) <= Len(p)
      BY <1>3, <1>7
    <2>3. u \in Seq(Int) /\ Len(u) = Len(n) /\ \A k \in 1 .. Len(n) : u[k] = p[k]
      BY <1>6, <1>7, <2>1, <2>2, PrefixIs
    <2>4. u = n
      <3>1. \A k \in 1 .. Len(n) : u[k] = n[k]
        BY <1>6, <2>3
      <3> QED
        BY <1>5, <2>3, <3>1, SameText
    <2> QED
      BY <1>5, <1>8, <2>1, <2>4, TrimAgain DEF KeptName
  <1>10. KeptValue(p) = v
    <2>1. PICK a : a = Len(n) + 2
      OBVIOUS
    <2>2. a \in Nat \ {0} /\ a <= Len(p) + 1 /\ Len(p) <= Len(p) /\ (Len(n) + 1) + 1 = a
      BY <1>3, <1>7, <2>1
    <2>3. PICK u : u = SubSeq(p, a, Len(p))
      OBVIOUS
    <2>4. /\ u \in Seq(Int) /\ Len(u) = (Len(p) - a) + 1
          /\ \A k \in 1 .. ((Len(p) - a) + 1) : u[k] = p[(a - 1) + k]
      <3>1. p \in Seq(Int) /\ Len(p) \in Nat
        BY <1>6, <1>7
      <3> QED
        BY <2>2, <2>3, <3>1, SubSeqIs
    <2>5. Len(v) <= (Len(p) - a) + 1
      BY <1>3, <1>7, <2>1
    <2>6. ASSUME NEW k \in 1 .. Len(v) PROVE u[k] = v[k]
      <3>1. k \in 1 .. ((Len(p) - a) + 1) /\ (a - 1) + k = Len(n) + 1 + k
        BY <1>7, <2>1, <2>2, <2>5
      <3> QED
        BY <1>6, <2>4, <3>1
    <2>7. CASE Len(p) = m
      <3>1. Len(u) = Len(v)
        BY <1>3, <1>7, <2>1, <2>4, <2>7
      <3>2. u = v
        BY <1>5, <2>4, <2>6, <3>1, SameText
      <3> QED
        BY <1>5, <1>8, <2>2, <2>3, <3>2, TrimAgain DEF KeptValue
    <2>8. CASE Len(p) = m + 1 /\ p[m + 1] = SP
      <3>1. Len(u) = Len(v) + 1
        BY <1>3, <1>7, <2>1, <2>4, <2>8
      <3>2. Len(v) + 1 \in 1 .. ((Len(p) - a) + 1) /\ (a - 1) + (Len(v) + 1) = m + 1
        BY <1>3, <1>7, <2>1, <2>4, <3>1
      <3>3. u[Len(u)] = SP
        BY <2>4, <2>8, <3>1, <3>2
      <3>4. u[Len(u)] \in Spaces
        BY <3>3 DEF Spaces
      <3>5. Trim(u) = v
        BY <1>5, <2>4, <2>6, <3>1, <3>4, TrimBehind
      <3> QED
        BY <1>8, <2>2, <2>3, <3>5 DEF KeptValue
    <2> QED
      BY <1>4, <2>7, <2>8
  <1>11. Find(p, EQ, 1) # 0 /\ KeptName(p) # <<>>
    BY <1>5, <1>7, <1>8, <1>9
  <1>12. KeptPair(p) = c
    BY <1>2, <1>9, <1>10 DEF KeptPair
  <1> QED
    BY <1>1, <1>11, <1>12, KeptIs

\* The line a cookie without a domain is set with.
LEMMA AttributeIs ==
    ASSUME NEW letter \in Int, NEW texts \in {{}, {<<>>}, {<<SLASH>>}}
    PROVE  LET a == Attribute(<<SP, SEMI>>, letter, texts) IN
           a \in Seq(Int) /\ (a = <<>> \/ (2 <= Len(a) /\ a[1] = SP /\ a[2] = SEMI))
  <1>1. CASE texts = {}
    BY <1>1 DEF Attribute
  <1>2. CASE texts # {}
    <2>1. PICK t \in Seq(Int) : t = CHOOSE u \in texts : TRUE
      <3>1. (CHOOSE u \in texts : TRUE) \in texts
        BY <1>2
      <3>2. <<>> \in Seq(Int)
        OBVIOUS
      <3>3. <<SLASH>> \in Seq(Int)
        BY DEF SLASH
      <3> QED
        BY <3>1, <3>2, <3>3
    <2>2. PICK b : b = <<SP, SEMI>>
      OBVIOUS
    <2>3. b \in Seq(Int) /\ Len(b) = 2 /\ b[1] = SP /\ b[2] = SEMI
      <3>1. SP \in Int /\ SEMI \in Int
        BY DEF SP, SEMI
      <3> QED
        BY <2>2, <3>1
    <2>4. PICK d : d = <<letter>>
      OBVIOUS
    <2>5. d \in Seq(Int)
      BY <2>4
    <2>6. PICK e : e = b \o d
      OBVIOUS
    <2>7. e \in Seq(Int) /\ Len(e) = 2 + Len(d) /\ Len(d) \in Nat /\ e[1] = SP /\ e[2] = SEMI
      <3>1. /\ e \in Seq(Int) /\ Len(e) = Len(b) + Len(d)
            /\ \A k \in 1 .. Len(b) : e[k] = b[k]
        BY <2>3, <2>5, <2>6, JoinedIs
      <3> QED
        BY <2>3, <2>5, <3>1
    <2>8. PICK a : a = e \o t
      OBVIOUS
    <2>9. a \in Seq(Int) /\ 2 <= Len(a) /\ a[1] = SP /\ a[2] = SEMI
      <3>1. /\ a \in Seq(Int) /\ Len(a) = Len(e) + Len(t)
            /\ \A k \in 1 .. Len(e) : a[k] = e[k]
        BY <2>1, <2>7, <2>8, JoinedIs
      <3>2. 1 \in 1 .. Len(e) /\ 2 \in 1 .. Len(e) /\ Len(e) \in Nat /\ Len(t) \in Nat
        BY <2>1, <2>7
      <3>3. a[1] = SP /\ a[2] = SEMI
        BY <2>7, <3>1, <3>2
      <3>4. 2 <= Len(a)
        BY <2>7, <3>1, <3>2
      <3> QED
        BY <3>1, <3>3, <3>4
    <2>10. a = Attribute(<<SP, SEMI>>, letter, texts)
      BY <1>2, <2>1, <2>2, <2>4, <2>6, <2>8 DEF Attribute
    <2> QED
      BY <2>9, <2>10
  <1> QED
    BY <1>1, <1>2

IsAttribute(a) == a \in Seq(Int) /\ (a = <<>> \/ (2 <= Len(a) /\ a[1] = SP /\ a[2] = SEMI))

\* A line to which an attribute is added still spells its cookie.
LEMMA AttributeAdded ==
    ASSUME NEW c \in NameValue, NEW s, NEW a, NEW m \in Nat, m = Size(c),
           Spells(s, c), EndsOrGoesOn(s, m), IsAttribute(a)
    PROVE  Spells(s \o a, c) /\ EndsOrGoesOn(s \o a, m)
  <1>1. PICK n, v : n = c.name /\ v = c.value /\ n \in Seq(Int) /\ v \in Seq(Int)
    BY DEF NameValue
  <1>2. /\ s \in Seq(Int)
        /\ \A k \in 1 .. Len(n) : s[k] = n[k]
        /\ s[Len(n) + 1] = EQ
        /\ \A k \in 1 .. Len(v) : s[Len(n) + 1 + k] = v[k]
    BY <1>1 DEF Spells, Size
  <1>3. a \in Seq(Int) /\ (a = <<>> \/ (2 <= Len(a) /\ a[1] = SP /\ a[2] = SEMI))
    BY DEF IsAttribute
  <1>4. m = Len(n) + 1 + Len(v) /\ Len(n) \in Nat /\ Len(v) \in Nat /\ Len(s) \in Nat /\ Len(a) \in Nat
    BY <1>1, <1>2, <1>3 DEF Size
  <1>5. Len(s) = m \/ (m + 2 <= Len(s) /\ s[m + 1] = SP /\ s[m + 2] = SEMI)
    BY DEF EndsOrGoesOn
  <1>6. m <= Len(s)
    BY <1>4, <1>5
  <1>7. PICK l : l = s \o a
    OBVIOUS
  <1>8. /\ l \in Seq(Int) /\ Len(l) = Len(s) + Len(a)
        /\ \A k \in 1 .. Len(s) : l[k] = s[k]
        /\ \A k \in 1 .. Len(a) : l[Len(s) + k] = a[k]
    BY <1>2, <1>3, <1>7, JoinedIs
  <1>9. Spells(l, c)
    <2>1. \A k \in 1 .. Len(n) : k \in 1 .. Len(s)
      BY <1>4, <1>6
    <2>2. Len(n) + 1 \in 1 .. Len(s)
      BY <1>4, <1>6
    <2>3. \A k \in 1 .. Len(v) : Len(n) + 1 + k \in 1 .. Len(s)
      BY <1>4, <1>6
    <2>4. /\ \A k \in 1 .. Len(n) : l[k] = n[k]
          /\ l[Len(n) + 1] = EQ
          /\ \A k \in 1 .. Len(v) : l[Len(n) + 1 + k] = v[k]
      BY <1>2, <1>8, <2>1, <2>2, <2>3
    <2>5. Len(n) + 1 + Len(v) <= Len(l)
      BY <1>4, <1>6, <1>8
    <2> QED
      BY <1>1, <1>8, <2>4, <2>5 DEF Spells, Size
  <1>10. EndsOrGoesOn(l, m)
    <2>1. CASE m + 2 <= Len(s) /\ s[m + 1] = SP /\ s[m + 2] = SEMI
      <3>1. m + 1 \in 1 .. Len(s) /\ m + 2 \in 1 .. Len(s) /\ m + 2 <= Len(l)
        BY <1>4, <1>6, <1>8, <2>1
      <3> QED
        BY <1>8, <2>1, <3>1 DEF EndsOrGoesOn
    <2>2. CASE Len(s) = m /\ a = <<>>
      <3>1. Len(a) = 0
        BY <2>2
      <3>2. Len(l) = m
        BY <1>6, <1>8, <2>2, <3>1
      <3> QED
        BY <3>2 DEF EndsOrGoesOn
    <2>3. CASE Len(s) = m /\ 2 <= Len(a) /\ a[1] = SP /\ a[2] = SEMI
      <3>1. 1 \in 1 .. Len(a) /\ 2 \in 1 .. Len(a) /\ m + 2 <= Len(l)
        BY <1>4, <1>6, <1>8, <2>3
      <3>2. l[m + 1] = SP /\ l[m + 2] = SEMI
        BY <1>8, <2>3, <3>1
      <3> QED
        BY <3>1, <3>2 DEF EndsOrGoesOn
    <2> QED
      BY <1>3, <1>5, <2>1, <2>2, <2>3
  <1> QED
    BY <1>7, <1>9, <1>10

\* Whatever its attributes, the line spells the cookie first.
LEMMA CookieTextIs ==
    ASSUME NEW c \in NameValue, NEW path \in {{}, {<<SLASH>>}}, NEW secure \in BOOLEAN
    PROVE  LET s == CookieText(NewCookie(c.name, c.value, {}, path, secure, FALSE)) IN
           Spells(s, c) /\ EndsOrGoesOn(s, Size(c))
  <1>1. PICK m \in Nat : m = Size(c)
    <2>1. PICK k \in Nat, l \in Nat : k = Len(c.name) /\ l = Len(c.value)
      BY DEF NameValue
    <2>2. Size(c) = k + 1 + l
      BY <2>1 DEF Size
    <2>3. k + 1 + l \in Nat
      OBVIOUS
    <2> QED
      BY <2>2, <2>3
  <1>2. PICK h : h = c.name \o <<EQ>> \o c.value
    OBVIOUS
  <1>3. Spells(h, c) /\ EndsOrGoesOn(h, m)
    BY <1>1, <1>2, SpelledOut DEF EndsOrGoesOn
  <1>4. PICK a1, a2, a3, a4 :
          /\ a1 = Attribute(<<SP, SEMI>>, 68, {})
          /\ a2 = Attribute(<<SP, SEMI>>, 80, path)
          /\ a3 = Attribute(<<SP, SEMI>>, 83, IF secure THEN {<<>>} ELSE {})
          /\ a4 = Attribute(<<SP, SEMI>>, 72, {})
    OBVIOUS
  <1>5. IsAttribute(a1) /\ IsAttribute(a4)
    <2>1. {} \in {{}, {<<>>}, {<<SLASH>>}} /\ 68 \in Int /\ 72 \in Int
      OBVIOUS
    <2> QED
      BY <1>4, <2>1, AttributeIs DEF IsAttribute
  <1>6. IsAttribute(a2)
    <2>1. path \in {{}, {<<>>}, {<<SLASH>>}} /\ 80 \in Int
      OBVIOUS
    <2> QED
      BY <1>4, <2>1, AttributeIs DEF IsAttribute
  <1>7. IsAttribute(a3)
    <2>1. PICK t : t = IF secure THEN {<<>>} ELSE {}
      OBVIOUS
    <2>2. t \in {{}, {<<>>}, {<<SLASH>>}} /\ 83 \in Int
      BY <2>1
    <2> QED
      BY <1>4, <2>1, <2>2, AttributeIs DEF IsAttribute
  <1>8. PICK h1 : h1 = h \o a1
    OBVIOUS
  <1>9. Spells(h1, c) /\ EndsOrGoesOn(h1, m)
    BY <1>1, <1>3, <1>5, <1>8, AttributeAdded
  <1>10. PICK h2 : h2 = h1 \o a2
    OBVIOUS
  <1>11. Spells(h2, c) /\ EndsOrGoesOn(h2, m)
    BY <1>1, <1>6, <1>9, <1>10, AttributeAdded
  <1>12. PICK h3 : h3 = h2 \o a3
    OBVIOUS
  <1>13. Spells(h3, c) /\ EndsOrGoesOn(h3, m)
    BY <1>1, <1>7, <1>11, <1>12, AttributeAdded
  <1>14. PICK h4 : h4 = h3 \o a4
    OBVIOUS
  <1>15. Spells(h4, c) /\ EndsOrGoesOn(h4, m)
    BY <1>1, <1>5, <1>13, <1>14, AttributeAdded
  <1>16. PICK k : k = NewCookie(c.name, c.value, {}, path, secure, FALSE)
    OBVIOUS
  <1>17. /\ k.name = c.name /\ k.value = c.value /\ k.domain = {} /\ k.path = path
         /\ k.secure = secure /\ k.httponly = FALSE
    BY <1>16 DEF NewCookie
  <1>18. CookieText(k) = h4
    BY <1>2, <1>4, <1>8, <1>10, <1>12, <1>14, <1>17 DEF CookieText, CookieTextBy
  <1> QED
    BY <1>1, <1>15, <1>16, <1>18
============================================================================
