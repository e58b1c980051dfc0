----------------------- MODULE DecimalRoundTripProofs -----------------------
(***************************************************************************)
(* Proofs about DecimalRoundTrip: the deposit data is read as it was       *)
(* written, and amounts that go out and back lose at most once.            *)
(***************************************************************************)
EXTENDS DecimalRoundTrip, DecimalConverterProofs, FoldTheorems

----------------------------------------------------------------------------
(* Parts of sequences *)

\* p is the part of d of length n behind position k.
IsPart(p, S, d, k, n) ==
    /\ p \in Seq(S) /\ Len(p) = n
    /\ \A i \in 1 .. n : p[i] = d[k + i]

\* SubSeq takes a part.
LEMMA PartTaken ==
    ASSUME NEW S, NEW d \in Seq(S), NEW k \in Nat, NEW n \in Nat, k + n <= Len(d),
           NEW p, p = SubSeq(d, k + 1, k + n)
    PROVE  IsPart(p, S, d, k, n)
<1>1. p \in Seq(S) /\ Len(p) = n
  OBVIOUS
<1>2. \A i \in 1 .. n : p[i] = d[(k + 1) + i - 1]
  OBVIOUS
<1>3. \A i \in 1 .. n : (k + 1) + i - 1 = k + i
  OBVIOUS
<1> QED
  BY <1>1, <1>2, <1>3, Zenon DEF IsPart

\* There is one part of a length behind a position.
LEMMA PartUnique ==
    ASSUME NEW S, NEW d, NEW k, NEW n, NEW p, NEW q, IsPart(p, S, d, k, n), IsPart(q, S, d, k, n)
    PROVE  p = q
BY DEF IsPart

\* A part of a part.
LEMMA PartOfPart ==
    ASSUME NEW S, NEW d, NEW w, NEW p, NEW j \in Nat, NEW m \in Nat, NEW k \in Nat, NEW n \in Nat,
           IsPart(w, S, d, j, m), IsPart(p, S, w, k, n), k + n <= m
    PROVE  IsPart(p, S, d, j + k, n)
<1>1. \A i \in 1 .. n : k + i \in 1 .. m /\ j + (k + i) = (j + k) + i
  OBVIOUS
<1> QED
  BY <1>1 DEF IsPart

\* The parts of a concatenation.
LEMMA PartsJoined ==
    ASSUME NEW S, NEW a \in Seq(S), NEW b \in Seq(S)
    PROVE  /\ a \o b \in Seq(S) /\ Len(a) \in Nat /\ Len(b) \in Nat
           /\ Len(a \o b) = Len(a) + Len(b)
           /\ IsPart(a, S, a \o b, 0, Len(a)) /\ IsPart(b, S, a \o b, Len(a), Len(b))
BY DEF IsPart

\* d consists of a, b and c.
AreParts(d, S, a, b, c) ==
    /\ d \in Seq(S) /\ Len(a) \in Nat /\ Len(b) \in Nat /\ Len(c) \in Nat
    /\ Len(d) = Len(a) + Len(b) + Len(c)
    /\ IsPart(a, S, d, 0, Len(a)) /\ IsPart(b, S, d, Len(a), Len(b))
    /\ IsPart(c, S, d, Len(a) + Len(b), Len(c))

\* The parts of three sequences put together.
LEMMA PartsOfThree ==
    ASSUME NEW S, NEW a \in Seq(S), NEW b \in Seq(S), NEW c \in Seq(S)
    PROVE  AreParts((a \o b) \o c, S, a, b, c)
<1> DEFINE w == a \o b
           d == w \o c
<1>1. /\ w \in Seq(S) /\ Len(a) \in Nat /\ Len(b) \in Nat /\ Len(w) = Len(a) + Len(b)
      /\ IsPart(a, S, w, 0, Len(a)) /\ IsPart(b, S, w, Len(a), Len(b))
  BY PartsJoined, Zenon
<1> HIDE DEF w
<1>2. /\ d \in Seq(S) /\ Len(c) \in Nat /\ Len(d) = Len(w) + Len(c)
      /\ IsPart(w, S, d, 0, Len(w)) /\ IsPart(c, S, d, Len(w), Len(c))
  BY <1>1, PartsJoined, Zenon
<1> HIDE DEF d
<1>3. /\ Len(w) \in Nat /\ 0 \in Nat /\ 0 + 0 = 0 /\ 0 + Len(a) = Len(a)
      /\ 0 + Len(a) <= Len(w) /\ Len(a) + Len(b) <= Len(w)
  BY <1>1
<1>4. IsPart(a, S, d, 0 + 0, Len(a)) /\ IsPart(b, S, d, 0 + Len(a), Len(b))
  BY <1>1, <1>2, <1>3, PartOfPart, Zenon
<1>5. IsPart(a, S, d, 0, Len(a)) /\ IsPart(b, S, d, Len(a), Len(b))
  BY <1>3, <1>4, Zenon
<1>6. AreParts(d, S, a, b, c)
  BY <1>1, <1>2, <1>5 DEF AreParts
<1> QED
  BY <1>6 DEF d, w

\* Two sequences with the same three parts are the same.
LEMMA SameParts ==
    ASSUME NEW S, NEW n \in Nat, NEW m \in Nat, NEW a, NEW b, NEW c,
           NEW d \in Seq(S), Len(d) = 2 * n + m,
           IsPart(a, S, d, 0, n), IsPart(b, S, d, n, n), IsPart(c, S, d, 2 * n, m),
           NEW e \in Seq(S), Len(e) = 2 * n + m,
           IsPart(a, S, e, 0, n), IsPart(b, S, e, n, n), IsPart(c, S, e, 2 * n, m)
    PROVE  d = e
<1>1. ASSUME NEW i \in 1 .. 2 * n + m PROVE d[i] = e[i]
  <2>1. CASE i \in 1 .. n
    BY <2>1 DEF IsPart
  <2>2. CASE i - n \in 1 .. n
    <3>1. n + (i - n) = i
      OBVIOUS
    <3>2. d[n + (i - n)] = e[n + (i - n)]
      BY <2>2, Zenon DEF IsPart
    <3> QED
      BY <3>1, <3>2, Zenon
  <2>3. CASE i - 2 * n \in 1 .. m
    <3>1. 2 * n + (i - 2 * n) = i
      OBVIOUS
    <3>2. d[2 * n + (i - 2 * n)] = e[2 * n + (i - 2 * n)]
      BY <2>3, Zenon DEF IsPart
    <3> QED
      BY <3>1, <3>2, Zenon
  <2>4. i \in 1 .. n \/ i - n \in 1 .. n \/ i - 2 * n \in 1 .. m
    OBVIOUS
  <2> QED
    BY <2>1, <2>2, <2>3, <2>4, Zenon
<1> QED
  BY <1>1

\* SubSeq finds what is there.
LEMMA PartFound ==
    ASSUME NEW S, NEW d \in Seq(S), NEW k \in Nat, NEW n \in Nat, k + n <= Len(d), NEW p,
           IsPart(p, S, d, k, n)
    PROVE  SubSeq(d, k + 1, k + n) = p
<1>1. IsPart(SubSeq(d, k + 1, k + n), S, d, k, n)
  BY PartTaken, Zenon
<1> QED
  BY <1>1, PartUnique, Zenon

\* d has the words a and b, of n elements each, and then c.
HasWords(d, S, n, a, b, c) ==
    /\ d \in Seq(S) /\ Len(d) = 2 * n + Len(c)
    /\ SubSeq(d, 1, n) = a /\ SubSeq(d, n + 1, 2 * n) = b
    /\ SubSeq(d, 2 * n + 1, Len(d)) = c

\* Two words and a rest, put together, are found where they were put.
LEMMA PartsOfWhole ==
    ASSUME NEW S, NEW a \in Seq(S), NEW b \in Seq(S), NEW c \in Seq(S), NEW n \in Nat,
           Len(a) = n, Len(b) = n
    PROVE  HasWords((a \o b) \o c, S, n, a, b, c)
<1> DEFINE d == (a \o b) \o c
           m == Len(c)
<1>1. AreParts(d, S, a, b, c)
  BY PartsOfThree
<1> HIDE DEF d
<1>2. /\ d \in Seq(S) /\ m \in Nat
      /\ Len(d) = n + n + m
      /\ IsPart(a, S, d, 0, n) /\ IsPart(b, S, d, n, n)
      /\ IsPart(c, S, d, n + n, m)
  BY <1>1 DEF AreParts
<1> HIDE DEF m
<1>3. /\ 0 \in Nat /\ n + n \in Nat /\ 0 + 1 = 1 /\ 0 + n = n /\ n + n = 2 * n
      /\ 0 + n <= Len(d) /\ n + n <= Len(d) /\ n + n + m <= Len(d)
  BY <1>2
<1>4. SubSeq(d, 0 + 1, 0 + n) = a
  BY <1>2, <1>3, PartFound, Zenon
<1>5. SubSeq(d, n + 1, n + n) = b
  BY <1>2, <1>3, PartFound, Zenon
<1>6. SubSeq(d, (n + n) + 1, (n + n) + m) = c
  BY <1>2, <1>3, PartFound, Zenon
<1>7. HasWords(d, S, n, a, b, c)
  BY <1>2, <1>3, <1>4, <1>5, <1>6 DEF m, HasWords
<1> QED
  BY <1>7 DEF d

\* A sequence is its first word, its second word and the rest.
LEMMA WholeOfParts ==
    ASSUME NEW S, NEW d \in Seq(S), NEW n \in Nat, 2 * n <= Len(d)
    PROVE  LET a == SubSeq(d, 1, n)
               b == SubSeq(d, n + 1, 2 * n)
               c == SubSeq(d, 2 * n + 1, Len(d))
           IN  /\ a \in Seq(S) /\ Len(a) = n /\ b \in Seq(S) /\ Len(b) = n
               /\ c \in Seq(S) /\ Len(c) = Len(d) - 2 * n
               /\ d = (a \o b) \o c
<1> DEFINE m == Len(d) - 2 * n
           a == SubSeq(d, 1, n)
           b == SubSeq(d, n + 1, 2 * n)
           c == SubSeq(d, 2 * n + 1, Len(d))
<1>2. /\ m \in Nat /\ Len(d) = 2 * n + m /\ 0 \in Nat /\ 2 * n \in Nat
      /\ 0 + 1 = 1 /\ 0 + n = n /\ n + n = 2 * n
      /\ 0 + n <= Len(d) /\ n + n <= Len(d) /\ 2 * n + m <= Len(d)
  OBVIOUS
<1> HIDE DEF m
<1>3. a = SubSeq(d, 0 + 1, 0 + n) /\ b = SubSeq(d, n + 1, n + n) /\ c = SubSeq(d, 2 * n + 1, 2 * n + m)
  BY <1>2, Zenon
<1> HIDE DEF a, b, c
<1>4. IsPart(a, S, d, 0, n) /\ IsPart(b, S, d, n, n) /\ IsPart(c, S, d, 2 * n, m)
  BY <1>2, <1>3, PartTaken, Zenon
<1>5. /\ a \in Seq(S) /\ Len(a) = n /\ b \in Seq(S) /\ Len(b) = n
      /\ c \in Seq(S) /\ Len(c) = m
  BY <1>4 DEF IsPart
<1> DEFINE e == (a \o b) \o c
<1>6. AreParts(e, S, a, b, c)
  BY <1>5, PartsOfThree
<1> HIDE DEF e
<1>7. /\ e \in Seq(S) /\ Len(e) = 2 * n + m
      /\ IsPart(a, S, e, 0, n) /\ IsPart(b, S, e, n, n) /\ IsPart(c, S, e, 2 * n, m)
  BY <1>2, <1>5, <1>6 DEF AreParts
<1>8. d = e
  BY <1>2, <1>4, <1>7, SameParts
<1> QED
  BY <1>5, <1>8, Zenon DEF m, a, b, c, e

----------------------------------------------------------------------------
(* Words *)

\* f tabulates the values that the digits w, after c, have in base B.
IsHorner(f, n, B, c, w) ==
    /\ f \in [0 .. n -> Nat]
    /\ f[0] = c
    /\ \A i \in 1 .. n : f[i] = f[i - 1] * B + w[i]

\* Such a table exists, as long as there are digits.
LEMMA HornerTable ==
    ASSUME NEW n \in Nat, NEW B \in Nat, NEW c \in Nat, NEW w \in [1 .. n -> Nat]
    PROVE  \E f : IsHorner(f, n, B, c, w)
<1> DEFINE S == {m \in 0 .. n : \E f : IsHorner(f, m, B, c, w)}
<1>1. 0 \in S
  <2>1. IsHorner([i \in 0 .. 0 |-> c], 0, B, c, w)
    BY DEF IsHorner
  <2> QED
    BY <2>1
<1>2. ASSUME NEW m \in 1 .. n, m - 1 \in S PROVE m \in S
  <2>1. PICK f : IsHorner(f, m - 1, B, c, w)
    BY <1>2
  <2> DEFINE e == f[m - 1] * B + w[m]
             g == [i \in 0 .. m |-> IF i = m THEN e ELSE f[i]]
  <2>2. e \in Nat
    <3>1. f[m - 1] \in Nat /\ w[m] \in Nat
      BY <2>1 DEF IsHorner
    <3>2. \A x, y \in Nat : x * B + y \in Nat
      OBVIOUS
    <3> QED
      BY <3>1, <3>2, Zenon
  <2> HIDE DEF e
  <2>3. g \in [0 .. m -> Nat] /\ g[0] = c /\ g[m] = e /\ \A i \in 0 .. m - 1 : g[i] = f[i]
    BY <2>1, <2>2 DEF IsHorner
  <2> HIDE DEF g
  <2>4. ASSUME NEW i \in 1 .. m PROVE g[i] = g[i - 1] * B + w[i]
    <3>1. g[i - 1] = f[i - 1]
      BY <2>3
    <3>2. CASE i = m
      BY <2>3, <3>1, <3>2 DEF e
    <3>3. CASE i # m
      BY <2>1, <2>3, <3>1, <3>3 DEF IsHorner
    <3> QED
      BY <3>2, <3>3
  <2>5. IsHorner(g, m, B, c, w)
    BY <2>3, <2>4 DEF IsHorner
  <2> QED
    BY <2>5
<1>3. S = 0 .. n
  <2>1. S \in SUBSET (0 .. n)
    OBVIOUS
  <2> HIDE DEF S
  <2> QED
    BY <1>1, <1>2, <2>1, Climb
<1>4. n \in 0 .. n
  OBVIOUS
<1>5. n \in S
  BY <1>3, <1>4, Zenon
<1> QED
  BY <1>5, Zenon

\* The weights of the bytes of a word: each is ByteBase times the next.
LEMMA PlaceTable ==
    /\ WORD_BYTES \in Nat \ {0} /\ ByteBase \in Nat \ {0, 1}
    /\ Place \in [0 .. WORD_BYTES -> Nat \ {0}]
    /\ Place[0] = 1
    /\ \A k \in 1 .. WORD_BYTES : Place[k] = ByteBase * Place[k - 1]
<1> DEFINE n == WORD_BYTES
           B == ByteBase
           Row(f) == [k \in 0 .. n |-> IF k = 0 THEN 1 ELSE B * f[k - 1]]
           w == [j \in 1 .. n |-> 0]
<1>1. n \in Nat \ {0} /\ B \in Nat \ {0, 1}
  BY DepositDataAssumption
<1>2. PICK f : IsHorner(f, n, B, 1, w)
  <2>1. w \in [1 .. n -> Nat]
    OBVIOUS
  <2> HIDE DEF n, B, w
  <2> QED
    BY <1>1, <2>1, HornerTable
<1>3. f = Row(f)
  <2>1. \A i \in 1 .. n : f[i] = B * f[i - 1]
    <3> SUFFICES ASSUME NEW i \in 1 .. n PROVE f[i] = B * f[i - 1]
      OBVIOUS
    <3>1. f[i - 1] \in Nat /\ f[i] = f[i - 1] * B + 0
      BY <1>1, <1>2 DEF IsHorner
    <3> QED
      BY <1>1, <3>1
  <2> QED
    BY <1>1, <1>2, <2>1 DEF IsHorner
<1>4. Place = Row(Place)
  BY <1>3, Zenon DEF Place
<1>5. DOMAIN Place = 0 .. n /\ Place[0] = 1 /\ \A k \in 1 .. n : Place[k] = B * Place[k - 1]
  BY <1>1, <1>4
<1> DEFINE S == {k \in 0 .. n : Place[k] \in Nat \ {0}}
<1>6. S = 0 .. n
  <2>1. S \in SUBSET (0 .. n) /\ 0 \in S
    BY <1>1, <1>5
  <2>2. \A k \in 1 .. n : k - 1 \in S => k \in S
    BY <1>1, <1>5
  <2> HIDE DEF S
  <2> QED
    BY <1>1, <2>1, <2>2, Climb
<1> QED
  BY <1>1, <1>4, <1>5, <1>6, Zenon

\* The partial values of a word that from_big_endian reads.
LEMMA ValueTable ==
    ASSUME NEW word \in Seq(Bytes)
    PROVE  \E v : /\ IsHorner(v, Len(word), ByteBase, 0, word)
                  /\ from_big_endian(word) = v[Len(word)]
<1> DEFINE n == Len(word)
           B == ByteBase
           Row(f) == [i \in 0 .. n |-> IF i = 0 THEN 0 ELSE f[i - 1] * B + word[i]]
           v == CHOOSE f : f = Row(f)
<1>1. n \in Nat /\ B \in Nat /\ word \in [1 .. n -> Nat]
  BY PlaceTable DEF Bytes
<1>2. PICK f : IsHorner(f, n, B, 0, word)
  <2> HIDE DEF n, B
  <2> QED
    BY <1>1, HornerTable
<1>3. f = Row(f)
  BY <1>1, <1>2 DEF IsHorner
<1>4. v = Row(v)
  BY <1>3, Zenon
<1>5. from_big_endian(word) = v[n]
  BY DEF from_big_endian
<1> HIDE DEF v
<1>6. v[0] = 0 /\ \A i \in 1 .. n : v[i] = v[i - 1] * B + word[i]
  BY <1>1, <1>4
<1> DEFINE S == {i \in 0 .. n : v[i] \in Nat}
<1>7. S = 0 .. n
  <2>1. S \in SUBSET (0 .. n) /\ 0 \in S
    BY <1>1, <1>6
  <2>2. \A i \in 1 .. n : i - 1 \in S => i \in S
    <3> SUFFICES ASSUME NEW i \in 1 .. n, v[i - 1] \in Nat PROVE v[i] \in Nat
      BY <1>1
    <3>1. word[i] \in Nat /\ v[i] = v[i - 1] * B + word[i]
      BY <1>1, <1>6
    <3>2. \A x, y \in Nat : x * B + y \in Nat
      BY <1>1
    <3> QED
      BY <3>1, <3>2, Zenon
  <2> HIDE DEF S, n
  <2> QED
    BY <1>1, <2>1, <2>2, Climb
<1>8. IsHorner(v, n, B, 0, word)
  BY <1>4, <1>6, <1>7, Zenon DEF IsHorner
<1> QED
  BY <1>5, <1>8

\* The bytes of a number, read as a number, are that number.
LEMMA WordRead ==
    ASSUME NEW x \in Nat, x < Place[WORD_BYTES]
    PROVE  /\ hex_zero_padding_32(x) \in Seq(Bytes)
           /\ Len(hex_zero_padding_32(x)) = WORD_BYTES
           /\ from_big_endian(hex_zero_padding_32(x)) = x
<1> DEFINE W == WORD_BYTES
           B == ByteBase
           word == hex_zero_padding_32(x)
<1>1. W \in Nat \ {0} /\ B \in Nat \ {0, 1} /\ \A k \in 0 .. W : Place[k] \in Nat \ {0}
  BY PlaceTable
<1>2. /\ Place[0] = 1
      /\ \A k \in 1 .. W : Place[k] = B * Place[k - 1]
  BY PlaceTable
<1> DEFINE part(i) == x \div Place[W - i]
<1>3. \A i \in 0 .. W : part(i) \in Nat
  BY <1>1, Quotient
<1>4. word \in [1 .. W -> Bytes] /\ \A i \in 1 .. W : word[i] = part(i) % B
  BY <1>1, <1>3 DEF hex_zero_padding_32, Bytes
<1>5. \A i \in 1 .. W : part(i) = part(i - 1) * B + (part(i) % B)
  <2> SUFFICES ASSUME NEW i \in 1 .. W PROVE part(i) = part(i - 1) * B + (part(i) % B)
    OBVIOUS
  <2>1. W - i \in 0 .. W /\ W - (i - 1) = (W - i) + 1 /\ (W - i) + 1 \in 1 .. W
    BY <1>1
  <2>2. Place[W - (i - 1)] = Place[W - i] * B
    BY <1>1, <1>2, <2>1
  <2>3. part(i - 1) = part(i) \div B
    BY <1>1, <2>1, <2>2, QuotientOfQuotient
  <2>4. \A y \in Nat : y = (y \div B) * B + (y % B)
    BY <1>1
  <2> QED
    BY <1>3, <2>3, <2>4
<1>6. part(0) = 0 /\ part(W) = x
  <2>1. x \div Place[W] = 0
    BY <1>1, QuotientUnique
  <2>2. x \div 1 = x
    OBVIOUS
  <2> QED
    BY <1>1, <1>2, <2>1, <2>2
<1> HIDE DEF part, word
<1>7. word \in Seq(Bytes) /\ Len(word) = W
  BY <1>1, <1>4
<1>8. PICK v : IsHorner(v, Len(word), B, 0, word) /\ from_big_endian(word) = v[Len(word)]
  BY <1>7, ValueTable
<1> DEFINE S == {i \in 0 .. W : v[i] = part(i)}
<1>9. S = 0 .. W
  <2>1. S \in SUBSET (0 .. W) /\ 0 \in S
    BY <1>1, <1>6, <1>8 DEF IsHorner
  <2>2. \A i \in 1 .. W : i - 1 \in S => i \in S
    <3> SUFFICES ASSUME NEW i \in 1 .. W, v[i - 1] = part(i - 1) PROVE v[i] = part(i)
      BY <1>1
    <3>1. v[i] = v[i - 1] * B + word[i]
      BY <1>7, <1>8 DEF IsHorner
    <3> QED
      BY <1>4, <1>5, <3>1
  <2> HIDE DEF S, W
  <2> QED
    BY <1>1, <2>1, <2>2, Climb
<1>10. v[W] = part(W)
  BY <1>1, <1>9
<1> QED
  BY <1>6, <1>7, <1>8, <1>10 DEF word

\* A word of bytes is what hex_zero_padding_32 makes of its value.
LEMMA WordWritten ==
    ASSUME NEW word \in Seq(Bytes), Len(word) = WORD_BYTES
    PROVE  /\ from_big_endian(word) \in Nat
           /\ hex_zero_padding_32(from_big_endian(word)) = word
<1> DEFINE W == WORD_BYTES
           B == ByteBase
<1>1. W \in Nat \ {0} /\ B \in Nat \ {0, 1} /\ \A k \in 0 .. W : Place[k] \in Nat \ {0}
  BY PlaceTable
<1>2. /\ Place[0] = 1
      /\ \A k \in 1 .. W : Place[k] = B * Place[k - 1]
  BY PlaceTable
<1>3. PICK v : IsHorner(v, Len(word), B, 0, word) /\ from_big_endian(word) = v[Len(word)]
  BY ValueTable
<1>4. /\ \A i \in 0 .. W : v[i] \in Nat
      /\ \A i \in 1 .. W : v[i] = v[i - 1] * B + word[i] /\ word[i] \in 0 .. B - 1
  <2>1. ASSUME NEW i \in 1 .. W PROVE word[i] \in 0 .. B - 1
    BY <1>1 DEF Bytes
  <2> QED
    BY <1>1, <1>3, <2>1, Zenon DEF IsHorner
<1>5. \A i \in 1 .. W : v[i] \div B = v[i - 1] /\ v[i] % B = word[i]
  <2> SUFFICES ASSUME NEW i \in 1 .. W PROVE v[i] \div B = v[i - 1] /\ v[i] % B = word[i]
    OBVIOUS
  <2>1. v[i - 1] \in Nat /\ v[i] = v[i - 1] * B + word[i] /\ word[i] \in 0 .. B - 1
    BY <1>1, <1>4
  <2>2. B \in Nat \ {0} /\ v[i - 1] \in Nat /\ word[i] \in 0 .. B - 1
    BY <1>1, <2>1
  <2> HIDE DEF B
  <2>3. /\ (v[i - 1] * B + word[i]) \div B = v[i - 1]
        /\ (v[i - 1] * B + word[i]) % B = word[i]
    BY <2>2, Digit, Zenon
  <2> QED
    BY <2>1, <2>3, Zenon
<1> DEFINE S == {i \in 0 .. W : v[W] \div Place[W - i] = v[i]}
<1>6. S = 0 .. W
  <2>1. W \in S
    BY <1>1, <1>2, <1>4
  <2>2. \A i \in 1 .. W : i \in S => i - 1 \in S
    <3> SUFFICES ASSUME NEW i \in 1 .. W, v[W] \div Place[W - i] = v[i]
                 PROVE  v[W] \div Place[W - (i - 1)] = v[i - 1]
      BY <1>1
    <3>1. W - i \in 0 .. W /\ W - (i - 1) = (W - i) + 1 /\ (W - i) + 1 \in 1 .. W /\ W \in 0 .. W
      BY <1>1
    <3>2. Place[W - (i - 1)] = Place[W - i] * B
      BY <1>1, <1>2, <3>1
    <3>3. v[W] \div (Place[W - i] * B) = (v[W] \div Place[W - i]) \div B
      <4>1. v[W] \in Nat /\ Place[W - i] \in Nat \ {0} /\ B \in Nat \ {0}
        BY <1>1, <1>4, <3>1
      <4> HIDE DEF B, W
      <4> QED
        BY <4>1, QuotientOfQuotient
    <3> QED
      BY <1>5, <3>2, <3>3
  <2>3. S \in SUBSET (0 .. W)
    OBVIOUS
  <2> HIDE DEF S, W
  <2> QED
    BY <1>1, <2>1, <2>2, <2>3, Descend
<1>7. \A i \in 1 .. W : v[W] \div Place[W - i] = v[i]
  BY <1>1, <1>6
<1>8. hex_zero_padding_32(v[W]) = [i \in 1 .. W |-> word[i]]
  BY <1>5, <1>7 DEF hex_zero_padding_32
<1> QED
  BY <1>1, <1>3, <1>4, <1>8

----------------------------------------------------------------------------
(* Deposit data *)

\* MultiLocation::decode reads an encoding back.
LEMMA Decoded ==
    ASSUME NEW l \in EncodedLocations
    PROVE  decoded(l) = l /\ l # InvalidDepositData /\ l \in Seq(Bytes)
<1>1. l \in Seq(Bytes) /\ l # <<>>
  BY DepositDataAssumption
<1>2. Len(l) <= Len(l) /\ SubSeq(l, 1, Len(l)) = l
  <2>1. /\ SubSeq(l, 1, Len(l)) \in Seq(Bytes) /\ Len(SubSeq(l, 1, Len(l))) = Len(l)
        /\ \A i \in 1 .. Len(l) : SubSeq(l, 1, Len(l))[i] = l[i]
    BY <1>1
  <2> QED
    BY <1>1, <2>1
<1>3. Begins(l, l)
  BY <1>2, Zenon DEF Begins
<1>4. \A m \in EncodedLocations : Begins(m, l) => m = l
  BY DepositDataAssumption, Zenon
<1>5. {m \in EncodedLocations : Begins(m, l)} = {l}
  BY <1>3, <1>4, Zenon
<1>6. decoded(l) = l
  BY <1>5 DEF decoded
<1> QED
  BY <1>1, <1>6 DEF InvalidDepositData

\* What create_deposit_data makes of an amount and a location,
\* extract_deposit_data takes apart into that amount and that location.
LEMMA CreatedIsAccepted ==
    ASSUME NEW amount \in U128, NEW l \in EncodedLocations, NEW d,
           d = create_deposit_data(amount, l)
    PROVE  d \in Seq(Bytes) /\ extract_deposit_data(d) = <<amount, l>>
<1> DEFINE a == hex_zero_padding_32(amount)
           b == hex_zero_padding_32(Len(l))
<1>1. WORD_BYTES \in Nat \ {0} /\ Place[WORD_BYTES] \in Nat /\ MaxU128 \in Nat
  BY PlaceTable, TraitsAssumption
<1>2. amount \in Nat /\ amount <= MaxU128 /\ amount < Place[WORD_BYTES]
  BY <1>1, DepositDataAssumption DEF U128
<1>3. /\ decoded(l) = l /\ l # InvalidDepositData /\ l \in Seq(Bytes)
      /\ Len(l) \in Nat /\ Len(l) < Place[WORD_BYTES]
  <2>1. decoded(l) = l /\ l # InvalidDepositData /\ l \in Seq(Bytes)
    BY Decoded
  <2> QED
    BY <2>1, DepositDataAssumption
<1>4. a \in Seq(Bytes) /\ Len(a) = WORD_BYTES /\ from_big_endian(a) = amount
  BY <1>2, WordRead
<1>5. b \in Seq(Bytes) /\ Len(b) = WORD_BYTES /\ from_big_endian(b) = Len(l)
  BY <1>3, WordRead
<1>6. d = (a \o b) \o l
  BY DEF create_deposit_data
<1> HIDE DEF a, b
<1>7. /\ d \in Seq(Bytes) /\ Len(d) = 2 * WORD_BYTES + Len(l)
      /\ SubSeq(d, 1, WORD_BYTES) = a /\ SubSeq(d, WORD_BYTES + 1, 2 * WORD_BYTES) = b
      /\ SubSeq(d, 2 * WORD_BYTES + 1, Len(d)) = l
  <2>1. HasWords(d, Bytes, WORD_BYTES, a, b, l)
    BY <1>1, <1>3, <1>4, <1>5, <1>6, PartsOfWhole
  <2> QED
    BY <2>1, Zenon DEF HasWords
<1>8. ~(Len(d) < 2 * WORD_BYTES) /\ ~(amount > MaxU128) /\ Len(d) - 2 * WORD_BYTES = Len(l)
  BY <1>1, <1>2, <1>3, <1>7
<1>9. extract_deposit_data(d) = <<amount, l>>
  BY <1>3, <1>4, <1>5, <1>7, <1>8, Zenon DEF extract_deposit_data
<1> QED
  BY <1>7, <1>9

\* Data that extract_deposit_data accepts was made by create_deposit_data from
\* the amount it yields and recipient bytes that begin with the location.
LEMMA AcceptedIsCreated ==
    ASSUME NEW d \in Seq(Bytes), NEW x, x = extract_deposit_data(d), x # InvalidDepositData,
           NEW bytes, bytes = SubSeq(d, 2 * WORD_BYTES + 1, Len(d))
    PROVE  d = create_deposit_data(x[1], bytes) /\ Begins(x[2], bytes)
<1> DEFINE a == SubSeq(d, 1, WORD_BYTES)
           b == SubSeq(d, WORD_BYTES + 1, 2 * WORD_BYTES)
           l == decoded(bytes)
<1>1. /\ ~(Len(d) < 2 * WORD_BYTES) /\ Len(d) - 2 * WORD_BYTES = from_big_endian(b)
      /\ l # InvalidDepositData /\ x = <<from_big_endian(a), l>>
  BY Zenon DEF extract_deposit_data
<1>2. WORD_BYTES \in Nat /\ Len(d) \in Nat /\ 2 * WORD_BYTES <= Len(d)
  <2>1. WORD_BYTES \in Nat
    BY PlaceTable, Zenon
  <2> QED
    BY <1>1, <2>1
<1>3. /\ a \in Seq(Bytes) /\ Len(a) = WORD_BYTES
      /\ b \in Seq(Bytes) /\ Len(b) = WORD_BYTES
      /\ Len(bytes) = Len(d) - 2 * WORD_BYTES
      /\ d = a \o b \o bytes
  <2>1. /\ a \in Seq(Bytes) /\ Len(a) = WORD_BYTES /\ b \in Seq(Bytes) /\ Len(b) = WORD_BYTES
        /\ LET c == SubSeq(d, 2 * WORD_BYTES + 1, Len(d))
           IN  c \in Seq(Bytes) /\ Len(c) = Len(d) - 2 * WORD_BYTES /\ d = (a \o b) \o c
    BY <1>2, WholeOfParts, Zenon
  <2> QED
    BY <2>1, Zenon
<1>4. hex_zero_padding_32(from_big_endian(a)) = a /\ hex_zero_padding_32(from_big_endian(b)) = b
  BY <1>3, WordWritten, Zenon
<1>5. x[1] = from_big_endian(a) /\ x[2] = l
  BY <1>1
<1>6. d = create_deposit_data(x[1], bytes)
  BY <1>1, <1>3, <1>4, <1>5, Zenon DEF create_deposit_data
<1>7. Begins(l, bytes)
  BY <1>1, Zenon DEF decoded
<1> QED
  BY <1>5, <1>6, <1>7

----------------------------------------------------------------------------
(* Round trips *)

\* The invariant.  An amount that came back is a fixed point of the conversions,
\* data on its way that nobody garbled is what deposit made of the amount held.
TripInv ==
    /\ TripTypeOK
    /\ data # None => data \in Seq(Bytes)
    /\ data # None /\ ~garbled =>
          /\ convert_to(asset, held) # None
          /\ data = create_deposit_data(convert_to(asset, held), recipient)
    /\ held <= start
    /\ settled => /\ convert_to(asset, held) # None
                  /\ convert_from(asset, convert_to(asset, held)) = held
    /\ ExactInRange

\* execute_proposal pays what the conversions make of the amount held.
LEMMA PaidIsConverted ==
    ASSUME TripInv, data # None, ~garbled
    PROVE  /\ extract_deposit_data(data) = <<convert_to(asset, held), recipient>>
           /\ paid(data) = convert_from(asset, convert_to(asset, held))
<1>1. convert_to(asset, held) \in U128 /\ recipient \in EncodedLocations
  BY DEF TripInv, TripTypeOK
<1>2. extract_deposit_data(data) = <<convert_to(asset, held), recipient>>
  BY <1>1, CreatedIsAccepted DEF TripInv
<1> QED
  BY <1>2 DEF paid, InvalidDepositData

\* Below the stated maximum the conversions return what they were given.
LEMMA ExactTrip ==
    ASSUME NEW a \in AssetIds, NEW x \in Nat, NEW y, y = convert_to(a, x), y # None,
           NEW z, z = convert_from(a, y), z # None,
           Decimals[a] # None, Decimals[a] <= 18, x * Pow10[18 - Decimals[a]] <= FixedMax
    PROVE  z = x
<1> DEFINE k == 18 - Decimals[a]
<1>1. Decimals[a] \in Int /\ k \in 0 .. MaxExp
  BY Exponent
<1>2. CASE Decimals[a] = 18
  BY <1>2 DEF convert_to, convert_from
<1>3. CASE Decimals[a] # 18
  <2>1. y = scale_up(x, k) /\ z = scale_down(y, k)
    BY <1>1, <1>3 DEF convert_to, convert_from
  <2>2. /\ Pow10[k] \in Nat /\ factor(k) \in Nat /\ factor(k) <= Pow10[k] /\ FixedMax \in Nat
    BY <1>1, FixedPoint DEF factor
  <2>3. x * factor(k) <= x * Pow10[k] /\ x * factor(k) \in Nat /\ x * Pow10[k] \in Nat
    BY <2>2
  <2>4. x * factor(k) <= FixedMax
    BY <2>2, <2>3
  <2> HIDE DEF k
  <2> QED
    BY <1>1, <2>1, <2>4, UpThenDown
<1> QED
  BY <1>2, <1>3

\* What is given back: no more than was held, exactly that from the second trip
\* on, and exactly what was first sent where the range allows it.
LEMMA PaidBack ==
    ASSUME TripInv, data # None, ~garbled, NEW z, z = paid(data), z # None
    PROVE  /\ z \in U128 /\ z <= held
           /\ convert_to(asset, z) # None /\ convert_from(asset, convert_to(asset, z)) = z
           /\ settled => z = held
           /\ /\ Decimals[asset] # None /\ Decimals[asset] <= 18
              /\ start * Pow10[Exp] <= FixedMax
              => z = start
<1> DEFINE y == convert_to(asset, held)
<1>1. z = convert_from(asset, y) /\ y # None
  BY PaidIsConverted DEF TripInv
<1>2. asset \in AssetIds /\ held \in Nat /\ held <= MaxU128 /\ MaxU128 \in Nat
  BY TraitsAssumption DEF TripInv, TripTypeOK, U128
<1>3. /\ z \in Nat /\ z <= held
      /\ convert_to(asset, z) # None /\ convert_from(asset, convert_to(asset, z)) = z
  BY <1>1, <1>2, RoundTrip
<1>4. z \in U128
  BY <1>2, <1>3 DEF U128
<1>5. settled => z = held
  BY <1>1 DEF TripInv
<1>6. ASSUME Decimals[asset] # None, Decimals[asset] <= 18, start * Pow10[Exp] <= FixedMax
      PROVE  z = start
  <2>1. held = start
    BY <1>6 DEF TripInv, ExactInRange
  <2>2. Exp = 18 - Decimals[asset]
    BY <1>2, <1>6, Exponent DEF Exp
  <2>3. held * Pow10[18 - Decimals[asset]] <= FixedMax
    BY <1>6, <2>1, <2>2
  <2> HIDE DEF y
  <2>4. z = held
    <3>1. y = convert_to(asset, held)
      BY DEF y
    <3> QED
      BY <1>1, <1>2, <1>6, <2>3, <3>1, ExactTrip
  <2> QED
    BY <2>1, <2>4
<1> QED
  BY <1>3, <1>4, <1>5, <1>6

\* Garbled data is still a sequence of bytes.
LEMMA GarbledBytes ==
    ASSUME NEW d \in Seq(Bytes), NEW e \in garblings(d)
    PROVE  e \in Seq(Bytes)
<1>1. /\ ByteBase \in Nat \ {0} /\ Garbles \subseteq Bytes
      /\ Len(d) \in Nat /\ DOMAIN d = 1 .. Len(d) /\ \A i \in 1 .. Len(d) : d[i] \in Bytes
  BY PlaceTable, RoundTripAssumption
<1>2. ASSUME NEW i \in 1 .. Len(d), NEW b \in Garbles
      PROVE  [d EXCEPT ![i] = (@ + b) % ByteBase] \in Seq(Bytes)
  <2>1. d[i] \in Nat /\ b \in Nat
    BY <1>1 DEF Bytes
  <2>2. (d[i] + b) % ByteBase \in Bytes
    BY <1>1, <2>1 DEF Bytes
  <2> QED
    BY <2>2
<1>3. ASSUME NEW n \in 0 .. Len(d) - 1 PROVE SubSeq(d, 1, n) \in Seq(Bytes)
  BY <1>1
<1>4. ASSUME NEW b \in Garbles PROVE Append(d, b) \in Seq(Bytes)
  BY <1>1
<1> QED
  BY <1>1, <1>2, <1>3, <1>4 DEF garblings

\* The invariant holds at the start.
LEMMA TripInitial == TripInit => TripInv
<1> SUFFICES ASSUME TripInit PROVE TripInv
  OBVIOUS
<1>1. start \in U128 /\ held = start /\ start \in Nat
  BY RoundTripAssumption, TraitsAssumption DEF TripInit, U128
<1>2. convert_to(asset, held) \in U128 \cup {None}
  BY <1>1, ConvertedFits DEF TripInit
<1>3. TripTypeOK
  BY <1>1, <1>2, Zenon DEF TripInit, TripTypeOK
<1>4. held <= start
  BY <1>1
<1> QED
  BY <1>1, <1>3, <1>4 DEF TripInit, TripInv, ExactInRange

\* Every step keeps the invariant, and a step after the first round trip leaves
\* the amount as it is.
LEMMA TripStep == TripInv /\ [TripNext]_tripVars => TripInv' /\ (settled => held' = held)
<1> SUFFICES ASSUME TripInv, [TripNext]_tripVars PROVE TripInv' /\ (settled => held' = held)
  OBVIOUS
<1>1. CASE BridgeOut
  <2> DEFINE y == convert_to(asset, held)
  <2>1. y # None /\ data' = create_deposit_data(y, recipient)
    BY <1>1 DEF BridgeOut
  <2>2. y \in U128 /\ recipient \in EncodedLocations
    BY <2>1 DEF TripInv, TripTypeOK
  <2>3. data' \in Seq(Bytes)
    BY <2>1, <2>2, CreatedIsAccepted
  <2>4. \A i \in DOMAIN data' : data'[i] \in Bytes
    BY <2>3
  <2>5. UNCHANGED <<asset, recipient, start, held, garbled, settled>>
    BY <1>1 DEF BridgeOut
  <2>6. TripTypeOK'
    BY <2>4, <2>5 DEF TripInv, TripTypeOK
  <2>7. ExactInRange'
    BY <2>5 DEF TripInv, ExactInRange, Exp
  <2> QED
    BY <2>1, <2>3, <2>5, <2>6, <2>7 DEF TripInv
<1>2. CASE BridgeBack
  <2>1. /\ data # None /\ ~garbled /\ paid(data) # None
        /\ held' = paid(data) /\ data' = None /\ settled' = TRUE
        /\ UNCHANGED <<asset, recipient, start, garbled>>
    BY <1>2 DEF BridgeBack
  <2> DEFINE z == paid(data)
  <2>2. /\ z \in U128 /\ z <= held
        /\ convert_to(asset, z) # None /\ convert_from(asset, convert_to(asset, z)) = z
        /\ settled => z = held
    BY <2>1, PaidBack
  <2>3. /\ Decimals[asset] # None /\ Decimals[asset] <= 18
        /\ start * Pow10[Exp] <= FixedMax
        => z = start
    BY <2>1, PaidBack
  <2> HIDE DEF z
  <2>4. held' = z
    BY <2>1 DEF z
  <2>5. TripTypeOK'
    <3>1. convert_to(asset, z) \in U128 \cup {None}
      BY <2>2, ConvertedFits DEF TripInv, TripTypeOK
    <3> QED
      BY <2>1, <2>2, <2>4, <3>1 DEF TripInv, TripTypeOK
  <2>6. ExactInRange'
    BY <2>1, <2>3, <2>4 DEF ExactInRange, Exp
  <2>7. held' <= start'
    <3>1. held \in Int /\ start \in Int /\ z \in Int /\ held <= start /\ start' = start
      BY <2>1, <2>2, TraitsAssumption DEF TripInv, TripTypeOK, U128
    <3> QED
      BY <2>2, <2>4, <3>1
  <2> QED
    BY <2>1, <2>2, <2>4, <2>5, <2>6, <2>7 DEF TripInv
<1>3. CASE Garble
  <2>1. /\ data # None /\ data' \in garblings(data) /\ garbled' = TRUE
        /\ UNCHANGED <<asset, recipient, start, held, settled>>
    BY <1>3 DEF Garble
  <2>2. data' \in Seq(Bytes)
    BY <2>1, GarbledBytes DEF TripInv
  <2>3. \A i \in DOMAIN data' : data'[i] \in Bytes
    BY <2>2
  <2>4. TripTypeOK'
    BY <2>1, <2>3 DEF TripInv, TripTypeOK
  <2>5. ExactInRange'
    BY <2>1 DEF TripInv, ExactInRange, Exp
  <2> QED
    BY <2>1, <2>2, <2>4, <2>5 DEF TripInv
<1>4. CASE UNCHANGED tripVars
  BY <1>4 DEF tripVars, TripInv, TripTypeOK, ExactInRange, Exp
<1> QED
  BY <1>1, <1>2, <1>3, <1>4 DEF TripNext

\* The invariant holds in every reachable state.
LEMMA TripInvariant == TripSpec => []TripInv
<1>1. TripInit => TripInv
  BY TripInitial
<1>2. TripInv /\ [TripNext]_tripVars => TripInv'
  BY TripStep
<1> QED
  BY <1>1, <1>2, PTL DEF TripSpec

\* Amounts stay within the u128 and words within their bytes, whatever the
\* decimals and the range of the fixed point type.
THEOREM TripTypes == TripSpec => []TripTypeOK
<1>1. TripInv => TripTypeOK
  BY DEF TripInv
<1> QED
  BY <1>1, TripInvariant, PTL

\* However often an amount goes out and back, convert_to and convert_from never
\* return more than was first sent.
THEOREM TripsNeverGain == TripSpec => []NeverGains
<1>1. TripInv => NeverGains
  <2> SUFFICES ASSUME TripInv, data # None, ~garbled, paid(data) # None
               PROVE  paid(data) <= held
    BY DEF TripInv, NeverGains
  <2> QED
    BY PaidBack
<1> QED
  BY <1>1, TripInvariant, PTL

\* In the range the comments of the converter state, nothing is lost.
THEOREM TripsExactInRange == TripSpec => []ExactInRange
<1>1. TripInv => ExactInRange
  BY DEF TripInv
<1> QED
  BY <1>1, TripInvariant, PTL

\* extract_deposit_data inverts create_deposit_data and accepts nothing that it
\* did not make, for words of any size and any prefix-free location encoding.
THEOREM OnlyCreatedIsAccepted == TripSpec => []AcceptsExactlyWhatIsCreated
<1>1. TripInv => AcceptsExactlyWhatIsCreated
  <2> SUFFICES ASSUME TripInv, data # None
               PROVE  AcceptsExactlyWhatIsCreated
    BY DEF AcceptsExactlyWhatIsCreated
  <2>1. ~garbled => extract_deposit_data(data) = <<convert_to(asset, held), recipient>>
    BY PaidIsConverted
  <2>2. data \in Seq(Bytes)
    BY DEF TripInv
  <2>3. ASSUME extract_deposit_data(data) # InvalidDepositData
        PROVE  LET bytes == SubSeq(data, 2 * WORD_BYTES + 1, Len(data))
               IN  /\ data = create_deposit_data(extract_deposit_data(data)[1], bytes)
                   /\ Begins(extract_deposit_data(data)[2], bytes)
    BY <2>2, <2>3, AcceptedIsCreated, Zenon
  <2> QED
    BY <2>1, <2>3, Zenon DEF AcceptsExactlyWhatIsCreated
<1> QED
  BY <1>1, TripInvariant, PTL

\* Once an amount has come back, every later trip returns all of it.
THEOREM TripsLoseOnce == TripSpec => LossOnlyOnce
<1>1. TripInv /\ [TripNext]_tripVars => [settled => held' = held]_tripVars
  BY TripStep
<1> QED
  BY <1>1, TripInvariant, PTL DEF TripSpec, LossOnlyOnce

=============================================================================
