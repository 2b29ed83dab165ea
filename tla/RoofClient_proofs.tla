--------------------------- MODULE RoofClient_proofs ---------------------------
(***************************************************************************)
(* Theorems about the client, for every application, command line, number  *)
(* of threads and bound.                                                   *)
(***************************************************************************)
EXTENDS RoofClient, FiniteSetTheorems, SequenceTheorems,
        WellFoundedInduction, TLAPS

(***************************************************************************)
(* Numerals.  What std::to_string makes of two numbers differs, and what a *)
(* numeral begins with is one too.  Numbers are taken in their order: of   *)
(* those that would break a lemma there would be a least one.              *)
(***************************************************************************)
\* A set of numbers that is not empty has a least one.
LEMMA LeastNumber ==
  ASSUME NEW S \in SUBSET Nat, S # {}
  PROVE  \E m \in S : \A n \in S : m =< n
<1>1. IsWellFoundedOn(OpToRel(<, Nat), Nat)
  BY NatLessThanWellFounded
<1>2. PICK m \in S : \A n \in S : ~(<<n, m>> \in OpToRel(<, Nat))
  BY <1>1, WFMin
<1>3. \A n \in S : ~(n < m)
  BY <1>2 DEF OpToRel
<1> QED
  BY <1>3

\* The two digits that a division by ten yields.
LEMMA Division ==
  ASSUME NEW n \in Nat
  PROVE  /\ n \div 10 \in Nat /\ n % 10 \in 0 .. 9 /\ n = 10 * (n \div 10) + (n % 10)
         /\ n >= 10 => n \div 10 < n /\ n \div 10 # 0
<1>1. n \div 10 \in Nat /\ n % 10 \in 0 .. 9
  OBVIOUS
<1>2. n = 10 * (n \div 10) + (n % 10)
  OBVIOUS
<1> DEFINE q == n \div 10
           r == n % 10
<1> HIDE DEF q, r
<1>3. q \in Nat /\ r \in 0 .. 9 /\ n = 10 * q + r
  BY <1>1, <1>2 DEF q, r
<1>4. n >= 10 => q < n /\ q # 0
  BY <1>3
<1> QED
  BY <1>1, <1>2, <1>4 DEF q, r

\* What defines a numeral, and the numerals up to a number.
NumeralStep(g, n) == IF n < 10 THEN <<n>> ELSE Append(g[n \div 10], n % 10)
UpTo(g, k) == g = [n \in 0 .. k |-> NumeralStep(g, n)]

\* Two tables of numerals agree as far as both reach.
LEMMA NumeralsAgree ==
  ASSUME NEW k \in Nat, NEW l \in Nat, NEW g, NEW h, UpTo(g, k), UpTo(h, l),
         NEW n \in Nat, n =< k, n =< l
  PROVE  g[n] = h[n]
<1> DEFINE S == {i \in Nat : i =< k /\ i =< l /\ g[i] # h[i]}
<1> SUFFICES ASSUME S # {} PROVE FALSE
  OBVIOUS
<1>1. PICK m \in S : \A i \in S : m =< i
  <2>1. S \in SUBSET Nat
    OBVIOUS
  <2> HIDE DEF S
  <2> QED
    BY <2>1, LeastNumber
<1>2. m \in Nat /\ m =< k /\ m =< l /\ g[m] # h[m]
  OBVIOUS
<1>3. g[m] = NumeralStep(g, m) /\ h[m] = NumeralStep(h, m)
  <2>1. m \in 0 .. k /\ m \in 0 .. l
    BY <1>2
  <2> HIDE DEF S
  <2> QED
    BY <2>1 DEF UpTo
<1>4. m >= 10
  BY <1>2, <1>3 DEF NumeralStep
<1>5. g[m \div 10] = h[m \div 10]
  <2>1. m \div 10 \in Nat /\ m \div 10 < m
    BY <1>2, <1>4, Division
  <2>2. m \div 10 \notin S
    BY <1>1, <2>1
  <2> QED
    BY <1>2, <2>1, <2>2
<1> QED
  BY <1>2, <1>3, <1>5 DEF NumeralStep

\* There is a table of the numerals up to any number.
LEMMA NumeralsExist ==
  ASSUME NEW k \in Nat
  PROVE  \E g : UpTo(g, k)
<1> DEFINE S == {i \in Nat : ~\E g : UpTo(g, i)}
<1> SUFFICES ASSUME S # {} PROVE FALSE
  OBVIOUS
<1>1. PICK m \in S : \A i \in S : m =< i
  <2>1. S \in SUBSET Nat
    OBVIOUS
  <2> HIDE DEF S
  <2> QED
    BY <2>1, LeastNumber
<1>2. m \in Nat /\ ~\E g : UpTo(g, m)
  OBVIOUS
<1>3. m # 0
  <2> DEFINE g == [n \in 0 .. 0 |-> <<n>>]
  <2>1. UpTo(g, 0)
    BY DEF UpTo, NumeralStep
  <2> QED
    BY <1>2, <2>1
<1>4. PICK g : UpTo(g, m - 1)
  <2>1. m - 1 \in Nat /\ m - 1 \notin S
    BY <1>1, <1>2, <1>3
  <2> QED
    BY <2>1
<1> DEFINE h == [n \in 0 .. m |-> IF n = m THEN NumeralStep(g, m) ELSE g[n]]
<1>5. \A n \in 0 .. m : h[n] = NumeralStep(h, n)
  <2> SUFFICES ASSUME NEW n \in 0 .. m PROVE h[n] = NumeralStep(h, n)
    OBVIOUS
  <2>1. n >= 10 => n \div 10 \in 0 .. (m - 1)
    BY <1>2, Division
  <2>2. n >= 10 => h[n \div 10] = g[n \div 10]
    BY <1>2, <2>1
  <2>3. n # m => n \in 0 .. (m - 1) /\ g[n] = NumeralStep(g, n)
    BY <1>2, <1>4 DEF UpTo
  <2>4. h[n] = NumeralStep(g, n)
    BY <2>3
  <2> QED
    BY <2>2, <2>4 DEF NumeralStep
<1>6. UpTo(h, m)
  BY <1>5 DEF UpTo
<1> QED
  BY <1>2, <1>6

\* So the recursive definition of Numeral has a meaning, and is what it says.
LEMMA NumeralIs ==
  \A n \in Nat : Numeral[n] = IF n < 10 THEN <<n>> ELSE Append(Numeral[n \div 10], n % 10)
<1> DEFINE G(n) == CHOOSE g : UpTo(g, n)
           F == [n \in Nat |-> G(n)[n]]
<1>1. \A n \in Nat : UpTo(G(n), n)
  BY NumeralsExist
<1> HIDE DEF G
<1>2. ASSUME NEW n \in Nat PROVE F[n] = NumeralStep(F, n)
  <2>1. F[n] = NumeralStep(G(n), n)
    BY <1>1 DEF UpTo
  <2>2. n >= 10 => F[n \div 10] = G(n)[n \div 10]
    <3> SUFFICES ASSUME n >= 10 PROVE F[n \div 10] = G(n)[n \div 10]
      OBVIOUS
    <3>1. n \div 10 \in Nat /\ n \div 10 < n
      BY Division
    <3>2. UpTo(G(n \div 10), n \div 10) /\ UpTo(G(n), n)
      BY <1>1, <3>1
    <3>3. G(n \div 10)[n \div 10] = G(n)[n \div 10]
      BY <3>1, <3>2, NumeralsAgree
    <3> QED
      BY <3>1, <3>3
  <2> HIDE DEF F
  <2> QED
    BY <2>1, <2>2 DEF NumeralStep
<1>3. F = [n \in Nat |-> NumeralStep(F, n)]
  BY <1>2
<1> HIDE DEF F
<1>4. \E g : g = [n \in Nat |-> IF n < 10 THEN <<n>> ELSE Append(g[n \div 10], n % 10)]
  BY <1>3 DEF NumeralStep
<1>5. Numeral = [n \in Nat |-> IF n < 10 THEN <<n>> ELSE Append(Numeral[n \div 10], n % 10)]
  BY <1>4 DEF Numeral
<1> QED
  BY <1>5

\* A number below ten is one digit.
LEMMA ShortNumeral ==
  ASSUME NEW n \in Nat, n < 10
  PROVE  Numeral[n] = <<n>>
<1>1. Numeral[n] = IF n < 10 THEN <<n>> ELSE Append(Numeral[n \div 10], n % 10)
  BY NumeralIs
<1> QED
  BY <1>1

\* Any other one is the numeral of a tenth of it and its last digit.
LEMMA LongNumeral ==
  ASSUME NEW n \in Nat, n >= 10
  PROVE  Numeral[n] = Append(Numeral[n \div 10], n % 10)
<1>1. Numeral[n] = IF n < 10 THEN <<n>> ELSE Append(Numeral[n \div 10], n % 10)
  BY NumeralIs
<1> QED
  BY <1>1

\* A numeral is a sequence of digits, and not an empty one.
LEMMA NumeralType ==
  ASSUME NEW n \in Nat
  PROVE  Numeral[n] \in Seq(Digit) /\ Len(Numeral[n]) \in Nat /\ Len(Numeral[n]) # 0
<1> DEFINE Fine(k) == Numeral[k] \in Seq(Digit) /\ Len(Numeral[k]) # 0
           S == {i \in Nat : ~Fine(i)}
<1>0. SUFFICES ASSUME S # {} PROVE FALSE
  OBVIOUS
<1>1. PICK m \in S : \A i \in S : m =< i
  <2>1. S \in SUBSET Nat
    OBVIOUS
  <2> HIDE DEF S
  <2> QED
    BY <1>0, <2>1, LeastNumber
<1>2. m \in Nat /\ ~Fine(m)
  OBVIOUS
<1>3. CASE m < 10
  <2>1. Numeral[m] = <<m>> /\ m \in Digit
    BY <1>2, <1>3, ShortNumeral DEF Digit
  <2> QED
    BY <1>2, <2>1
<1>4. CASE m >= 10
  <2>1. m \div 10 \in Nat /\ m \div 10 < m /\ m % 10 \in Digit
    BY <1>2, <1>4, Division DEF Digit
  <2>2. Fine(m \div 10)
    BY <1>1, <1>2, <2>1
  <2>3. Numeral[m] = Append(Numeral[m \div 10], m % 10)
    BY <1>2, <1>4, LongNumeral
  <2> QED
    BY <1>2, <2>1, <2>2, <2>3
<1> QED
  BY <1>2, <1>3, <1>4

\* Two numbers have two numerals.
LEMMA NumeralInjective ==
  ASSUME NEW m \in Nat, NEW n \in Nat, Numeral[m] = Numeral[n]
  PROVE  m = n
<1> DEFINE S == {i \in Nat : \E j \in Nat : Numeral[i] = Numeral[j] /\ i # j}
<1>0. SUFFICES ASSUME S # {} PROVE FALSE
  OBVIOUS
<1>1. PICK i \in S : \A k \in S : i =< k
  <2>1. S \in SUBSET Nat
    OBVIOUS
  <2> HIDE DEF S
  <2> QED
    BY <1>0, <2>1, LeastNumber
<1>2. PICK j \in Nat : Numeral[i] = Numeral[j] /\ i # j
  OBVIOUS
<1>3. i \in Nat
  OBVIOUS
<1> DEFINE p == i \div 10
           q == j \div 10
           r == i % 10
           s == j % 10
<1>4. /\ p \in Nat /\ r \in Digit /\ i = 10 * p + r
      /\ q \in Nat /\ s \in Digit /\ j = 10 * q + s
      /\ i >= 10 => p < i
  BY <1>3, Division DEF Digit
<1>5. /\ Numeral[i] = IF i < 10 THEN <<i>> ELSE Append(Numeral[p], r)
      /\ Numeral[j] = IF j < 10 THEN <<j>> ELSE Append(Numeral[q], s)
  BY <1>3, NumeralIs
<1>6. /\ Numeral[p] \in Seq(Digit) /\ Len(Numeral[p]) # 0
      /\ Numeral[q] \in Seq(Digit) /\ Len(Numeral[q]) # 0
  BY <1>4, NumeralType
<1>7. p \notin S \/ i < 10
  BY <1>1, <1>3, <1>4
<1> HIDE DEF p, q, r, s
<1>8. CASE i < 10 \/ j < 10
  <2>1. Len(<<i>>) = 1 /\ Len(<<j>>) = 1 /\ <<i>>[1] = i /\ <<j>>[1] = j
    OBVIOUS
  <2>2. Len(Append(Numeral[p], r)) # 1 /\ Len(Append(Numeral[q], s)) # 1
    BY <1>4, <1>6
  <2> QED
    BY <1>2, <1>5, <1>8, <2>1, <2>2
<1>9. CASE ~(i < 10 \/ j < 10)
  <2>1. Append(Numeral[p], r) = Append(Numeral[q], s)
    BY <1>2, <1>5, <1>9
  <2>2. Numeral[p] = Numeral[q] /\ r = s
    <3>1. /\ Numeral[p] \in Seq(Digit) /\ Numeral[q] \in Seq(Digit)
          /\ r \in Digit /\ s \in Digit
      BY <1>4, <1>6
    <3> DEFINE e == Numeral[p]
               f == Numeral[q]
    <3>2. e \in Seq(Digit) /\ f \in Seq(Digit) /\ Append(e, r) = Append(f, s)
      BY <2>1, <3>1
    <3> HIDE DEF e, f
    <3>3. e = f /\ r = s
      BY <3>1, <3>2, AppendInjective
    <3> QED
      BY <3>3 DEF e, f
  <2>3. p = q
    BY <1>4, <1>7, <1>9, <2>2
  <2> QED
    BY <1>2, <1>4, <2>2, <2>3
<1> QED
  BY <1>8, <1>9

\* What a numeral begins with is a numeral.
LEMMA NumeralBegins ==
  ASSUME NEW n \in Nat \ {0}, NEW k \in 1 .. Len(Numeral[n])
  PROVE  \E m \in Nat \ {0} : SubSeq(Numeral[n], 1, k) = Numeral[m]
<1> DEFINE Fine(i) == \A l \in 1 .. Len(Numeral[i]) :
                        \E m \in Nat \ {0} : SubSeq(Numeral[i], 1, l) = Numeral[m]
           S == {i \in Nat \ {0} : ~Fine(i)}
<1>0. SUFFICES ASSUME S # {} PROVE FALSE
  OBVIOUS
<1>1. PICK i \in S : \A j \in S : i =< j
  <2>1. S \in SUBSET Nat
    OBVIOUS
  <2> HIDE DEF S
  <2> QED
    BY <1>0, <2>1, LeastNumber
<1>2. i \in Nat \ {0} /\ ~Fine(i)
  OBVIOUS
<1>3. PICK l \in 1 .. Len(Numeral[i]) : \A m \in Nat \ {0} : SubSeq(Numeral[i], 1, l) # Numeral[m]
  BY <1>2
<1>4. Numeral[i] \in Seq(Digit) /\ Len(Numeral[i]) \in Nat
  BY <1>2, NumeralType
<1>5. l # Len(Numeral[i])
  <2>1. SubSeq(Numeral[i], 1, Len(Numeral[i])) = Numeral[i]
    BY <1>4
  <2> QED
    BY <1>2, <1>3, <2>1
<1>6. i >= 10
  <2>1. SUFFICES ASSUME i < 10 PROVE FALSE
    BY <1>2
  <2>2. Numeral[i] = <<i>>
    BY <1>2, <2>1, ShortNumeral
  <2>3. Len(Numeral[i]) = 1
    BY <2>2
  <2> HIDE DEF S
  <2> QED
    BY <1>5, <2>3
<1> DEFINE p == i \div 10
<1>7. p \in Nat /\ p < i /\ p # 0 /\ i % 10 \in Digit
  BY <1>2, <1>6, Division DEF Digit
<1>8. Numeral[i] = Append(Numeral[p], i % 10)
  BY <1>2, <1>6, LongNumeral
<1>9. Fine(p)
  BY <1>1, <1>2, <1>7
<1>10. Numeral[p] \in Seq(Digit)
  BY <1>7, NumeralType
<1> HIDE DEF p, S
<1>11. l \in 1 .. Len(Numeral[p]) /\ SubSeq(Numeral[i], 1, l) = SubSeq(Numeral[p], 1, l)
  <2>1. Len(Numeral[i]) = Len(Numeral[p]) + 1
    BY <1>7, <1>8, <1>10
  <2>2. l \in 1 .. Len(Numeral[p])
    BY <1>4, <1>5, <2>1, <1>10
  <2>3. SubSeq(Append(Numeral[p], i % 10), 1, l) = SubSeq(Numeral[p], 1, l)
    BY <1>7, <1>10, <2>2
  <2> QED
    BY <1>8, <2>2, <2>3
<1> QED
  BY <1>3, <1>9, <1>11

\* Appending a number to a text gives a longer one.
LEMMA WithNumberType ==
  ASSUME NEW s \in Text, NEW n \in Nat
  PROVE  WithNumber(s, n) \in Text /\ WithNumber(s, n) # s /\ WithNumber(s, n) # <<>>
<1>1. Numeral[n] \in Seq(Char \cup Digit) /\ Len(Numeral[n]) > 0
  BY NumeralType
<1>2. s \in Seq(Char \cup Digit)
  BY DEF Text
<1> DEFINE d == Numeral[n]
<1> HIDE DEF d
<1>3. d \in Seq(Char \cup Digit) /\ Len(d) > 0
  BY <1>1 DEF d
<1>4. s \o d \in Seq(Char \cup Digit) /\ Len(s \o d) > Len(s) /\ Len(s) \in Nat
  BY <1>2, <1>3
<1> QED
  BY <1>4 DEF WithNumber, Text, d

\* Two numbers after one text give two texts.
LEMMA NumberTells ==
  ASSUME NEW s \in Text, NEW m \in Nat, NEW n \in Nat, WithNumber(s, m) = WithNumber(s, n)
  PROVE  m = n
<1>1. \A k \in Nat : Numeral[k] \in Seq(Char \cup Digit)
  BY NumeralType
<1> DEFINE d == Numeral[m]
           e == Numeral[n]
<1>2. d \in Seq(Char \cup Digit) /\ e \in Seq(Char \cup Digit) /\ s \in Seq(Char \cup Digit)
  BY <1>1 DEF Text
<1>3. s \o d = s \o e
  BY DEF WithNumber
<1> HIDE DEF d, e
<1>4. d = e
  BY <1>2, <1>3, ConcatSimplifications
<1> QED
  BY <1>4, NumeralInjective DEF d, e

\* One text from two labels and two numbers: one label begins with the other,
\* and goes on with the first digits of the number.
LEMMA NumberBetween ==
  ASSUME NEW l \in Text, NEW m \in Text, NEW i \in Nat \ {0}, NEW j \in Nat \ {0},
         WithNumber(l, i) = WithNumber(m, j), Len(l) =< Len(m), l # m
  PROVE  \E n \in Nat \ {0} : m = WithNumber(l, n)
<1> DEFINE d == Numeral[i]
           e == Numeral[j]
           k == Len(m) - Len(l)
<1>0. /\ d \in Seq(Char \cup Digit) /\ e \in Seq(Char \cup Digit) /\ Len(e) > 0
      /\ l \in Seq(Char \cup Digit) /\ m \in Seq(Char \cup Digit)
      /\ l \o d = m \o e
  BY NumeralType DEF Text, WithNumber
<1> HIDE DEF d, e
<1>1. /\ Len(l) + Len(d) = Len(m) + Len(e)
      /\ Len(l) \in Nat /\ Len(m) \in Nat /\ Len(d) \in Nat /\ Len(e) \in Nat
  <2>1. Len(l \o d) = Len(l) + Len(d) /\ Len(m \o e) = Len(m) + Len(e)
    BY <1>0, ConcatProperties
  <2> QED
    BY <1>0, <2>1
<1>2. \A h \in 1 .. Len(m) : m[h] = IF h =< Len(l) THEN l[h] ELSE d[h - Len(l)]
  <2> SUFFICES ASSUME NEW h \in 1 .. Len(m)
               PROVE  m[h] = IF h =< Len(l) THEN l[h] ELSE d[h - Len(l)]
    OBVIOUS
  <2>1. (m \o e)[h] = m[h]
    BY <1>0, <1>1
  <2>2. (l \o d)[h] = IF h =< Len(l) THEN l[h] ELSE d[h - Len(l)]
    BY <1>0, <1>1
  <2> QED
    BY <1>0, <2>1, <2>2
<1>3. k # 0
  <2> SUFFICES ASSUME k = 0 PROVE FALSE
    OBVIOUS
  <2>1. Len(l) = Len(m) /\ \A h \in 1 .. Len(l) : l[h] = m[h]
    BY <1>1, <1>2
  <2>2. l = m
    BY <1>0, <2>1, SeqEqual
  <2> QED
    BY <2>2
<1>4. k \in 1 .. Len(d)
  BY <1>0, <1>1, <1>3
<1>5. PICK n \in Nat \ {0} : SubSeq(d, 1, k) = Numeral[n]
  BY <1>4, NumeralBegins DEF d
<1> DEFINE f == SubSeq(d, 1, k)
<1>6. /\ f \in Seq(Char \cup Digit) /\ Len(f) = k
      /\ \A h \in 1 .. k : f[h] = d[h]
  BY <1>0, <1>4, SubSeqProperties
<1> HIDE DEF f
<1>7. m = l \o f
  <2>1. l \o f \in Seq(Char \cup Digit) /\ Len(l \o f) = Len(m)
    BY <1>0, <1>1, <1>6, ConcatProperties
  <2>2. ASSUME NEW h \in 1 .. Len(m) PROVE (l \o f)[h] = m[h]
    <3>1. (l \o f)[h] = IF h =< Len(l) THEN l[h] ELSE f[h - Len(l)]
      BY <1>0, <1>1, <1>6
    <3>2. h > Len(l) => f[h - Len(l)] = d[h - Len(l)]
      BY <1>1, <1>6
    <3> QED
      BY <1>2, <3>1, <3>2
  <2> QED
    BY <1>0, <2>1, <2>2, SeqEqual
<1> QED
  BY <1>5, <1>7 DEF f, WithNumber
-----------------------------------------------------------------------------
(***************************************************************************)
(* The methods of Point and ThreadData keep a record in its type.          *)
(***************************************************************************)
\* Point::reset gives a point.
LEMMA ResetType ==
  ASSUME NEW p \in Point
  PROVE  Reset(p) \in Point
<1>1. <<>> \in Text
  BY DEF Text
<1> QED
  BY <1>1 DEF Reset, Point

\* The counters of a point stay numbers when references or flops are added.
LEMMA UpdateType ==
  ASSUME NEW p \in Point, NEW r \in Refs, NEW n \in Nat
  PROVE  UpdateFpCount(p, n) \in Point /\ UpdateBytes(p, r) \in Point
<1>1. UpdateFpCount(p, n) \in Point
  BY DEF UpdateFpCount, Point
<1>2. /\ p.bytes + r.rd + r.wr \in Nat
      /\ p.read_bytes + r.rd \in Nat
      /\ p.write_bytes + r.wr \in Nat
  BY DEF Point, Refs
<1>3. UpdateBytes(p, r) \in Point
  BY <1>2 DEF UpdateBytes, Point
<1> QED
  BY <1>1, <1>3

\* A new thread's data: an empty point, an empty buffer, no points.
LEMMA NewThreadDataType == NewThreadData \in ThreadDataType
BY DEF NewThreadData, ThreadDataType, InitPoint, NoRefs, Point, Refs, Text

\* Inserted code and clean calls.
LEMMA RecordType ==
  ASSUME NEW d \in ThreadDataType, NEW r \in Refs
  PROVE  Record(d, r) \in ThreadDataType
BY DEF Record, AddRefs, ThreadDataType, Refs

\* What a clean call does: save_floating_points, save_bytes, clean_buffer.
LEMMA SaveType ==
  ASSUME NEW d \in ThreadDataType, NEW n \in Nat
  PROVE  /\ SaveFloatingPoints(d, n) \in ThreadDataType
         /\ SaveBytes(d) \in ThreadDataType
         /\ CleanBuffer(d) \in ThreadDataType
<1>1. d.cur_point \in Point /\ d.buffer \in Refs
  BY DEF ThreadDataType
<1>2. /\ UpdateFpCount(d.cur_point, n) \in Point
      /\ UpdateBytes(d.cur_point, d.buffer) \in Point
  BY <1>1, UpdateType
<1>3. NoRefs \in Refs
  BY DEF NoRefs, Refs
<1> QED
  BY <1>2, <1>3 DEF SaveFloatingPoints, SaveBytes, CleanBuffer, ThreadDataType

\* The operations of the callbacks.
LEMMA PointOpType ==
  ASSUME NEW d \in ThreadDataType, NEW label \in Text, NEW n \in Nat
  PROVE  /\ SetTimeStart(d, n) \in ThreadDataType
         /\ SetTimeEnd(d, n) \in ThreadDataType
         /\ NewPoint(d, label) \in ThreadDataType
         /\ SavePoint(d, label) \in ThreadDataType
<1>1. d.cur_point \in Point /\ Reset(d.cur_point) \in Point
  BY ResetType DEF ThreadDataType
<1>2. /\ [d.cur_point EXCEPT !.start = n] \in Point
      /\ [d.cur_point EXCEPT !.end = n] \in Point
      /\ [Reset(d.cur_point) EXCEPT !.label = label] \in Point
  BY <1>1 DEF Point
<1>3. SetTimeStart(d, n) \in ThreadDataType /\ SetTimeEnd(d, n) \in ThreadDataType
  BY <1>2 DEF SetTimeStart, SetTimeEnd, ThreadDataType
<1>4. NewPoint(d, label) \in ThreadDataType
  BY <1>2 DEF NewPoint, ThreadDataType
<1>5. Append(d.point_list, d.cur_point) \in Seq(Point)
  BY <1>1 DEF ThreadDataType
<1>6. SavePoint(d, label) \in ThreadDataType
  BY <1>1, <1>5 DEF SavePoint, ThreadDataType
<1> QED
  BY <1>3, <1>4, <1>6
-----------------------------------------------------------------------------
(***************************************************************************)
(* The inserted code.                                                      *)
(***************************************************************************)
\* A summary of application references is recorded as one of the buffer.
LEMMA RecordedType ==
  ASSUME NEW o \in Option, NEW r \in AppRefs
  PROVE  Recorded(o, r) \in Refs /\ Wanted(o, r) \in Nat
<1>1. r.updates \in Nat /\ r.loads \in Nat /\ r.stores \in Nat
  BY DEF AppRefs
<1> QED
  BY <1>1 DEF Recorded, Wanted, Refs

\* A block's inserted code, before and after its clean call.
LEMMA BlockType ==
  ASSUME NEW d \in ThreadDataType, NEW b \in Block, opt \in Option
  PROVE  /\ BlockEntry(d, b) \in ThreadDataType
         /\ BlockRest(d, b) \in ThreadDataType
<1>1. b.fp \in Nat /\ b.head \in AppRefs /\ b.body \in AppRefs
  BY DEF Block
<1>2. /\ Record(d, Recorded(opt, b.head)) \in ThreadDataType
      /\ Record(d, Recorded(opt, b.body)) \in ThreadDataType
  BY <1>1, RecordedType, RecordType
<1>3. CleanCall(Record(d, Recorded(opt, b.head)), b.fp) \in ThreadDataType
  BY <1>1, <1>2, SaveType DEF CleanCall
<1> QED
  BY <1>2, <1>3 DEF BlockEntry, BlockRest

\* What Main has executed stays a pair of numbers.
LEMMA RanType ==
  ASSUME NEW b \in Block, opt \in Option, ran \in [flops : Nat, bytes : Nat]
  PROVE  /\ RanEntry(b) \in [flops : Nat, bytes : Nat]
         /\ RanRest(b) \in [flops : Nat, bytes : Nat]
         /\ RanBlock(b) \in [flops : Nat, bytes : Nat]
<1>1. b.fp \in Nat /\ b.head \in AppRefs /\ b.body \in AppRefs
  BY DEF Block
<1>2. Wanted(opt, b.head) \in Nat /\ Wanted(opt, b.body) \in Nat
  BY <1>1, RecordedType
<1>3. /\ ran.bytes + Wanted(opt, b.head) \in Nat
      /\ ran.bytes + Wanted(opt, b.body) \in Nat
      /\ ran.bytes + Wanted(opt, b.head) + Wanted(opt, b.body) \in Nat
      /\ ran.flops + b.fp \in Nat
  BY <1>1, <1>2
<1> QED
  BY <1>3 DEF RanEntry, RanRest, RanBlock

\* Facts about the constants that every step uses.
LEMMA ConstantTypes ==
  /\ Options \subseteq Option /\ Main \in Threads /\ Labels \subseteq Text
  /\ Blocks \subseteq Block /\ DelimBlocks \cup {NoBlock} \subseteq Block
<1>1. NoBlock \in Block
  BY DEF NoBlock, NoAppRefs, Block, AppRefs
<1> QED
  BY <1>1, OptionsAssumption, ThreadsAssumption, LabelsAssumption, BlocksAssumption

\* execution_count is a number.
LEMMA CountType ==
  ASSUME NEW list \in Seq(Point), NEW i \in 1 .. Len(list)
  PROVE  ExecutionCount(list, i) \in Nat
<1>1. IsFiniteSet(1 .. (i - 1))
  BY FS_Interval
<1>2. IsFiniteSet({j \in 1 .. (i - 1) : list[j].label = list[i].label})
  BY <1>1, FS_Subset
<1> QED
  BY <1>2, FS_CardinalityType DEF ExecutionCount

\* A list of points is written as a list of elements.
LEMMA SaveToFileType ==
  ASSUME NEW list \in Seq(Point), NEW timing \in BOOLEAN
  PROVE  SaveToFile(list, timing) \in Seq(Element)
<1>1. ASSUME NEW i \in 1 .. Len(list)
      PROVE  DumpName(list, i) \in Text
  <2>0. list[i] \in Point
    OBVIOUS
  <2>1. list[i].label \in Text
    BY <2>0 DEF Point
  <2>2. ExecutionCount(list, i) \in Nat
    BY CountType
  <2> QED
    BY <2>1, <2>2, WithNumberType DEF DumpName
<1>2. ASSUME NEW p \in Point, NEW name \in Text
      PROVE  DumpInfo(p, name, timing) \in Element
  <2>1. p.end - p.start \in Int
    BY DEF Point
  <2> QED
    BY <2>1 DEF DumpInfo, Point, Element
<1>3. \A i \in 1 .. Len(list) :
        DumpInfo(list[i], DumpName(list, i), timing) \in Element
  BY <1>1, <1>2
<1> QED
  BY <1>3 DEF SaveToFile
-----------------------------------------------------------------------------
(***************************************************************************)
(* Type correctness.                                                       *)
(***************************************************************************)
LEMMA TypeInit == Init => TypeOK
<1> SUFFICES ASSUME Init PROVE TypeOK
  OBVIOUS
<1>1. td \in [Threads -> ThreadDataType]
  BY NewThreadDataType DEF Init
<1>2. last_seen \in Text /\ open \in Seq(Labels)
  BY DEF Init, Text
<1>3. out_file \in Seq([tid : Threads, points : Seq(Element)])
  BY DEF Init
<1>4. ran \in [flops : Nat, bytes : Nat]
  BY DEF Init
<1>5. phase \in [Threads -> {"unborn", "running", "exited"}]
  BY DEF Init
<1>6. in_roi \in BOOLEAN /\ new_point_only_once \in BOOLEAN
  BY DEF Init
<1>7. opt \in Options /\ process = "running" /\ at = "app" /\ block = NoBlock
  BY DEF Init
<1>8. /\ roi_start_detected \in Nat /\ roi_end_detected \in Nat
      /\ id \in Nat \ {0} /\ now \in Nat \ {0} /\ blocks \in Nat
  BY DEF Init
<1> QED
  BY <1>1, <1>2, <1>3, <1>4, <1>5, <1>6, <1>7, <1>8 DEF TypeOK

\* The common part of the start callbacks.
LEMMA RoiInitType ==
  ASSUME TypeOK, NEW d \in ThreadDataType, RoiInit(d),
         id' \in Nat \ {0}, last_seen' \in Text, new_point_only_once' \in BOOLEAN
  PROVE  TypeOK'
<1>1. opt \in Option /\ block \in Block /\ now \in Nat
  BY ConstantTypes DEF TypeOK
<1>2. StartTime(d) \in ThreadDataType
  <2>1. <<>> \in Text
    BY DEF Text
  <2> QED
    BY <1>1, <2>1, PointOpType DEF StartTime
<1>3. td' \in [Threads -> ThreadDataType]
  BY <1>1, <1>2, BlockType DEF RoiInit, TypeOK
<1>4. ran' \in [flops : Nat, bytes : Nat]
  BY <1>1, RanType DEF RoiInit, Resume, TypeOK
<1> QED
  BY <1>3, <1>4 DEF RoiInit, Resume, TypeOK

\* The common part of the end callbacks.
LEMMA RoiEndType ==
  ASSUME TypeOK, NEW d \in ThreadDataType, RoiEnd(d), open # <<>>,
         id' \in Nat \ {0}, last_seen' \in Text
  PROVE  TypeOK'
<1>1. opt \in Option /\ block \in Block
  BY ConstantTypes DEF TypeOK
<1>2. td' \in [Threads -> ThreadDataType]
  BY <1>1, BlockType DEF RoiEnd, TypeOK
<1>3. ran' \in [flops : Nat, bytes : Nat]
  BY <1>1, RanType DEF RoiEnd, Resume, TypeOK
<1>4. open' \in Seq(Labels)
  BY HeadTailProperties DEF RoiEnd, TypeOK
<1>5. /\ in_roi' \in BOOLEAN /\ roi_end_detected' = roi_end_detected + 1
      /\ at' = "app" /\ block' = NoBlock
      /\ UNCHANGED <<opt, process, roi_start_detected, new_point_only_once,
                     phase, out_file, now, blocks>>
  BY DEF RoiEnd, Resume
<1> QED
  BY <1>2, <1>3, <1>4, <1>5 DEF TypeOK

\* The labels that the callbacks compute are texts.
LEMMA LabelType ==
  ASSUME TypeOK
  PROVE  /\ AssignedLabel \in Text
         /\ opt.trace_f \in Text /\ opt.roi_start \in Text
         /\ AssignId => id' \in Nat \ {0} /\ last_seen' \in Text
         /\ open # <<>> => Head(open) \in Text
<1>1. opt \in Option /\ id \in Nat \ {0} /\ last_seen \in Text
  BY ConstantTypes DEF TypeOK
<1>2. opt.trace_f \in Text /\ opt.roi_start \in Text
  BY <1>1 DEF Option
<1>3. AssignedLabel \in Text
  BY <1>1, <1>2, WithNumberType DEF AssignedLabel
<1>4. AssignId => id' \in Nat \ {0} /\ last_seen' \in Text
  BY <1>1, <1>3 DEF AssignId
<1>5. open # <<>> => Head(open) \in Text
  BY HeadTailProperties, LabelsAssumption DEF TypeOK
<1> QED
  BY <1>2, <1>3, <1>4, <1>5

\* A callback runs while a region is open.
InCallbackOpen == at # "app" => open # <<>>

\* Every action of the client keeps the types.
LEMMA TypeStep == TypeOK /\ InCallbackOpen /\ [Next]_vars => TypeOK'
<1> SUFFICES ASSUME TypeOK, InCallbackOpen, [Next]_vars PROVE TypeOK'
  OBVIOUS
<1>0. opt \in Option /\ now \in Nat /\ td[Main] \in ThreadDataType
  BY ConstantTypes DEF TypeOK
<1>1. ASSUME NEW t \in Threads, ThreadInit(t) PROVE TypeOK'
  BY <1>1, NewThreadDataType DEF ThreadInit, statics, app, TypeOK
<1>2. ASSUME NEW t \in Threads, NEW b \in Blocks, ExecuteBlock(t, b) PROVE TypeOK'
  <2>1. b \in Block
    BY ConstantTypes
  <2>2. td' \in [Threads -> ThreadDataType]
    BY <1>0, <1>2, <2>1, BlockType DEF ExecuteBlock, TypeOK
  <2>3. ran' \in [flops : Nat, bytes : Nat]
    BY <1>0, <1>2, <2>1, RanType DEF ExecuteBlock, TypeOK
  <2> QED
    BY <1>2, <2>2, <2>3 DEF ExecuteBlock, statics, TypeOK
<1>3. ASSUME NEW t \in Threads, ExitGroup(t) PROVE TypeOK'
  BY <1>3 DEF ExitGroup, statics, app, TypeOK
<1>4. ASSUME NEW t \in Threads, ThreadExit(t) PROVE TypeOK'
  <2>1. FinalData(td[t]) \in ThreadDataType
    BY <1>0, PointOpType DEF FinalData, TypeOK, Option
  <2>2. SaveToFile(FinalData(td[t]).point_list, opt.time_run) \in Seq(Element)
    BY <1>0, <2>1, SaveToFileType DEF ThreadDataType, Option
  <2>3. out_file' \in Seq([tid : Threads, points : Seq(Element)])
    BY <1>4, <2>2, AppendProperties DEF ThreadExit, TypeOK
  <2> QED
    BY <1>4, <2>1, <2>3 DEF ThreadExit, statics, app, TypeOK
<1>5. CASE Tick
  BY <1>5 DEF Tick, statics, app, TypeOK
<1>6. ASSUME NEW b \in DelimBlocks, NEW l \in Labels, EnterStart(b, l) PROVE TypeOK'
  <2>1. b \in Block
    BY ConstantTypes
  <2>2. td' \in [Threads -> ThreadDataType]
    BY <1>0, <1>6, <2>1, BlockType DEF EnterStart, TypeOK
  <2>3. ran' \in [flops : Nat, bytes : Nat]
    BY <1>0, <1>6, <2>1, RanType DEF EnterStart, TypeOK
  <2>4. open' \in Seq(Labels)
    BY <1>6, ConcatProperties DEF EnterStart, TypeOK
  <2> QED
    BY <1>6, <2>2, <2>3, <2>4 DEF EnterStart, statics, TypeOK
<1>7. ASSUME NEW b \in DelimBlocks, EnterEnd(b) PROVE TypeOK'
  <2>1. b \in Block
    BY ConstantTypes
  <2>2. td' \in [Threads -> ThreadDataType]
    BY <1>0, <1>7, <2>1, BlockType DEF EnterEnd, TypeOK
  <2>3. ran' \in [flops : Nat, bytes : Nat]
    BY <1>0, <1>7, <2>1, RanType DEF EnterEnd, TypeOK
  <2> QED
    BY <1>7, <2>2, <2>3 DEF EnterEnd, statics, TypeOK
<1>8. at # "app" => open # <<>> /\ Head(open) \in Text
  BY LabelType DEF InCallbackOpen
<1>9. CASE RoiInitMerged
  <2> DEFINE d == IF new_point_only_once THEN td[Main]
                  ELSE NewPoint(td[Main], GetLabel(opt.trace_f, Head(open)))
  <2>1. GetLabel(opt.trace_f, Head(open)) \in Text
    BY <1>8, <1>9, LabelType DEF RoiInitMerged, InCallback, GetLabel
  <2>2. d \in ThreadDataType
    BY <1>0, <2>1, PointOpType
  <2>3. RoiInit(d) /\ new_point_only_once' = TRUE /\ UNCHANGED <<id, last_seen>>
    BY <1>9 DEF RoiInitMerged
  <2> QED
    BY <2>2, <2>3, RoiInitType DEF TypeOK
<1>10. CASE RoiInitSeparate
  <2>1. NewPoint(td[Main], AssignedLabel) \in ThreadDataType
    BY <1>0, LabelType, PointOpType
  <2> QED
    BY <1>10, <2>1, LabelType, RoiInitType DEF RoiInitSeparate, TypeOK
<1>11. CASE RoiInitAbort
  BY <1>11 DEF RoiInitAbort, app, TypeOK
<1>12. CASE RoiInitDelimiter
  <2>1. GetLabel(opt.roi_start, Head(open)) \in Text
    BY <1>8, <1>12, LabelType DEF RoiInitDelimiter, InCallback, GetLabel
  <2>2. NewPoint(td[Main], GetLabel(opt.roi_start, Head(open))) \in ThreadDataType
    BY <1>0, <2>1, PointOpType
  <2> QED
    BY <1>12, <2>2, RoiInitType DEF RoiInitDelimiter, TypeOK
<1>13. StopTime(td[Main]) \in ThreadDataType
  <2>1. <<>> \in Text
    BY DEF Text
  <2> QED
    BY <1>0, <2>1, PointOpType DEF StopTime
<1>14. CASE EventRoiEnd
  <2>1. GetLabel(opt.roi_start, Head(open)) \in Text
    BY <1>8, <1>14, LabelType DEF EventRoiEnd, InCallback, GetLabel
  <2>2. SavePoint(StopTime(td[Main]), GetLabel(opt.roi_start, Head(open))) \in ThreadDataType
    BY <1>0, <1>13, <2>1, PointOpType
  <2>3. open # <<>>
    BY <1>8, <1>14 DEF EventRoiEnd, InCallback
  <2> QED
    BY <1>14, <2>2, <2>3, RoiEndType DEF EventRoiEnd, TypeOK
<1>15. CASE SymbolRoiEndSeparate
  <2>1. SavePoint(StopTime(td[Main]), AssignedLabel) \in ThreadDataType
    BY <1>0, <1>13, LabelType, PointOpType
  <2>2. open # <<>>
    BY <1>8, <1>15 DEF SymbolRoiEndSeparate, InCallback
  <2> QED
    BY <1>15, <2>1, <2>2, LabelType, RoiEndType DEF SymbolRoiEndSeparate
<1>16. CASE SymbolRoiEndMerged
  <2>1. open # <<>>
    BY <1>8, <1>16 DEF SymbolRoiEndMerged, InCallback
  <2> QED
    BY <1>13, <1>16, <2>1, RoiEndType DEF SymbolRoiEndMerged, TypeOK
<1>17. CASE EventExit
  BY <1>17 DEF EventExit, statics, app, TypeOK
<1>18. CASE UNCHANGED vars
  BY <1>18 DEF vars, statics, app, TypeOK
<1> QED
  BY <1>1, <1>2, <1>3, <1>4, <1>5, <1>6, <1>7, <1>9, <1>10, <1>11, <1>12,
     <1>14, <1>15, <1>16, <1>17, <1>18 DEF Next, Terminated

\* A callback is pending only after a delimiter that opens or finds a region.
LEMMA InCallbackOpenStep == TypeOK /\ InCallbackOpen /\ [Next]_vars => InCallbackOpen'
<1> SUFFICES ASSUME TypeOK, InCallbackOpen, [Next]_vars PROVE InCallbackOpen'
  OBVIOUS
<1>1. ASSUME NEW b \in DelimBlocks, NEW l \in Labels, EnterStart(b, l)
      PROVE  InCallbackOpen'
  <2>1. <<l>> \o open # <<>>
    BY ConcatProperties, EmptySeq DEF TypeOK
  <2> QED
    BY <1>1, <2>1 DEF EnterStart, InCallbackOpen
<1>2. ASSUME NEW b \in DelimBlocks, EnterEnd(b) PROVE InCallbackOpen'
  BY <1>2 DEF EnterEnd, InCallbackOpen
<1>3. ASSUME at' = "app" PROVE InCallbackOpen'
  BY <1>3 DEF InCallbackOpen
<1>4. ASSUME UNCHANGED <<at, open>> PROVE InCallbackOpen'
  BY <1>4 DEF InCallbackOpen
<1>5. ASSUME NEW t \in Threads,
             ThreadInit(t) \/ (\E b \in Blocks : ExecuteBlock(t, b))
               \/ ExitGroup(t) \/ ThreadExit(t)
      PROVE  UNCHANGED <<at, open>>
  BY <1>5 DEF ThreadInit, ExecuteBlock, ExitGroup, ThreadExit, app
<1>6. Tick \/ RoiInitAbort \/ EventExit \/ UNCHANGED vars => UNCHANGED <<at, open>>
  BY DEF Tick, RoiInitAbort, EventExit, vars, app
<1>7. RoiInitMerged \/ RoiInitSeparate \/ RoiInitDelimiter
        \/ EventRoiEnd \/ SymbolRoiEndSeparate \/ SymbolRoiEndMerged => at' = "app"
  BY DEF RoiInitMerged, RoiInitSeparate, RoiInitDelimiter, EventRoiEnd,
         SymbolRoiEndSeparate, SymbolRoiEndMerged, RoiInit, RoiEnd, Resume
<1> QED
  BY <1>1, <1>2, <1>3, <1>4, <1>5, <1>6, <1>7 DEF Next, Terminated

(***************************************************************************)
(* Every variable of the client keeps its type, in particular every        *)
(* document written is a list of well-formed elements.                     *)
(***************************************************************************)
THEOREM TypeCorrect == Spec => []TypeOK
<1> DEFINE Inv == TypeOK /\ InCallbackOpen
<1>1. Init => Inv
  BY TypeInit DEF Init, InCallbackOpen
<1>2. Inv /\ [Next]_vars => Inv'
  BY TypeStep, InCallbackOpenStep
<1> QED
  BY <1>1, <1>2, PTL DEF Spec

\* Both, as an invariant that the next theorems start from.
LEMMA Basics == Spec => [](TypeOK /\ InCallbackOpen)
<1>1. Init => TypeOK /\ InCallbackOpen
  BY TypeInit DEF Init, InCallbackOpen
<1>2. (TypeOK /\ InCallbackOpen) /\ [Next]_vars => (TypeOK /\ InCallbackOpen)'
  BY TypeStep, InCallbackOpenStep
<1> QED
  BY <1>1, <1>2, PTL DEF Spec
-----------------------------------------------------------------------------
(***************************************************************************)
(* Regions and the shared flag.  A step either leaves both alone, or is    *)
(* the start or the end callback of a region.                              *)
(***************************************************************************)
Quiet == /\ UNCHANGED <<in_roi, roi_start_detected, roi_end_detected>>
         /\ OpenRegions' = OpenRegions
         /\ Len(open') =< MaxDepth \/ open' = open
Starts == /\ process = "running" /\ process' = "running"
          /\ in_roi' = TRUE /\ OpenRegions' = OpenRegions + 1
          /\ roi_start_detected' = roi_start_detected + 1
          /\ roi_end_detected' = roi_end_detected
          /\ open' = open
Ends == /\ process = "running" /\ process' = "running"
        /\ in_roi' = FALSE /\ OpenRegions' = OpenRegions - 1
        /\ roi_start_detected' = roi_start_detected
        /\ roi_end_detected' = roi_end_detected + 1
        /\ Len(open') = Len(open) - 1

\* event_roi_init raises the flag, and one more region is open.
LEMMA StartsType ==
  ASSUME TypeOK, NEW d, RoiInit(d), InCallback("init")
  PROVE  Starts
BY DEF Starts, RoiInit, Resume, InCallback, OpenRegions, TypeOK

\* The end callbacks lower the flag, and one region less is open.
LEMMA EndsType ==
  ASSUME TypeOK, InCallbackOpen, NEW d, RoiEnd(d), InCallback("end")
  PROVE  Ends
<1>1. open \in Seq(Labels) /\ open # <<>>
  BY DEF InCallback, InCallbackOpen, TypeOK
<1>2. Len(Tail(open)) = Len(open) - 1
  BY <1>1, HeadTailProperties
<1> QED
  BY <1>1, <1>2 DEF Ends, RoiEnd, Resume, InCallback, OpenRegions, TypeOK

\* There is no other step that touches the flag, the counters or the regions.
LEMMA StepKinds ==
  ASSUME TypeOK, InCallbackOpen, [Next]_vars
  PROVE  Quiet \/ Starts \/ Ends \/ RoiInitAbort
<1>1. ASSUME NEW b \in DelimBlocks, NEW l \in Labels, EnterStart(b, l) PROVE Quiet
  <2>1. open \in Seq(Labels) /\ Len(<<l>> \o open) = Len(open) + 1
    BY ConcatProperties DEF TypeOK
  <2>2. process' = "running" /\ at = "app" /\ at' = "init" /\ Len(open) < MaxDepth
    BY <1>1 DEF EnterStart, CanExecute
  <2>3. Len(open') = Len(open) + 1
    BY <1>1, <2>1 DEF EnterStart
  <2>4. OpenRegions' = OpenRegions
    BY <2>1, <2>2, <2>3 DEF OpenRegions
  <2>5. Len(open') =< MaxDepth
    BY <2>1, <2>2, <2>3, BoundsAssumption
  <2> QED
    BY <1>1, <2>2, <2>4, <2>5 DEF EnterStart, statics, Quiet
<1>2. ASSUME NEW b \in DelimBlocks, EnterEnd(b) PROVE Quiet
  BY <1>2 DEF EnterEnd, statics, Quiet, OpenRegions
<1>3. ASSUME UNCHANGED <<at, open, in_roi, roi_start_detected, roi_end_detected>>
      PROVE  Quiet
  BY <1>3 DEF Quiet, OpenRegions
<1>4. ASSUME NEW t \in Threads,
             ThreadInit(t) \/ (\E b \in Blocks : ExecuteBlock(t, b))
               \/ ExitGroup(t) \/ ThreadExit(t)
      PROVE  Quiet
  BY <1>3, <1>4 DEF ThreadInit, ExecuteBlock, ExitGroup, ThreadExit, app, statics
<1>5. Tick \/ EventExit \/ UNCHANGED vars => Quiet
  BY <1>3 DEF Tick, EventExit, vars, app, statics
<1>6. RoiInitMerged \/ RoiInitSeparate \/ RoiInitDelimiter => Starts
  BY StartsType DEF RoiInitMerged, RoiInitSeparate, RoiInitDelimiter
<1>7. EventRoiEnd \/ SymbolRoiEndSeparate \/ SymbolRoiEndMerged => Ends
  BY EndsType DEF EventRoiEnd, SymbolRoiEndSeparate, SymbolRoiEndMerged
<1> QED
  BY <1>1, <1>2, <1>4, <1>5, <1>6, <1>7 DEF Next, Terminated

\* While regions are open there are labels on the stack.
LEMMA OpenRegionsType ==
  ASSUME TypeOK, InCallbackOpen
  PROVE  /\ OpenRegions \in Nat /\ Len(open) \in Nat
         /\ OpenRegions =< Len(open)
         /\ Len(open) =< OpenRegions + 1
<1>1. open \in Seq(Labels) /\ Len(open) \in Nat
  BY DEF TypeOK
<1>2. at = "init" => Len(open) > 0
  BY <1>1, EmptySeq DEF InCallbackOpen
<1> QED
  BY <1>1, <1>2 DEF OpenRegions

(***************************************************************************)
(* When regions do not nest and the traced function does not call itself,  *)
(* in_roi is up exactly while a region of Main is open, whatever the other *)
(* threads do and whenever the process exits.                              *)
(***************************************************************************)
THEOREM RoiFlag ==
  ASSUME MaxDepth = 1
  PROVE  Spec => []RoiFlagTracksRegion
<1> DEFINE Inv == RoiFlagTracksRegion /\ Len(open) =< 1
<1>1. Init => Inv
  BY EmptySeq DEF Init, RoiFlagTracksRegion, OpenRegions
<1>2. TypeOK /\ InCallbackOpen /\ (TypeOK /\ InCallbackOpen)' /\ Inv /\ [Next]_vars => Inv'
  <2> SUFFICES ASSUME TypeOK, InCallbackOpen, TypeOK', InCallbackOpen', Inv, [Next]_vars
               PROVE  Inv'
    OBVIOUS
  <2>1. /\ OpenRegions \in Nat /\ Len(open) \in Nat
        /\ OpenRegions =< Len(open) /\ Len(open) =< 1
    BY OpenRegionsType
  <2>2. CASE Quiet /\ process # "aborted"
    BY <2>1, <2>2 DEF Quiet, RoiFlagTracksRegion
  <2>3. CASE Quiet /\ process = "aborted"
    <3>1. process' = "aborted" /\ UNCHANGED vars
      BY <2>3 DEF Next, Terminated, Tick, RoiInitAbort, EventExit, ThreadInit,
         ExecuteBlock, CanExecute, ExitGroup, ThreadExit, EnterStart, EnterEnd,
         RoiInitMerged, RoiInitSeparate, RoiInitDelimiter, EventRoiEnd,
         SymbolRoiEndSeparate, SymbolRoiEndMerged, InCallback, vars
    <3> QED
      BY <2>1, <3>1 DEF vars, app, RoiFlagTracksRegion
  <2>4. CASE Starts
    BY <2>1, <2>4 DEF Starts, RoiFlagTracksRegion
  <2>5. CASE Ends
    BY <2>1, <2>5 DEF Ends, RoiFlagTracksRegion
  <2>6. CASE RoiInitAbort
    BY <2>1, <2>6 DEF RoiInitAbort, app, RoiFlagTracksRegion
  <2> QED
    BY <2>2, <2>3, <2>4, <2>5, <2>6, StepKinds
<1>3. Inv => RoiFlagTracksRegion
  OBVIOUS
<1> QED
  BY <1>1, <1>2, <1>3, Basics, PTL DEF Spec

\* The inductive invariant behind the next theorem.
CountsAgree == process # "aborted" => roi_start_detected = roi_end_detected + OpenRegions

(***************************************************************************)
(* However deep regions nest, event_exit never stops an application that   *)
(* ended every region it started: the two counters differ by the number of *)
(* open regions.                                                           *)
(***************************************************************************)
THEOREM AbortOnlyIncomplete == Spec => []AbortMeansIncomplete
<1> DEFINE Inv == CountsAgree /\ AbortMeansIncomplete
<1>1. Init => Inv
  BY EmptySeq DEF Init, CountsAgree, AbortMeansIncomplete, OpenRegions
<1>2. TypeOK /\ InCallbackOpen /\ Inv /\ [Next]_vars => Inv'
  <2> SUFFICES ASSUME TypeOK, InCallbackOpen, Inv, [Next]_vars PROVE Inv'
    OBVIOUS
  <2>1. /\ OpenRegions \in Nat /\ roi_start_detected \in Nat /\ roi_end_detected \in Nat
        /\ open = <<>> => OpenRegions = 0
    BY OpenRegionsType, EmptySeq DEF TypeOK
  <2>2. CASE process = "aborted"
    <3>1. process' = "aborted" /\ UNCHANGED vars
      BY <2>2 DEF Next, Terminated, Tick, RoiInitAbort, EventExit, ThreadInit,
         ExecuteBlock, CanExecute, ExitGroup, ThreadExit, EnterStart, EnterEnd,
         RoiInitMerged, RoiInitSeparate, RoiInitDelimiter, EventRoiEnd,
         SymbolRoiEndSeparate, SymbolRoiEndMerged, InCallback, vars
    <3> QED
      BY <3>1 DEF vars, app, statics, CountsAgree, AbortMeansIncomplete
  <2>3. CASE process # "aborted" /\ EventExit
    <3>1. UNCHANGED <<roi_start_detected, roi_end_detected, open, at>>
      BY <2>3 DEF EventExit, statics, app
    <3>2. CountsAgree'
      BY <2>3, <3>1 DEF CountsAgree, OpenRegions
    <3>3. process' = "aborted" => ~ExitAssertions
      BY <2>3 DEF EventExit
    <3>4. open = <<>> /\ ~ExitAssertions => roi_start_detected = 0
      BY <2>1, <2>3 DEF CountsAgree, ExitAssertions
    <3> QED
      BY <3>1, <3>2, <3>3, <3>4 DEF AbortMeansIncomplete
  <2>4. CASE RoiInitAbort
    BY <2>4 DEF RoiInitAbort, InCallback, InCallbackOpen, app, CountsAgree,
                AbortMeansIncomplete
  <2>5. CASE process # "aborted" /\ ~EventExit /\ ~RoiInitAbort
    <3>1. process' # "aborted"
      BY <2>5 DEF Next, Terminated, Tick, ThreadInit, ExecuteBlock, ExitGroup,
         ThreadExit, EnterStart, EnterEnd, RoiInitMerged, RoiInitSeparate,
         RoiInitDelimiter, EventRoiEnd, SymbolRoiEndSeparate, SymbolRoiEndMerged,
         RoiInit, RoiEnd, vars
    <3>2. Quiet \/ Starts \/ Ends
      BY <2>5, StepKinds
    <3>3. CountsAgree'
      BY <2>1, <2>5, <3>2 DEF Quiet, Starts, Ends, CountsAgree
    <3> QED
      BY <3>1, <3>3 DEF AbortMeansIncomplete
  <2> QED
    BY <2>2, <2>3, <2>4, <2>5
<1>3. Inv => AbortMeansIncomplete
  OBVIOUS
<1> QED
  BY <1>1, <1>2, <1>3, Basics, PTL DEF Spec
-----------------------------------------------------------------------------
(***************************************************************************)
(* Calls as separate regions.  What a step does to the list of points, to  *)
(* the label of the current one and to the numbers assigned.               *)
(***************************************************************************)
SeparateCalls == opt.calls_as_separate_roi /\ opt.trace_f # <<>>
CurrentLabel == td[Main].cur_point.label
Numbered(n) == WithNumber(opt.trace_f, n)

\* Inserted code and the clock leave labels and finished points alone, and
\* warn of nothing.
SameLabels(d, e) == /\ d.point_list = e.point_list /\ d.cur_point.label = e.cur_point.label
                    /\ d.warned = e.warned

\* The parts of a step that are not new_point or save_point.
LEMMA InsertedCodeKeepsLabels ==
  ASSUME NEW d \in ThreadDataType, NEW b
  PROVE  /\ SameLabels(BlockEntry(d, b), d) /\ SameLabels(BlockRest(d, b), d)
         /\ SameLabels(StartTime(d), d) /\ SameLabels(StopTime(d), d)
<1>1. ASSUME NEW e \in ThreadDataType, NEW r PROVE SameLabels(Record(e, r), e)
  BY DEF Record, SameLabels, ThreadDataType
<1>2. ASSUME NEW e, NEW n,
             e.cur_point = d.cur_point, e.point_list = d.point_list,
             e.warned = d.warned, DOMAIN e = DOMAIN d
      PROVE  SameLabels(CleanCall(e, n), d)
  BY <1>2 DEF CleanCall, SaveFloatingPoints, SaveBytes, CleanBuffer,
     UpdateFpCount, UpdateBytes, SameLabels, ThreadDataType, Point
<1>3. /\ Record(d, Recorded(opt, b.head)).cur_point = d.cur_point
      /\ Record(d, Recorded(opt, b.head)).point_list = d.point_list
      /\ Record(d, Recorded(opt, b.head)).warned = d.warned
      /\ DOMAIN Record(d, Recorded(opt, b.head)) = DOMAIN d
  BY DEF Record, ThreadDataType
<1>4. SameLabels(BlockEntry(d, b), d)
  BY <1>1, <1>2, <1>3 DEF BlockEntry, SameLabels
<1>5. SameLabels(BlockRest(d, b), d)
  BY <1>1 DEF BlockRest, SameLabels
<1>6. SameLabels(StartTime(d), d) /\ SameLabels(StopTime(d), d)
  BY DEF StartTime, StopTime, SetTimeStart, SetTimeEnd, SameLabels, ThreadDataType, Point
<1> QED
  BY <1>4, <1>5, <1>6

\* Two numbers give two labels, and none gives the empty one.
LEMMA NumberedInjective ==
  ASSUME TypeOK, NEW m \in Nat, NEW n \in Nat
  PROVE  /\ Numbered(m) = Numbered(n) => m = n
         /\ Numbered(m) # <<>>
<1>1. opt.trace_f \in Text
  BY ConstantTypes DEF TypeOK, Option
<1> QED
  BY <1>1, WithNumberType, NumberTells DEF Numbered

(***************************************************************************)
(* Why calls are numbered 1, 2, 3...: id is the number of the call to come *)
(* or in progress, and last_seen tells which, so that only the second      *)
(* request for a label, the one at the call's end, steps id.               *)
(***************************************************************************)
Numbering ==
  SeparateCalls =>
    /\ id = Len(Points) + 1
    /\ \A i \in DOMAIN Points : Points[i].label = Numbered(i)
    /\ OpenRegions = 0 => last_seen = IF Len(Points) = 0 THEN <<>> ELSE Numbered(Len(Points))
    /\ OpenRegions > 0 => last_seen = Numbered(id) /\ CurrentLabel = Numbered(id)
NothingBeforeInit == phase[Main] = "unborn" => td[Main] = NewThreadData
Unnested == Len(open) =< 1

\* Any other step than a callback and Main's exit.
Elsewhere == /\ UNCHANGED <<opt, id, last_seen, new_point_only_once>>
             /\ SameLabels(td[Main]', td[Main])
             /\ OpenRegions' = OpenRegions /\ (OpenRegions > 0 => open' = open)
             /\ phase'[Main] = "exited" <=> phase[Main] = "exited"
AnyCallback == \/ RoiInitMerged \/ RoiInitSeparate \/ RoiInitDelimiter
            \/ EventRoiEnd \/ SymbolRoiEndSeparate \/ SymbolRoiEndMerged

\* Numbering does not depend on anything else.
LEMMA ElsewhereKeepsNumbering == Numbering /\ Elsewhere => Numbering'
BY DEF Numbering, Elsewhere, SameLabels, SeparateCalls, Points, CurrentLabel,
       Numbered

\* In a callback the one region there is is open.
LEMMA OneOpen ==
  ASSUME TypeOK, InCallbackOpen, Unnested, at # "app"
  PROVE  Len(open) = 1
<1>1. open \in Seq(Labels) /\ open # <<>>
  BY DEF TypeOK, InCallbackOpen
<1>2. Len(open) \in Nat /\ Len(open) # 0
  BY <1>1, EmptySeq
<1>3. Len(open) =< 1
  BY DEF Unnested
<1>4. \A n \in Nat : n # 0 /\ n =< 1 => n = 1
  OBVIOUS
<1> QED
  BY <1>2, <1>3, <1>4

\* event_roi_init of a separate call takes the next number and keeps it.
LEMMA NumberingStart ==
  ASSUME TypeOK, InCallbackOpen, Unnested, SeparateCalls, Numbering, RoiInitSeparate
  PROVE  Numbering'
<1> DEFINE d == NewPoint(td[Main], AssignedLabel)
<1>1. at = "init" /\ OpenRegions = 0 /\ OpenRegions' = 1
  <2>1. at = "init" /\ open' = open /\ at' = "app"
    BY DEF RoiInitSeparate, InCallback, RoiInit, Resume
  <2>2. Len(open) = 1
    BY <2>1, OneOpen
  <2> QED
    BY <2>1, <2>2 DEF OpenRegions
<1>2. d \in ThreadDataType /\ td[Main] \in ThreadDataType
  BY LabelType, PointOpType, ConstantTypes DEF TypeOK
<1>3. td[Main]' = BlockRest(StartTime(d), block) /\ UNCHANGED opt
  BY ConstantTypes DEF RoiInitSeparate, RoiInit, TypeOK
<1>4. StartTime(d) \in ThreadDataType
  <2>1. <<>> \in Text /\ now \in Nat
    BY DEF Text, TypeOK
  <2> QED
    BY <1>2, <2>1, PointOpType DEF StartTime
<1>5. SameLabels(td[Main]', d)
  BY <1>2, <1>3, <1>4, InsertedCodeKeepsLabels DEF SameLabels
<1>6. d.point_list = td[Main].point_list /\ d.cur_point.label = AssignedLabel
  BY <1>2, ResetType DEF NewPoint, ThreadDataType, Point
<1>7. last_seen # AssignedLabel
  <2>1. Len(Points) \in Nat /\ id = Len(Points) + 1
    BY <1>2 DEF Numbering, Points, ThreadDataType
  <2>2. last_seen = IF Len(Points) = 0 THEN <<>> ELSE Numbered(Len(Points))
    BY <1>1 DEF Numbering
  <2> QED
    BY <2>1, <2>2, NumberedInjective DEF AssignedLabel, Numbered
<1>8. id' = id /\ last_seen' = Numbered(id)
  BY <1>7 DEF RoiInitSeparate, AssignId, AssignedLabel, Numbered
<1> QED
  BY <1>1, <1>3, <1>5, <1>6, <1>8 DEF Numbering, SameLabels, SeparateCalls, Points,
     CurrentLabel, Numbered, AssignedLabel

\* symbol_roi_end of a separate call gives the point that number and steps it.
LEMMA NumberingEnd ==
  ASSUME TypeOK, InCallbackOpen, Unnested, SeparateCalls, Numbering, SymbolRoiEndSeparate
  PROVE  Numbering'
<1> DEFINE d == SavePoint(StopTime(td[Main]), AssignedLabel)
<1>1. OpenRegions = 1 /\ OpenRegions' = 0
  <2>1. at = "end" /\ open' = Tail(open) /\ at' = "app"
    BY DEF SymbolRoiEndSeparate, InCallback, RoiEnd, Resume
  <2>2. Len(open) = 1
    BY <2>1, OneOpen
  <2>3. Len(open') = 0
    BY <2>1, <2>2, HeadTailProperties DEF TypeOK, InCallbackOpen
  <2> QED
    BY <2>1, <2>2, <2>3 DEF OpenRegions
<1>2. td[Main] \in ThreadDataType /\ StopTime(td[Main]) \in ThreadDataType
  <2>1. <<>> \in Text /\ now \in Nat /\ td[Main] \in ThreadDataType
    BY ConstantTypes DEF Text, TypeOK
  <2> QED
    BY <2>1, PointOpType DEF StopTime
<1>3. d \in ThreadDataType
  BY <1>2, LabelType, PointOpType
<1>4. td[Main]' = BlockRest(d, block) /\ UNCHANGED opt
  BY ConstantTypes DEF SymbolRoiEndSeparate, RoiEnd, TypeOK
<1>5. td[Main]'.point_list = d.point_list
  BY <1>3, <1>4, InsertedCodeKeepsLabels DEF SameLabels
<1>6. d.point_list = Append(Points, StopTime(td[Main]).cur_point)
  BY <1>2, InsertedCodeKeepsLabels DEF SavePoint, SameLabels, ThreadDataType, Points
<1>7. StopTime(td[Main]).cur_point.label = Numbered(id)
  BY <1>1, <1>2, InsertedCodeKeepsLabels DEF Numbering, SameLabels, CurrentLabel
<1>8. id' = id + 1 /\ last_seen' = Numbered(id)
  BY <1>1 DEF Numbering, SymbolRoiEndSeparate, AssignId, AssignedLabel, Numbered
<1>9. /\ Points \in Seq(Point) /\ StopTime(td[Main]).cur_point \in Point
      /\ Points' = Append(Points, StopTime(td[Main]).cur_point)
      /\ id = Len(Points) + 1
      /\ \A i \in DOMAIN Points : Points[i].label = Numbered(i)
  BY <1>2, <1>5, <1>6 DEF Points, ThreadDataType, Numbering
<1>10. /\ Len(Points') = Len(Points) + 1 /\ Len(Points') \in Nat
       /\ \A i \in DOMAIN Points' : Points'[i].label = Numbered(i)
  <2>1. /\ Len(Points') = Len(Points) + 1 /\ Len(Points) \in Nat
        /\ DOMAIN Points' = 1 .. (Len(Points) + 1) /\ DOMAIN Points = 1 .. Len(Points)
        /\ Points'[Len(Points) + 1] = StopTime(td[Main]).cur_point
        /\ \A i \in 1 .. Len(Points) : Points'[i] = Points[i]
    BY <1>9, AppendProperties
  <2>2. ASSUME NEW i \in 1 .. (Len(Points) + 1) PROVE Points'[i].label = Numbered(i)
    <3>1. CASE i = Len(Points) + 1
      BY <1>7, <1>9, <2>1, <3>1
    <3>2. CASE i # Len(Points) + 1
      <4>1. i \in 1 .. Len(Points)
        BY <2>1, <3>2
      <4> QED
        BY <1>9, <2>1, <4>1
    <3> QED
      BY <3>1, <3>2
  <2> QED
    BY <2>1, <2>2
<1> QED
  BY <1>1, <1>4, <1>8, <1>9, <1>10 DEF Numbering, SeparateCalls, Numbered

\* Every step is one of those.
LEMMA ElsewhereSteps ==
  ASSUME MaxDepth = 1, TypeOK, InCallbackOpen, Unnested, NothingBeforeInit, [Next]_vars
  PROVE  Elsewhere \/ AnyCallback \/ ThreadExit(Main)
<1>0. /\ td[Main] \in ThreadDataType /\ td \in [Threads -> ThreadDataType] /\ Main \in Threads
      /\ phase \in [Threads -> {"unborn", "running", "exited"}]
  BY ConstantTypes DEF TypeOK
<1>1. ASSUME UNCHANGED <<opt, id, last_seen, new_point_only_once, at, open, td, phase>>
      PROVE  Elsewhere
  BY <1>1 DEF Elsewhere, OpenRegions, SameLabels
<1>2. ASSUME NEW t \in Threads, ThreadInit(t) PROVE Elsewhere
  <2>1. td[Main]' = td[Main]
    BY <1>0, <1>2 DEF ThreadInit, NothingBeforeInit
  <2>2. phase'[Main] = "exited" <=> phase[Main] = "exited"
    BY <1>0, <1>2 DEF ThreadInit
  <2> QED
    BY <1>2, <2>1, <2>2 DEF ThreadInit, statics, app, Elsewhere, OpenRegions, SameLabels
<1>3. ASSUME NEW t \in Threads, NEW b \in Blocks, ExecuteBlock(t, b) PROVE Elsewhere
  <2>1. BlockEntry(td[Main], b) \in ThreadDataType
    BY <1>0, BlockType, ConstantTypes DEF TypeOK
  <2>2. SameLabels(BlockRest(BlockEntry(td[Main], b), b), td[Main])
    BY <1>0, <2>1, InsertedCodeKeepsLabels DEF SameLabels
  <2>3. SameLabels(td[Main]', td[Main])
    BY <1>0, <1>3, <2>2 DEF ExecuteBlock, SameLabels
  <2> QED
    BY <1>3, <2>3 DEF ExecuteBlock, statics, Elsewhere, OpenRegions
<1>4. ASSUME NEW t \in Threads, ThreadExit(t), t # Main PROVE Elsewhere
  <2>1. td[Main]' = td[Main] /\ phase'[Main] = phase[Main]
    BY <1>0, <1>4 DEF ThreadExit
  <2> QED
    BY <1>4, <2>1 DEF ThreadExit, statics, app, Elsewhere, OpenRegions, SameLabels
<1>5. ASSUME NEW b \in DelimBlocks, NEW l \in Labels, EnterStart(b, l) PROVE Elsewhere
  <2>1. SameLabels(td[Main]', td[Main])
    BY <1>0, <1>5, InsertedCodeKeepsLabels DEF EnterStart
  <2>2. /\ open \in Seq(Labels) /\ Len(<<l>> \o open) = Len(open) + 1 /\ Len(open) \in Nat
    BY ConcatProperties DEF TypeOK
  <2>3. OpenRegions' = OpenRegions /\ OpenRegions = 0
    BY <1>5, <2>2 DEF EnterStart, CanExecute, OpenRegions
  <2> QED
    BY <1>5, <2>1, <2>3 DEF EnterStart, statics, Elsewhere
<1>6. ASSUME NEW b \in DelimBlocks, EnterEnd(b) PROVE Elsewhere
  <2>1. SameLabels(td[Main]', td[Main])
    BY <1>0, <1>6, InsertedCodeKeepsLabels DEF EnterEnd
  <2> QED
    BY <1>6, <2>1 DEF EnterEnd, statics, Elsewhere, OpenRegions
<1>7. (\E t \in Threads : ExitGroup(t)) \/ Tick \/ EventExit \/ RoiInitAbort \/ UNCHANGED vars
        => Elsewhere
  BY <1>1 DEF ExitGroup, Tick, EventExit, RoiInitAbort, vars, statics, app
<1> QED
  BY <1>2, <1>3, <1>4, <1>5, <1>6, <1>7 DEF Next, Terminated, AnyCallback

\* The numbers through any step.
LEMMA NumberingStep ==
  ASSUME MaxDepth = 1, TypeOK, InCallbackOpen, Unnested, NothingBeforeInit, Numbering,
         [Next]_vars
  PROVE  Numbering'
<1>1. CASE Elsewhere
  BY <1>1, ElsewhereKeepsNumbering
<1>2. CASE ThreadExit(Main)
  <2>1. SeparateCalls => td[Main]' = td[Main]
    BY <1>2, ConstantTypes DEF ThreadExit, FinalData, Merged, SeparateCalls, TypeOK
  <2> QED
    BY <1>2, <2>1 DEF ThreadExit, statics, app, OpenRegions, Numbering, SeparateCalls,
       Points, CurrentLabel, Numbered
<1>3. CASE ~SeparateCalls /\ AnyCallback
  <2>1. UNCHANGED opt
    BY <1>3 DEF AnyCallback, RoiInitMerged, RoiInitSeparate, RoiInitDelimiter, EventRoiEnd,
       SymbolRoiEndSeparate, SymbolRoiEndMerged, RoiInit, RoiEnd
  <2> QED
    BY <1>3, <2>1 DEF Numbering, SeparateCalls
<1>4. CASE SeparateCalls /\ AnyCallback
  <2>1. RoiInitSeparate \/ SymbolRoiEndSeparate
    BY <1>4 DEF AnyCallback, SeparateCalls, RoiInitMerged, RoiInitDelimiter, EventRoiEnd,
       SymbolRoiEndMerged, Merged
  <2> QED
    BY <1>4, <2>1, NumberingStart, NumberingEnd
<1> QED
  BY <1>1, <1>2, <1>3, <1>4, ElsewhereSteps

\* Regions do not nest, and a thread that has not started has no data.
LEMMA UnnestedStep ==
  ASSUME MaxDepth = 1, TypeOK, InCallbackOpen, Unnested, [Next]_vars
  PROVE  Unnested'
<1>1. Len(open) \in Nat
  BY DEF TypeOK
<1>2. Quiet \/ Starts \/ Ends => Unnested'
  BY <1>1 DEF Quiet, Starts, Ends, Unnested
<1>3. RoiInitAbort => Unnested'
  BY DEF RoiInitAbort, app, Unnested
<1> QED
  BY <1>2, <1>3, StepKinds

\* Main's data is untouched until event_thread_init.
LEMMA NothingBeforeInitStep ==
  ASSUME TypeOK, NothingBeforeInit, [Next]_vars
  PROVE  NothingBeforeInit'
<1>1. /\ td \in [Threads -> ThreadDataType] /\ Main \in Threads
      /\ phase \in [Threads -> {"unborn", "running", "exited"}]
  BY ConstantTypes DEF TypeOK
<1>2. ASSUME NEW t \in Threads, ThreadInit(t) \/ ThreadExit(t) PROVE NothingBeforeInit'
  BY <1>1, <1>2 DEF ThreadInit, ThreadExit, NothingBeforeInit
<1>3. ASSUME NEW t \in Threads, NEW b \in Blocks, ExecuteBlock(t, b)
      PROVE  NothingBeforeInit'
  BY <1>1, <1>3 DEF ExecuteBlock, CanExecute, NothingBeforeInit
<1>4. ASSUME phase[Main] = "running", UNCHANGED phase PROVE NothingBeforeInit'
  BY <1>4 DEF NothingBeforeInit
<1>5. ASSUME UNCHANGED <<phase, td>> PROVE NothingBeforeInit'
  BY <1>5 DEF NothingBeforeInit
<1>6. (\E t \in Threads : ExitGroup(t)) \/ Tick \/ EventExit \/ UNCHANGED vars
        => UNCHANGED <<phase, td>>
  BY DEF ExitGroup, Tick, EventExit, vars
<1>7. (\E b \in DelimBlocks : (\E l \in Labels : EnterStart(b, l)) \/ EnterEnd(b))
        => phase[Main] = "running" /\ UNCHANGED phase
  BY DEF EnterStart, EnterEnd, CanExecute
<1>8. RoiInitMerged \/ RoiInitSeparate \/ RoiInitAbort \/ RoiInitDelimiter
        \/ EventRoiEnd \/ SymbolRoiEndSeparate \/ SymbolRoiEndMerged
        => phase[Main] = "running" /\ UNCHANGED phase
  BY DEF RoiInitMerged, RoiInitSeparate, RoiInitAbort, RoiInitDelimiter, EventRoiEnd,
         SymbolRoiEndSeparate, SymbolRoiEndMerged, RoiInit, RoiEnd, InCallback
<1> QED
  BY <1>2, <1>3, <1>4, <1>5, <1>6, <1>7, <1>8 DEF Next, Terminated

\* No call has been numbered at the start.
LEMMA NumberingBegins ==
  ASSUME Init
  PROVE  Unnested /\ NothingBeforeInit /\ Numbering
<1>1. Unnested /\ OpenRegions = 0
  BY EmptySeq DEF Init, Unnested, OpenRegions
<1>2. td[Main] = NewThreadData /\ Points = <<>>
  BY ConstantTypes DEF Init, NewThreadData, Points
<1>3. Len(Points) = 0 /\ DOMAIN Points = {}
  BY <1>2
<1>4. Numbering
  BY <1>1, <1>3 DEF Init, Numbering
<1> QED
  BY <1>1, <1>2, <1>4 DEF NothingBeforeInit

(***************************************************************************)
(* When the traced function does not call itself, its i-th finished call   *)
(* is labelled with its name and i, for any number of calls and whatever   *)
(* other threads do, although get_label_and_assign_id numbers by comparing *)
(* strings left by the call before.                                        *)
(***************************************************************************)
THEOREM CallsNumbered ==
  ASSUME MaxDepth = 1
  PROVE  Spec => []SeparateCallsNumbered
<1> DEFINE Inv == Unnested /\ NothingBeforeInit /\ Numbering
<1>1. Init => Inv
  BY NumberingBegins
<1>2. TypeOK /\ InCallbackOpen /\ Inv /\ [Next]_vars => Inv'
  BY UnnestedStep, NothingBeforeInitStep, NumberingStep
<1>3. Inv => SeparateCallsNumbered
  BY DEF Numbering, SeparateCalls, SeparateCallsNumbered, Numbered
<1> QED
  BY <1>1, <1>2, <1>3, Basics, PTL DEF Spec
=============================================================================
