---------------------------- MODULE FramingProofs ----------------------------
(***************************************************************************)
(* The byte stream implements a channel of whole messages: for any texts,  *)
(* foreign lines and limits, and however the network cuts the bytes.       *)
(*                                                                         *)
(* The numbers in the length lines are defined by recursion, so what they  *)
(* are is shown by induction.  The induction theorems of the library take  *)
(* a predicate as a parameter; here it is a set of numbers, and the least  *)
(* number outside of it is found by the well-foundedness of finite sets.   *)
(***************************************************************************)
EXTENDS Framing, FiniteSetTheorems, SequenceTheorems, TLAPS

LEMMA LeastNatural ==
  ASSUME NEW T, T \subseteq Nat, T # {}
  PROVE  \E x \in T : \A y \in T : x <= y
<1>1. PICK k \in T : TRUE
  OBVIOUS
<1> DEFINE W == {0 .. j : j \in {i \in T : i <= k}}
<1>2. W \subseteq FiniteSubsetsOf(Nat)
  <2>1. \A j \in Nat : 0 .. j \subseteq Nat /\ IsFiniteSet(0 .. j)
    BY FS_Interval
  <2> QED
    BY <2>1 DEF FiniteSubsetsOf
<1>3. 0 .. k \in W
  BY <1>1
<1> HIDE DEF W
<1>4. PICK w \in W : \A v \in W : <<v, w>> \notin StrictSubsetOrdering(Nat)
  BY <1>2, <1>3, FS_StrictSubsetOrderingWellFounded, WFMin
<1> USE DEF W
<1>5. PICK x \in T : w = 0 .. x /\ x <= k
  BY <1>4
<1>6. ASSUME NEW y \in T, y < x PROVE FALSE
  <2>1. 0 .. y \in W
    BY <1>5, <1>6
  <2>2. x \in 0 .. x /\ x \notin 0 .. y /\ 0 .. y \subseteq 0 .. x /\ 0 .. x \subseteq Nat
    BY <1>6
  <2>3. <<0 .. y, 0 .. x>> \in StrictSubsetOrdering(Nat)
    BY <2>2 DEF StrictSubsetOrdering
  <2> QED
    BY <1>4, <1>5, <2>1, <2>3
<1> QED
  BY <1>6

LEMMA Induction ==
  ASSUME NEW S, \A n \in Nat : (\A m \in 0 .. n - 1 : m \in S) => n \in S
  PROVE  Nat \subseteq S
<1> SUFFICES ASSUME Nat \ S # {} PROVE FALSE
  OBVIOUS
<1>1. PICK x \in Nat \ S : \A y \in Nat \ S : x <= y
  BY LeastNatural
<1>2. \A m \in 0 .. x - 1 : m \in S
  BY <1>1
<1> QED
  BY <1>1, <1>2

----------------------------------------------------------------------------
(* What Decimal computes.                                                  *)
Digits == 48 .. 57

DecimalOf(f, n) ==
  IF n < 10 THEN <<48 + n>> ELSE Append(f[n \div 10], 48 + (n % 10))

IsDecimalTo(f, n) ==
  f \in [0 .. n -> Seq(Digits)] /\ \A k \in 0 .. n : f[k] = DecimalOf(f, k)

LEMMA Tenth ==
  ASSUME NEW n \in Nat, n >= 10
  PROVE  /\ n \div 10 \in 1 .. n - 1 /\ n % 10 \in 0 .. 9
         /\ n = 10 * (n \div 10) + (n % 10)
<1>1. n \div 10 \in Int /\ n % 10 \in 0 .. 9
  OBVIOUS
<1>2. n = 10 * (n \div 10) + (n % 10)
  OBVIOUS
<1>3. PICK q \in Int, r \in 0 .. 9 : q = n \div 10 /\ r = n % 10
  BY <1>1
<1>4. n = 10 * q + r
  BY <1>2, <1>3
<1>5. q \in 1 .. n - 1
  BY <1>4
<1>6. n \div 10 \in 1 .. n - 1
  BY <1>3, <1>5
<1> QED
  BY <1>1, <1>2, <1>6

LEMMA DecimalOfType ==
  ASSUME NEW n \in Nat, NEW f, n >= 10 => f[n \div 10] \in Seq(Digits)
  PROVE  DecimalOf(f, n) \in Seq(Digits)
<1>1. CASE n < 10
  <2>1. 48 + n \in Digits
    BY <1>1 DEF Digits
  <2> QED
    BY <1>1, <2>1 DEF DecimalOf
<1>2. CASE n >= 10
  <2>1. 48 + (n % 10) \in Digits
    BY <1>2, Tenth DEF Digits
  <2>2. DecimalOf(f, n) = Append(f[n \div 10], 48 + (n % 10))
    BY <1>2 DEF DecimalOf
  <2> QED
    BY <1>2, <2>1, <2>2, AppendProperties
<1> QED
  BY <1>1, <1>2

(* Two tables of numerals agree as far as both go. *)
LEMMA DecimalsAgree ==
  ASSUME NEW m \in Nat, NEW n \in Nat, NEW f, IsDecimalTo(f, m), NEW g, IsDecimalTo(g, n)
  PROVE  \A k \in Nat : k <= m /\ k <= n => f[k] = g[k]
<1> DEFINE S == {k \in Nat : k <= m /\ k <= n => f[k] = g[k]}
<1>1. ASSUME NEW k \in Nat, \A j \in 0 .. k - 1 : j \in S PROVE k \in S
  <2> SUFFICES ASSUME k <= m, k <= n PROVE f[k] = g[k]
    OBVIOUS
  <2>1. f[k] = DecimalOf(f, k) /\ g[k] = DecimalOf(g, k)
    BY DEF IsDecimalTo
  <2>2. CASE k < 10
    BY <2>1, <2>2 DEF DecimalOf
  <2>3. CASE k >= 10
    <3>1. k \div 10 \in 0 .. k - 1
      BY <2>3, Tenth
    <3>2. f[k \div 10] = g[k \div 10]
      BY <1>1, <3>1
    <3> QED
      BY <2>1, <3>2 DEF DecimalOf
  <2> QED
    BY <2>2, <2>3
<1> HIDE DEF S
<1>2. Nat \subseteq S
  BY <1>1, Induction
<1> QED
  BY <1>2 DEF S

LEMMA DecimalsExist == \A n \in Nat : \E f : IsDecimalTo(f, n)
<1> DEFINE S == {n \in Nat : \E f : IsDecimalTo(f, n)}
<1>1. ASSUME NEW n \in Nat, \A j \in 0 .. n - 1 : j \in S PROVE n \in S
  <2>1. CASE n = 0
    <3> DEFINE f == [k \in 0 .. n |-> DecimalOf(<<>>, k)]
    <3>1. DecimalOf(<<>>, 0) \in Seq(Digits)
      BY DecimalOfType
    <3>2. \A k \in 0 .. n : k = 0 /\ f[k] = DecimalOf(f, k)
      BY <2>1 DEF DecimalOf
    <3>3. IsDecimalTo(f, n)
      BY <2>1, <3>1, <3>2 DEF IsDecimalTo
    <3> QED
      BY <3>3
  <2>2. CASE n > 0
    <3>1. n - 1 \in S
      BY <1>1, <2>2
    <3>2. PICK g : IsDecimalTo(g, n - 1)
      BY <3>1
    <3> DEFINE f == [k \in 0 .. n |-> IF k = n THEN DecimalOf(g, n) ELSE g[k]]
    <3>3. \A k \in 0 .. n : k >= 10 => k \div 10 \in 0 .. n - 1 /\ f[k \div 10] = g[k \div 10]
      BY <2>2, Tenth
    <3>4. DecimalOf(g, n) \in Seq(Digits)
      <4>1. n >= 10 => g[n \div 10] \in Seq(Digits)
        BY <2>2, <3>2, Tenth DEF IsDecimalTo
      <4> QED
        BY <4>1, DecimalOfType
    <3>5. f \in [0 .. n -> Seq(Digits)]
      BY <2>2, <3>2, <3>4 DEF IsDecimalTo
    <3>6. \A k \in 0 .. n : f[k] = DecimalOf(g, k)
      BY <2>2, <3>2 DEF IsDecimalTo
    <3>7. \A k \in 0 .. n : DecimalOf(f, k) = DecimalOf(g, k)
      BY <3>3 DEF DecimalOf
    <3> HIDE DEF f
    <3>8. IsDecimalTo(f, n)
      BY <3>5, <3>6, <3>7 DEF IsDecimalTo
    <3> QED
      BY <3>8
  <2> QED
    BY <2>1, <2>2
<1> HIDE DEF S
<1>2. Nat \subseteq S
  BY <1>1, Induction
<1> QED
  BY <1>2 DEF S

LEMMA DecimalDefined ==
  \A n \in Nat : Decimal[n] \in Seq(Digits) /\ Decimal[n] = DecimalOf(Decimal, n)
<1>1. PICK upTo : upTo = [n \in Nat |-> CHOOSE f : IsDecimalTo(f, n)]
  OBVIOUS
<1>2. \A n \in Nat : IsDecimalTo(upTo[n], n)
  BY <1>1, DecimalsExist
<1>3. PICK all : all = [n \in Nat |-> upTo[n][n]]
  OBVIOUS
<1>4. ASSUME NEW n \in Nat PROVE all[n] = DecimalOf(all, n)
  <2>1. all[n] = DecimalOf(upTo[n], n)
    BY <1>2, <1>3 DEF IsDecimalTo
  <2>2. CASE n < 10
    BY <2>1, <2>2 DEF DecimalOf
  <2>3. CASE n >= 10
    <3>1. PICK m \in Nat : m = n \div 10 /\ m <= n
      BY <2>3, Tenth
    <3>2. upTo[n][m] = upTo[m][m]
      BY <1>2, <3>1, DecimalsAgree
    <3>3. all[m] = upTo[n][n \div 10]
      BY <1>3, <3>1, <3>2
    <3> QED
      BY <2>1, <2>3, <3>1, <3>3 DEF DecimalOf
  <2> QED
    BY <2>2, <2>3
<1>5. all = [n \in Nat |-> DecimalOf(all, n)]
  BY <1>3, <1>4
<1>6. \E f : f = [n \in Nat |-> DecimalOf(f, n)]
  BY <1>5
<1>7. Decimal = [n \in Nat |-> DecimalOf(Decimal, n)]
  BY <1>6 DEF Decimal, DecimalOf
<1> DEFINE S == {n \in Nat : Decimal[n] \in Seq(Digits)}
<1>8. ASSUME NEW n \in Nat, \A m \in 0 .. n - 1 : m \in S PROVE n \in S
  <2>1. n >= 10 => Decimal[n \div 10] \in Seq(Digits)
    BY <1>8, Tenth
  <2>2. DecimalOf(Decimal, n) \in Seq(Digits)
    BY <2>1, DecimalOfType
  <2> QED
    BY <1>7, <2>2
<1> HIDE DEF S
<1>9. Nat \subseteq S
  BY <1>8, Induction
<1> QED
  BY <1>7, <1>9 DEF S

----------------------------------------------------------------------------
(* What Value computes.                                                    *)
ValueOf(digits, f, k) == IF k = 0 THEN 0 ELSE 10 * f[k - 1] + (digits[k] - 48)

LEMMA ValuesExist ==
  ASSUME NEW digits \in Seq(Digits)
  PROVE  \A n \in Nat : n <= Len(digits) =>
           \E f \in [0 .. n -> Nat] : \A k \in 0 .. n : f[k] = ValueOf(digits, f, k)
<1> DEFINE P(n) == \E f \in [0 .. n -> Nat] : \A k \in 0 .. n : f[k] = ValueOf(digits, f, k)
           S == {n \in Nat : n <= Len(digits) => P(n)}
<1>1. ASSUME NEW n \in Nat, \A j \in 0 .. n - 1 : j \in S PROVE n \in S
  <2> SUFFICES ASSUME n <= Len(digits) PROVE P(n)
    OBVIOUS
  <2>1. CASE n = 0
    <3> DEFINE f == [k \in 0 .. n |-> 0]
    <3>1. f \in [0 .. n -> Nat] /\ \A k \in 0 .. n : f[k] = ValueOf(digits, f, k)
      BY <2>1 DEF ValueOf
    <3> QED
      BY <3>1
  <2>2. CASE n > 0
    <3>1. P(n - 1)
      <4>1. n - 1 \in 0 .. n - 1 /\ n - 1 <= Len(digits)
        BY <2>2
      <4>2. n - 1 \in S
        BY <1>1, <4>1
      <4> QED
        BY <4>1, <4>2
    <3>2. PICK g \in [0 .. n - 1 -> Nat] : \A k \in 0 .. n - 1 : g[k] = ValueOf(digits, g, k)
      BY <3>1
    <3>3. PICK d \in Nat : digits[n] = 48 + d
      <4>1. PICK e \in 48 .. 57 : digits[n] = e
        BY <2>2 DEF Digits
      <4>2. e - 48 \in Nat /\ e = 48 + (e - 48)
        BY <4>1
      <4> QED
        BY <4>1, <4>2
    <3> DEFINE f == [k \in 0 .. n |-> IF k = n THEN 10 * g[n - 1] + d ELSE g[k]]
    <3>4. f \in [0 .. n -> Nat]
      BY <2>2
    <3>5. \A k \in 0 .. n : f[k] = ValueOf(digits, f, k)
      BY <2>2, <3>2, <3>3 DEF ValueOf
    <3> QED
      BY <3>4, <3>5
  <2> QED
    BY <2>1, <2>2
<1> HIDE DEF S
<1>2. Nat \subseteq S
  BY <1>1, Induction
<1> QED
  BY <1>2 DEF S

LEMMA ValuesDefined ==
  ASSUME NEW digits \in Seq(Digits)
  PROVE  /\ Values(digits) \in [0 .. Len(digits) -> Nat]
         /\ \A k \in 0 .. Len(digits) : Values(digits)[k] = ValueOf(digits, Values(digits), k)
<1>0. PICK n \in Nat : n = Len(digits)
  OBVIOUS
<1>1. PICK g \in [0 .. n -> Nat] : \A k \in 0 .. n : g[k] = ValueOf(digits, g, k)
  BY <1>0, ValuesExist
<1>2. \E f : f = [k \in 0 .. n |-> ValueOf(digits, f, k)]
  BY <1>1
<1>3. PICK v : v = Values(digits)
  OBVIOUS
<1>4. v = [k \in 0 .. n |-> ValueOf(digits, v, k)]
  BY <1>0, <1>2, <1>3 DEF Values, ValueOf
<1> DEFINE S == {k \in Nat : k <= n => v[k] \in Nat}
<1>5. ASSUME NEW k \in Nat, \A j \in 0 .. k - 1 : j \in S PROVE k \in S
  <2> SUFFICES ASSUME k <= n PROVE v[k] \in Nat
    OBVIOUS
  <2>1. v[k] = ValueOf(digits, v, k)
    BY <1>4
  <2>2. CASE k = 0
    BY <2>1, <2>2 DEF ValueOf
  <2>3. CASE k > 0
    <3>1. PICK a \in Nat, e \in 48 .. 57 : v[k - 1] = a /\ digits[k] = e
      <4>1. k - 1 \in S /\ k - 1 <= n
        BY <1>5, <2>3
      <4>2. v[k - 1] \in Nat
        BY <4>1
      <4>3. digits[k] \in 48 .. 57
        BY <1>0, <2>3 DEF Digits
      <4> QED
        BY <4>2, <4>3
    <3>2. v[k] = 10 * a + (e - 48)
      BY <2>1, <2>3, <3>1 DEF ValueOf
    <3> QED
      BY <3>1, <3>2
  <2> QED
    BY <2>2, <2>3
<1> HIDE DEF S
<1>6. Nat \subseteq S
  BY <1>5, Induction
<1>7. \A k \in 0 .. n : v[k] \in Nat
  BY <1>6 DEF S
<1>8. v \in [0 .. n -> Nat]
  BY <1>4, <1>7
<1> QED
  BY <1>0, <1>3, <1>4, <1>8

LEMMA ValueOfDigit ==
  ASSUME NEW d \in Digits
  PROVE  Value(<<d>>) = d - 48
<1>1. <<d>> \in Seq(Digits) /\ Len(<<d>>) = 1 /\ <<d>>[1] = d
  OBVIOUS
<1>2. PICK ds \in Seq(Digits) : ds = <<d>> /\ Len(ds) = 1 /\ ds[1] = d
  BY <1>1, Zenon
<1>3. PICK v : v = Values(ds)
  OBVIOUS
<1>4. \A k \in 0 .. 1 : v[k] = ValueOf(ds, v, k)
  BY <1>2, <1>3, ValuesDefined
<1>5. v[0] = 0 /\ v[1] = 10 * v[0] + (d - 48)
  BY <1>2, <1>4 DEF ValueOf
<1>6. v[1] = d - 48
  BY <1>5 DEF Digits
<1> QED
  BY <1>2, <1>3, <1>6 DEF Value

LEMMA ValueOfAppend ==
  ASSUME NEW ds \in Seq(Digits), NEW d \in Digits
  PROVE  Value(Append(ds, d)) = 10 * Value(ds) + (d - 48)
<1>0. Append(ds, d) \in Seq(Digits) /\ Len(ds) \in Nat
  BY AppendProperties
<1>1. PICK es \in Seq(Digits), n \in Nat : es = Append(ds, d) /\ n = Len(ds)
  BY <1>0, Zenon
<1>2. Len(es) = n + 1 /\ es[n + 1] = d /\ \A k \in 1 .. n : es[k] = ds[k]
  BY <1>1
<1>3. PICK v, w : v = Values(ds) /\ w = Values(es)
  OBVIOUS
<1>4. /\ v \in [0 .. n -> Nat] /\ \A k \in 0 .. n : v[k] = ValueOf(ds, v, k)
      /\ w \in [0 .. n + 1 -> Nat] /\ \A k \in 0 .. n + 1 : w[k] = ValueOf(es, w, k)
  BY <1>1, <1>2, <1>3, ValuesDefined
<1> DEFINE S == {k \in Nat : k <= n => v[k] = w[k]}
<1>5. ASSUME NEW k \in Nat, \A j \in 0 .. k - 1 : j \in S PROVE k \in S
  <2> SUFFICES ASSUME k <= n PROVE v[k] = w[k]
    OBVIOUS
  <2>1. v[k] = ValueOf(ds, v, k) /\ w[k] = ValueOf(es, w, k)
    BY <1>4
  <2>2. k > 0 => v[k - 1] = w[k - 1] /\ ds[k] = es[k]
    BY <1>2, <1>5
  <2> QED
    BY <2>1, <2>2 DEF ValueOf
<1> HIDE DEF S
<1>6. Nat \subseteq S
  BY <1>5, Induction
<1>7. v[n] = w[n]
  BY <1>6 DEF S
<1>8. w[n + 1] = 10 * w[n] + (d - 48)
  BY <1>2, <1>4 DEF ValueOf
<1>9. Value(ds) = v[n] /\ Value(es) = w[n + 1]
  BY <1>1, <1>2, <1>3 DEF Value
<1> QED
  BY <1>1, <1>7, <1>8, <1>9

(* A number is read back as it was written, and with no leading zero. *)
ReadsBack(n) ==
  /\ Value(Decimal[n]) = n /\ Decimal[n] # <<>>
  /\ n > 0 => Decimal[n][1] # 48

LEMMA ReadsWhatWasWritten == \A n \in Nat : ReadsBack(n)
<1> DEFINE S == {n \in Nat : ReadsBack(n)}
<1>1. ASSUME NEW n \in Nat, \A j \in 0 .. n - 1 : j \in S PROVE n \in S
  <2>1. Decimal[n] = DecimalOf(Decimal, n)
    BY DecimalDefined
  <2>2. CASE n < 10
    <3>1. Decimal[n] = <<48 + n>> /\ 48 + n \in Digits
      BY <2>1, <2>2 DEF DecimalOf, Digits
    <3>2. Value(Decimal[n]) = n
      BY <3>1, ValueOfDigit
    <3> QED
      BY <3>1, <3>2 DEF ReadsBack
  <2>3. CASE n >= 10
    <3>1. PICK m \in Nat, d \in 0 .. 9 : m = n \div 10 /\ d = n % 10
      BY <2>3, Tenth
    <3>2. m \in 0 .. n - 1 /\ m > 0 /\ n = 10 * m + d
      BY <2>3, <3>1, Tenth
    <3>3. Value(Decimal[m]) = m /\ Decimal[m] # <<>> /\ Decimal[m][1] # 48
      <4>1. ReadsBack(m)
        BY <1>1, <3>2
      <4> QED
        BY <3>2, <4>1 DEF ReadsBack
    <3>4. Decimal[m] \in Seq(Digits) /\ 48 + d \in Digits
      BY DecimalDefined DEF Digits
    <3>5. Decimal[n] = Append(Decimal[m], 48 + d)
      BY <2>1, <2>3, <3>1 DEF DecimalOf
    <3>6. Value(Decimal[n]) = n
      BY <3>2, <3>3, <3>4, <3>5, ValueOfAppend
    <3>7. Decimal[n] # <<>> /\ Decimal[n][1] = Decimal[m][1]
      BY <3>3, <3>4, <3>5
    <3> QED
      BY <3>3, <3>6, <3>7 DEF ReadsBack
  <2> QED
    BY <2>2, <2>3
<1> HIDE DEF S
<1>2. Nat \subseteq S
  BY <1>1, Induction
<1> QED
  BY <1>2 DEF S

LEMMA DecimalIsBytes == \A n \in Nat : Decimal[n] \in Seq(Bytes)
<1>1. Digits \subseteq Bytes
  BY DEF Digits, Bytes
<1> QED
  BY <1>1, DecimalDefined, SeqMonotonic

(* The header of a message announces its length. *)
LEMMA HeadersAreLengths ==
  ASSUME NEW n \in 1 .. MaxInt32
  PROVE  /\ Decimal[n] \in Seq(Digits) /\ Decimal[n] # <<>>
         /\ IsLength(Decimal[n]) /\ Value(Decimal[n]) = n
<1>1. Decimal[n] \in Seq(Digits)
  BY DecimalDefined, FramingAssumption
<1>2. Value(Decimal[n]) = n /\ Decimal[n] # <<>> /\ Decimal[n][1] # 48
  BY ReadsWhatWasWritten, FramingAssumption DEF ReadsBack
<1>3. \A i \in DOMAIN Decimal[n] : Decimal[n][i] \in 48 .. 57
  BY <1>1 DEF Digits
<1> QED
  BY <1>1, <1>2, <1>3, FramingAssumption DEF IsLength

----------------------------------------------------------------------------
(* Sequences: joined, taken apart, and their last elements.                *)
LEMMA Joined ==
  ASSUME NEW S, NEW s \in Seq(S), NEW t \in Seq(S), NEW all \in Seq(S), NEW n \in Nat,
         NEW m \in Nat, all = s \o t, n = Len(s), m = Len(t)
  PROVE  /\ Len(all) = n + m
         /\ \A i \in 1 .. n : all[i] = s[i]
         /\ \A i \in 1 .. m : all[n + i] = t[i]
OBVIOUS

LEMMA Starts ==
  ASSUME NEW S, NEW s \in Seq(S), NEW t \in Seq(S)
  PROVE  /\ s \o t \in Seq(S) /\ Len(s \o t) = Len(s) + Len(t)
         /\ \A i \in 1 .. Len(s) : (s \o t)[i] = s[i]
OBVIOUS

LEMMA Ends ==
  ASSUME NEW S, NEW s \in Seq(S), NEW t \in Seq(S)
  PROVE  \A i \in 1 .. Len(t) : (s \o t)[Len(s) + i] = t[i]
OBVIOUS

LEMMA FirstPart ==
  ASSUME NEW S, NEW s \in Seq(S), NEW n \in 0 .. Len(s)
  PROVE  /\ SubSeq(s, 1, n) \in Seq(S) /\ Len(SubSeq(s, 1, n)) = n
         /\ \A i \in 1 .. n : SubSeq(s, 1, n)[i] = s[i]
OBVIOUS

LEMMA LastPart ==
  ASSUME NEW S, NEW s \in Seq(S), NEW n \in Nat, n = Len(s), NEW l \in Nat, l <= n
  PROVE  Len(SubSeq(s, l + 1, n)) = n - l
OBVIOUS

PartOfPart(s, n, l, k, t) ==
  /\ SubSeq(t, 1, k) = SubSeq(s, l + 1, l + k)
  /\ SubSeq(t, k + 1, n - l) = SubSeq(s, l + k + 1, n)

LEMMA PartOfLastPart ==
  ASSUME NEW S, NEW s \in Seq(S), NEW n \in Nat, n = Len(s), NEW l \in Nat, NEW k \in Nat,
         l + k <= n, NEW t \in Seq(S), t = SubSeq(s, l + 1, n)
  PROVE  PartOfPart(s, n, l, k, t)
<1>1. SubSeq(t, 1, k) = SubSeq(s, l + 1, l + k)
  OBVIOUS
<1>2. SubSeq(t, k + 1, n - l) = SubSeq(s, l + k + 1, n)
  OBVIOUS
<1> QED
  BY <1>1, <1>2 DEF PartOfPart

LEMMA CutAt ==
  ASSUME NEW S, NEW s \in Seq(S), NEW n \in 0 .. Len(s)
  PROVE  /\ SubSeq(s, 1, n) \in Seq(S) /\ SubSeq(s, n + 1, Len(s)) \in Seq(S)
         /\ s = SubSeq(s, 1, n) \o SubSeq(s, n + 1, Len(s))
<1>1. SubSeq(s, 1, n) \in Seq(S) /\ SubSeq(s, n + 1, Len(s)) \in Seq(S)
  OBVIOUS
<1>2. SubSeq(s, 1, n) \o SubSeq(s, n + 1, Len(s)) = SubSeq(s, 1, Len(s))
  <2>1. 1 \in 1 .. Len(s) + 1 /\ n \in 1 - 1 .. Len(s) /\ Len(s) \in n .. Len(s)
    OBVIOUS
  <2> QED
    BY <2>1, ConcatAdjacentSubSeq
<1> QED
  BY <1>1, <1>2, SubSeqFull

LEMMA SameStart ==
  ASSUME NEW S, NEW s \in Seq(S), NEW t \in Seq(S), NEW u \in Seq(S), NEW v \in Seq(S),
         s \o t = u \o v, Len(s) = Len(u)
  PROVE  s = u /\ t = v
<1>1. Len(s \o t) = Len(s) + Len(t) /\ \A i \in 1 .. Len(s) : (s \o t)[i] = s[i]
  BY Starts
<1>2. Len(u \o v) = Len(u) + Len(v) /\ \A i \in 1 .. Len(u) : (u \o v)[i] = u[i]
  BY Starts
<1>3. \A i \in 1 .. Len(t) : (s \o t)[Len(s) + i] = t[i]
  BY Ends
<1>4. \A i \in 1 .. Len(v) : (u \o v)[Len(u) + i] = v[i]
  BY Ends
<1>5. s = u
  BY <1>1, <1>2, SeqEqual
<1>6. Len(t) = Len(v)
  BY <1>1, <1>2
<1>7. \A i \in 1 .. Len(t) : t[i] = v[i]
  BY <1>3, <1>4, <1>6
<1> QED
  BY <1>5, <1>6, <1>7, SeqEqual

(* The provers apply this more readily when the equation has a name. *)
Regroups(s, t, u) == (s \o t) \o u = s \o (t \o u)

LEMMA Regroup ==
  ASSUME NEW S, NEW s \in Seq(S), NEW t \in Seq(S), NEW u \in Seq(S)
  PROVE  Regroups(s, t, u)
BY DEF Regroups

(* What was taken out of the buffer is the first part of the stream, and   *)
(* what is left is the other.                                              *)
SplitsAt(b, w, n, p, q, S) ==
  /\ SubSeq(b, 1, n) = p
  /\ SubSeq(b, n + 1, Len(b)) \in Seq(S)
  /\ SubSeq(b, n + 1, Len(b)) \o w = q

LEMMA Split ==
  \A S : \A b, w, p, q \in Seq(S) :
    b \o w = p \o q /\ Len(p) <= Len(b) => SplitsAt(b, w, Len(p), p, q, S)
<1> TAKE S
<1> TAKE b, w, p, q \in Seq(S)
<1>1. HAVE b \o w = p \o q /\ Len(p) <= Len(b)
<1>2. Len(p) \in 0 .. Len(b)
  BY <1>1
<1>3. PICK t \in Seq(S), h \in Seq(S) :
        t = SubSeq(b, Len(p) + 1, Len(b)) /\ h = SubSeq(b, 1, Len(p))
  BY <1>2, CutAt
<1>4. b = h \o t
  <2>1. b = SubSeq(b, 1, Len(p)) \o SubSeq(b, Len(p) + 1, Len(b))
    BY <1>2, CutAt
  <2> QED
    BY <1>3, <2>1
<1>5. Len(h) = Len(p)
  BY <1>2, <1>3, FirstPart
<1>6. Regroups(h, t, w)
  BY Regroup
<1>7. PICK u \in Seq(S) : u = t \o w
  BY ConcatProperties
<1>8. h \o u = p \o q
  BY <1>1, <1>4, <1>6, <1>7 DEF Regroups
<1>9. h = p /\ u = q
  BY <1>5, <1>8, SameStart
<1> QED
  BY <1>3, <1>7, <1>9 DEF SplitsAt

LEMMA ReverseEnds ==
  ASSUME NEW S, NEW s \in Seq(S)
  PROVE  /\ Reverse(s) \in Seq(S) /\ Len(Reverse(s)) = Len(s)
         /\ Len(s) >= 2 => Reverse(s)[1] = s[Len(s)] /\ Reverse(s)[2] = s[Len(s) - 1]
BY DEF Reverse

LEMMA SuffixOfTwo ==
  ASSUME NEW S, NEW e \in Seq(S), NEW s \in Seq(S), Len(e) = 2
  PROVE  IsSuffix(e, s) <=> Len(s) >= 2 /\ s[Len(s) - 1] = e[1] /\ s[Len(s)] = e[2]
<1>1. PICK r \in Seq(S), f \in Seq(S) : r = Reverse(s) /\ f = Reverse(e)
  BY ReverseEnds
<1>2. Len(f) = Len(e) /\ (Len(e) >= 2 => f[1] = e[Len(e)] /\ f[2] = e[Len(e) - 1])
  BY <1>1, ReverseEnds
<1>3. Len(f) = 2 /\ f[1] = e[2] /\ f[2] = e[1]
  BY <1>2
<1>4. Len(r) = Len(s) /\ (Len(s) >= 2 => r[1] = s[Len(s)] /\ r[2] = s[Len(s) - 1])
  BY <1>1, ReverseEnds
<1>5. IsSuffix(e, s) <=> Len(s) >= 2 /\ SubSeq(f, 1, 2) = SubSeq(r, 1, 2)
  BY <1>1, <1>3, <1>4 DEF IsSuffix, IsPrefix
<1>6. ASSUME Len(s) >= 2 PROVE SubSeq(f, 1, 2) = SubSeq(r, 1, 2) <=> f[1] = r[1] /\ f[2] = r[2]
  BY <1>3, <1>4, <1>6
<1> QED
  BY <1>3, <1>4, <1>5, <1>6

----------------------------------------------------------------------------
(* The first line of the stream, and the first line of the buffer.         *)
LEMMA CRLFType == CRLF \in Seq(Bytes) /\ Len(CRLF) = 2 /\ CRLF[1] = CR /\ CRLF[2] = LF
BY DEF CRLF, CR, LF, Bytes

LEMMA AfterCRLF ==
  ASSUME NEW t \in Seq(Bytes)
  PROVE  Len(CRLF \o t) = 2 + Len(t) /\ (CRLF \o t)[1] = CR /\ (CRLF \o t)[2] = LF
<1>1. PICK e \in Seq(Bytes) : e = CRLF
  BY CRLFType
<1>2. Len(e \o t) = Len(e) + Len(t) /\ \A i \in 1 .. Len(e) : (e \o t)[i] = e[i]
  BY Starts
<1>3. Len(e) = 2 /\ e[1] = CR /\ e[2] = LF
  BY <1>1, CRLFType
<1>4. Len(e \o t) = 2 + Len(t) /\ (e \o t)[1] = CR /\ (e \o t)[2] = LF
  BY <1>2, <1>3
<1> QED
  BY <1>1, <1>4

NoEarlierEnd(line) == \A i \in 1 .. Len(line) - 1 : ~ EndsLine(line, i)
LineEndsOf(b) == {i \in 1 .. Len(b) - 1 : EndsLine(b, i)}

LEMMA FirstLineEnd ==
  ASSUME NEW b \in Seq(Bytes), NEW line \in Seq(Bytes), NEW all \in Seq(Bytes),
         NEW n \in Nat, NEW m \in Nat, n = Len(line), m = Len(b),
         all[n + 1] = CR, all[n + 2] = LF, \A i \in 1 .. n : all[i] = line[i],
         \A i \in 1 .. m : all[i] = b[i],
         NoEarlierEnd(line), LineEndsOf(b) # {}
  PROVE  Min(LineEndsOf(b)) = n + 1 /\ n + 2 <= m
<1>1. PICK E : E = LineEndsOf(b)
  OBVIOUS
<1>2. E = {i \in 1 .. m - 1 : EndsLine(b, i)} /\ E # {}
  BY <1>1 DEF LineEndsOf
<1>3. \A i \in 1 .. n : ~ EndsLine(all, i)
  <2> SUFFICES ASSUME NEW i \in 1 .. n, EndsLine(all, i) PROVE FALSE
    OBVIOUS
  <2>1. CASE i = n
    <3>1. all[n + 1] = LF
      BY <2>1 DEF EndsLine
    <3> QED
      BY <3>1 DEF CR, LF
  <2>2. CASE i < n
    <3>1. all[i] = line[i] /\ all[i + 1] = line[i + 1]
      BY <2>2
    <3>2. EndsLine(line, i)
      BY <3>1 DEF EndsLine
    <3> QED
      BY <2>2, <3>2 DEF NoEarlierEnd
  <2> QED
    BY <2>1, <2>2
<1>4. \A i \in 1 .. m - 1 : EndsLine(b, i) <=> EndsLine(all, i)
  <2> TAKE i \in 1 .. m - 1
  <2>1. all[i] = b[i] /\ all[i + 1] = b[i + 1]
    OBVIOUS
  <2> QED
    BY <2>1 DEF EndsLine
<1>5. \A i \in E : i \in 1 .. m - 1 /\ n + 1 <= i
  BY <1>2, <1>3, <1>4
<1>6. n + 1 <= m - 1
  BY <1>2, <1>5
<1>7. n + 1 \in E
  <2>1. (n + 1) + 1 = n + 2
    OBVIOUS
  <2>2. EndsLine(all, n + 1)
    BY <2>1 DEF EndsLine
  <2> QED
    BY <1>2, <1>4, <1>6, <2>2
<1>8. PICK x : x = Min(E)
  OBVIOUS
<1>9. x \in E /\ \A y \in E : x <= y
  BY <1>5, <1>7, <1>8 DEF Min
<1>10. x = n + 1
  BY <1>5, <1>7, <1>9
<1> QED
  BY <1>1, <1>6, <1>8, <1>10

(* If the stream starts with a line and handleMessage finds a line, it is  *)
(* that one.                                                               *)
LEMMA FirstLine ==
  ASSUME buffer \in Seq(Bytes), wire \in Seq(Bytes), NEW line \in Seq(Bytes),
         NEW rest \in Seq(Bytes), buffer \o wire = line \o (CRLF \o rest),
         NoEarlierEnd(line), HasLine
  PROVE  Line = line /\ HeaderLen = Len(line) + 2 /\ HeaderLen <= Len(buffer)
<1>1. PICK b \in Seq(Bytes), w \in Seq(Bytes), u \in Seq(Bytes), all \in Seq(Bytes) :
        b = buffer /\ w = wire /\ u = CRLF \o rest /\ all = b \o w
  BY CRLFType, ConcatProperties
<1>2. all = line \o u
  BY <1>1
<1>3. PICK n \in Nat, m \in Nat, k \in Nat, l \in Nat, r \in Nat :
        n = Len(line) /\ m = Len(b) /\ k = Len(w) /\ l = Len(u) /\ r = Len(rest)
  OBVIOUS
<1>4. l = 2 + r /\ u[1] = CR /\ u[2] = LF
  BY <1>1, <1>3, AfterCRLF
<1>5. (\A i \in 1 .. n : all[i] = line[i]) /\ all[n + 1] = CR /\ all[n + 2] = LF
  <2>1. (\A i \in 1 .. n : all[i] = line[i]) /\ \A i \in 1 .. l : all[n + i] = u[i]
    BY <1>2, <1>3, Joined
  <2>2. all[n + 1] = u[1] /\ all[n + 2] = u[2]
    BY <1>4, <2>1
  <2> QED
    BY <1>4, <2>1, <2>2
<1>6. \A i \in 1 .. m : all[i] = b[i]
  <2>1. all = b \o w /\ m = Len(b) /\ k = Len(w)
    BY <1>1, <1>3
  <2> QED
    BY <2>1, Joined
<1>7. LineEnds = LineEndsOf(b) /\ LineEndsOf(b) # {}
  BY <1>1 DEF LineEnds, LineEndsOf, HasLine
<1>8. Min(LineEnds) = n + 1 /\ n + 2 <= m
  BY <1>3, <1>5, <1>6, <1>7, FirstLineEnd
<1>9. Line = SubSeq(b, 1, n)
  <2>1. (n + 1) - 1 = n
    OBVIOUS
  <2> QED
    BY <1>1, <1>8, <2>1 DEF Line
<1>10. SubSeq(b, 1, n) = line
  BY <1>1, <1>2, <1>3, <1>8, Split DEF SplitsAt
<1> QED
  BY <1>1, <1>3, <1>8, <1>9, <1>10 DEF HeaderLen

----------------------------------------------------------------------------
(* What is left to read, from a point where handleMessage looks for a      *)
(* length: the bytes, and how many messages were sent before them.  A set  *)
(* of such rests is readable if each of them is empty and behind all the   *)
(* messages, or starts with a line that is no length, or with the header   *)
(* and the text of the next message, and goes on with a rest of the set.   *)
Rests == [bytes : Seq(Bytes), seen : Nat]

EndsHere(r, texts) == r.bytes = <<>> /\ r.seen = Len(texts)

IsLine(line) == line \in Seq(Bytes) /\ NoEarlierEnd(line) /\ ~ IsLength(line)

LineBytes(line, rest) == (line \o CRLF) \o rest
MessageBytes(body, rest) == (Decimal[Len(body)] \o CRLF) \o (body \o rest)

LineThen(r, q) ==
  /\ q.seen = r.seen
  /\ \E line : IsLine(line) /\ r.bytes = LineBytes(line, q.bytes)

IsBody(body, text) ==
  body \in Seq(Bytes) /\ Len(body) \in 1 .. MaxInt32 /\ Content(body) = text

MessageThen(r, q, texts) ==
  /\ q.seen = r.seen + 1 /\ q.seen <= Len(texts)
  /\ \E body : /\ IsBody(body, texts[q.seen])
               /\ r.bytes = MessageBytes(body, q.bytes)

Readable(R, texts) ==
  \A r \in R : \/ EndsHere(r, texts)
               \/ \E q \in R : LineThen(r, q) \/ MessageThen(r, q, texts)

Rest == [bytes |-> buffer \o wire, seen |-> Len(taken)]

Inv == TypeOK /\ \E R \in SUBSET Rests : Rest \in R /\ Readable(R, sent)

----------------------------------------------------------------------------
(* More is written behind the rests: they can still be read, if what is    *)
(* written can.                                                            *)
Shift(r, more) == [bytes |-> r.bytes \o more, seen |-> r.seen]

LEMMA MoreBytes ==
  ASSUME NEW body \in Seq(Bytes), NEW rest \in Seq(Bytes), NEW more \in Seq(Bytes)
  PROVE  /\ LineBytes(body, rest) \o more = LineBytes(body, rest \o more)
         /\ MessageBytes(body, rest) \o more = MessageBytes(body, rest \o more)
<1>1. PICK s \in Seq(Bytes) : s = body \o CRLF
  BY CRLFType, ConcatProperties
<1>2. PICK n \in Seq(Bytes) : n = Decimal[Len(body)]
  BY DecimalIsBytes
<1>3. PICK d \in Seq(Bytes) : d = n \o CRLF
  BY CRLFType, ConcatProperties
<1>4. PICK t \in Seq(Bytes), u \in Seq(Bytes) : t = body \o rest /\ u = rest \o more
  BY ConcatProperties
<1>5. Regroups(s, rest, more) /\ Regroups(d, t, more) /\ Regroups(body, rest, more)
  BY Regroup
<1>6. LineBytes(body, rest) \o more = LineBytes(body, rest \o more)
  BY <1>1, <1>5 DEF LineBytes, Regroups
<1>7. t \o more = body \o u
  BY <1>4, <1>5 DEF Regroups
<1>8. MessageBytes(body, rest) = d \o t /\ MessageBytes(body, rest \o more) = d \o (body \o u)
  BY <1>2, <1>3, <1>4 DEF MessageBytes
<1>9. (d \o t) \o more = d \o (body \o u)
  BY <1>5, <1>7 DEF Regroups
<1> QED
  BY <1>6, <1>8, <1>9

LEMMA ShiftType ==
  ASSUME NEW r \in Rests, NEW more \in Seq(Bytes)
  PROVE  /\ Shift(r, more) \in Rests /\ Shift(r, more).seen = r.seen
         /\ Shift(r, more).bytes = r.bytes \o more
<1>1. PICK b \in Seq(Bytes), n \in Nat : r = [bytes |-> b, seen |-> n]
  BY DEF Rests
<1>2. b \o more \in Seq(Bytes)
  BY ConcatProperties
<1> QED
  BY <1>1, <1>2 DEF Shift, Rests

LEMMA ShiftLine ==
  ASSUME NEW r \in Rests, NEW q \in Rests, LineThen(r, q), NEW more \in Seq(Bytes)
  PROVE  LineThen(Shift(r, more), Shift(q, more))
<1>1. PICK line : IsLine(line) /\ r.bytes = LineBytes(line, q.bytes)
  BY DEF LineThen
<1>2. LineBytes(line, q.bytes) \o more = LineBytes(line, q.bytes \o more)
  BY <1>1, MoreBytes DEF IsLine, Rests
<1>5. Shift(r, more).bytes = LineBytes(line, Shift(q, more).bytes)
  BY <1>1, <1>2, ShiftType
<1>6. Shift(r, more).seen = Shift(q, more).seen
  BY ShiftType DEF LineThen
<1> QED
  BY <1>1, <1>5, <1>6 DEF LineThen

LEMMA ShiftMessage ==
  ASSUME NEW r \in Rests, NEW q \in Rests, NEW old, NEW texts, Len(old) \in Nat,
         Len(texts) \in Nat, Len(old) <= Len(texts), \A i \in 1 .. Len(old) : texts[i] = old[i],
         MessageThen(r, q, old), NEW more \in Seq(Bytes)
  PROVE  MessageThen(Shift(r, more), Shift(q, more), texts)
<1>1. PICK body : IsBody(body, old[q.seen]) /\ r.bytes = MessageBytes(body, q.bytes)
  BY DEF MessageThen
<1>2. MessageBytes(body, q.bytes) \o more = MessageBytes(body, q.bytes \o more)
  BY <1>1, MoreBytes DEF IsBody, Rests
<1>6. Shift(r, more).bytes = MessageBytes(body, Shift(q, more).bytes)
  BY <1>1, <1>2, ShiftType
<1>7. /\ Shift(r, more).seen = r.seen /\ Shift(q, more).seen = q.seen
      /\ q.seen = r.seen + 1 /\ q.seen \in 1 .. Len(old)
  <2>1. PICK n \in Nat, k \in Nat, l \in Nat : n = r.seen /\ k = q.seen /\ l = Len(old)
    BY DEF Rests
  <2>2. k = n + 1 /\ k <= l
    BY <2>1 DEF MessageThen
  <2>3. k \in 1 .. l
    BY <2>2
  <2> QED
    BY <2>1, <2>2, <2>3, ShiftType
<1>8. q.seen <= Len(texts) /\ texts[q.seen] = old[q.seen]
  BY <1>7
<1> QED
  BY <1>1, <1>6, <1>7, <1>8 DEF MessageThen

LEMMA ReadOn ==
  ASSUME NEW R \in SUBSET Rests, NEW old, NEW texts, Len(old) \in Nat, Len(texts) \in Nat,
         Len(old) <= Len(texts), \A i \in 1 .. Len(old) : texts[i] = old[i],
         Readable(R, old), NEW M \in SUBSET Rests, Readable(M, texts),
         NEW more \in Seq(Bytes), [bytes |-> more, seen |-> Len(old)] \in M
  PROVE  \E Q \in SUBSET Rests : Readable(Q, texts) /\ \A r \in R : Shift(r, more) \in Q
<1> DEFINE Q == M \cup {Shift(r, more) : r \in R}
<1>1. Q \in SUBSET Rests
  BY ShiftType
<1>2. \A r \in R : Shift(r, more) \in Q
  OBVIOUS
<1>3. M \subseteq Q
  OBVIOUS
<1> HIDE DEF Q
<1>4. ASSUME NEW r \in M
      PROVE  EndsHere(r, texts) \/ \E q \in Q : LineThen(r, q) \/ MessageThen(r, q, texts)
  BY <1>3 DEF Readable
<1>5. ASSUME NEW r \in R
      PROVE  \/ Shift(r, more) \in M
             \/ \E q \in Q : \/ LineThen(Shift(r, more), q)
                             \/ MessageThen(Shift(r, more), q, texts)
  <2>1. CASE EndsHere(r, old)
    <3>1. r.bytes = <<>> /\ r.seen = Len(old)
      BY <2>1 DEF EndsHere
    <3>2. <<>> \o more = more
      BY ConcatEmptySeq
    <3>3. Shift(r, more) = [bytes |-> more, seen |-> Len(old)]
      BY <3>1, <3>2 DEF Shift
    <3> QED
      BY <3>3
  <2>2. ASSUME NEW q \in R, LineThen(r, q)
        PROVE  LineThen(Shift(r, more), Shift(q, more))
    BY <2>2, ShiftLine
  <2>3. ASSUME NEW q \in R, MessageThen(r, q, old)
        PROVE  MessageThen(Shift(r, more), Shift(q, more), texts)
    BY <2>3, ShiftMessage
  <2> QED
    BY <1>2, <2>1, <2>2, <2>3 DEF Readable
<1>6. Readable(Q, texts)
  <2> SUFFICES ASSUME NEW s \in Q
               PROVE  \/ EndsHere(s, texts)
                      \/ \E q \in Q : LineThen(s, q) \/ MessageThen(s, q, texts)
    BY DEF Readable
  <2>1. s \in M \/ \E r \in R : s = Shift(r, more)
    BY DEF Q
  <2> QED
    BY <1>4, <1>5, <2>1
<1> QED
  BY <1>1, <1>2, <1>6

----------------------------------------------------------------------------
(* What is written can be read: a text behind its header, counted with the *)
(* end of line or without, and a foreign line.                             *)
LEMMA BlankLine == IsLine(<<>>) /\ \A s \in Seq(Bytes) : LineBytes(<<>>, s) = CRLF \o s
<1>1. IsLine(<<>>)
  BY DEF IsLine, NoEarlierEnd, IsLength
<1>2. <<>> \o CRLF = CRLF
  BY CRLFType, ConcatEmptySeq
<1> QED
  BY <1>1, <1>2 DEF LineBytes

LEMMA DigitsHaveNoEnd ==
  ASSUME NEW ds \in Seq(Digits)
  PROVE  NoEarlierEnd(ds)
<1> SUFFICES ASSUME NEW i \in 1 .. Len(ds) - 1 PROVE ds[i] # CR
  BY DEF NoEarlierEnd, EndsLine
<1>1. ds[i] \in Digits
  BY ElementOfSeq
<1> QED
  BY <1>1 DEF Digits, CR

LEMMA ContentOfText ==
  ASSUME NEW p, IsText(p)
  PROVE  /\ Content(p) = p /\ Content(p \o CRLF) = p
         /\ IsBody(p, p) /\ IsBody(p \o CRLF, p)
<1>1. p \in Seq(Bytes) /\ p # <<>> /\ Len(p) + 2 <= MaxInt32 /\ ~ IsSuffix(CRLF, p)
  BY DEF IsText
<1>2. PICK n \in Nat, m \in Nat : n = Len(p) /\ m = MaxInt32
  BY <1>1, FramingAssumption
<1>3. n \in 1 .. m /\ n + 2 \in 1 .. m
  BY <1>1, <1>2
<1>4. PICK q \in Seq(Bytes), e \in Seq(Bytes), k \in Nat :
        q = p \o CRLF /\ e = CRLF /\ k = Len(e) /\ k = 2
  <2>1. p \o CRLF \in Seq(Bytes)
    BY <1>1, CRLFType, ConcatProperties
  <2> QED
    BY <2>1, CRLFType
<1>5. /\ Len(q) = n + 2 /\ q[n + 1] = CR /\ q[n + 2] = LF
      /\ \A i \in 1 .. n : q[i] = p[i]
  <2>0. PICK t \in Seq(Bytes) : t = p /\ q = t \o e /\ n = Len(t) /\ k = Len(e)
    BY <1>1, <1>2, <1>4
  <2>1. Len(q) = n + k /\ (\A i \in 1 .. n : q[i] = p[i]) /\ \A i \in 1 .. k : q[n + i] = e[i]
    BY <2>0, Joined
  <2>2. q[n + 1] = e[1] /\ q[n + 2] = e[2]
    BY <1>4, <2>1
  <2> QED
    BY <1>4, <2>1, <2>2, CRLFType
<1>6. IsSuffix(CRLF, q)
  <2>1. Len(q) >= 2 /\ Len(q) - 1 = n + 1
    BY <1>5
  <2> QED
    BY <1>5, <2>1, CRLFType, SuffixOfTwo
<1>7. SubSeq(q, 1, n) = p
  <2>1. PICK h : h = SubSeq(q, 1, n)
    OBVIOUS
  <2>2. n \in 0 .. Len(q)
    BY <1>5
  <2>3. h \in Seq(Bytes) /\ Len(h) = n /\ \A i \in 1 .. n : h[i] = q[i]
    BY <2>1, <2>2, FirstPart
  <2>4. \A i \in 1 .. Len(h) : h[i] = p[i]
    BY <1>5, <2>3
  <2> QED
    BY <1>1, <1>2, <2>1, <2>3, <2>4, SeqEqual
<1>8. Content(q) = p
  <2>1. Len(q) - 2 = n
    BY <1>5
  <2> QED
    BY <1>6, <1>7, <2>1 DEF Content
<1>9. Content(p) = p
  BY <1>1 DEF Content
<1> QED
  BY <1>1, <1>2, <1>3, <1>4, <1>5, <1>8, <1>9 DEF IsBody

LEMMA FrameIsMessage ==
  ASSUME NEW p, IsText(p)
  PROVE  /\ Frame(p, Len(p)) = MessageBytes(p, CRLF)
         /\ Frame(p, Len(p) + 2) = MessageBytes(p \o CRLF, <<>>)
         /\ Frame(p, Len(p)) \in Seq(Bytes) /\ Frame(p, Len(p) + 2) \in Seq(Bytes)
<1>1. PICK t \in Seq(Bytes) : t = p
  BY DEF IsText
<1>2. PICK q \in Seq(Bytes) : q = t \o CRLF
  BY CRLFType, ConcatProperties
<1>3. Len(q) = Len(t) + 2
  <2>1. Len(t \o CRLF) = Len(t) + Len(CRLF)
    BY CRLFType, Starts
  <2> QED
    BY <1>2, <2>1, CRLFType
<1>4. \A n \in Nat : Frame(p, n) = (Decimal[n] \o CRLF) \o q /\ Frame(p, n) \in Seq(Bytes)
  <2> TAKE n \in Nat
  <2>1. PICK d \in Seq(Bytes) : d = Decimal[n]
    BY DecimalIsBytes
  <2>2. PICK h \in Seq(Bytes) : h = d \o CRLF
    BY CRLFType, ConcatProperties
  <2>3. Regroups(h, t, CRLF)
    BY CRLFType, Regroup
  <2>4. (h \o t) \o CRLF = h \o q
    BY <1>2, <2>3 DEF Regroups
  <2>5. h \o q \in Seq(Bytes)
    BY ConcatProperties
  <2>6. Frame(p, n) = (h \o t) \o CRLF
    BY <1>1, <2>1, <2>2 DEF Frame
  <2> QED
    BY <2>1, <2>2, <2>4, <2>5, <2>6
<1>5. Len(t) \in Nat /\ Len(t) + 2 \in Nat
  OBVIOUS
<1>6. q \o <<>> = q
  BY ConcatEmptySeq
<1> QED
  BY <1>1, <1>2, <1>3, <1>4, <1>5, <1>6 DEF MessageBytes

LEMMA LengthIsPadded ==
  ASSUME NEW line \in Seq(Bytes), IsLength(line)
  PROVE  IsPaddedLength(line)
<1>1. Len(line) \in Nat \ {0} /\ DOMAIN line = 1 .. Len(line)
  BY EmptySeq DEF IsLength
<1>2. 1 \in DOMAIN line /\ Len(line) \in DOMAIN line /\ DOMAIN line \ (1 .. Len(line)) = {}
  BY <1>1
<1>3. SubSeq(line, 1, Len(line)) = line
  OBVIOUS
<1> QED
  BY <1>2, <1>3 DEF IsPaddedLength

LEMMA ForeignIsLine ==
  ASSUME NEW f, IsForeign(f)
  PROVE  f \in Seq(Bytes) /\ \E line : IsLine(line) /\ f = LineBytes(line, <<>>)
<1>1. PICK g \in Seq(Bytes), n \in Nat : g = f /\ Len(g) = n + 2
  <2>1. f \in Seq(Bytes) /\ Len(f) >= 2
    BY DEF IsForeign
  <2>2. Len(f) = (Len(f) - 2) + 2 /\ Len(f) - 2 \in Nat
    BY <2>1
  <2> QED
    BY <2>1, <2>2
<1>2. /\ EndsLine(g, n + 1) /\ ~ IsLength(SubSeq(g, 1, n))
      /\ \A i \in 1 .. n : ~ EndsLine(g, i)
  <2>1. Len(f) - 1 = n + 1 /\ Len(f) - 2 = n
    BY <1>1
  <2>2. EndsLine(g, n + 1) /\ ~ IsPaddedLength(SubSeq(g, 1, n))
    BY <1>1, <2>1 DEF IsForeign
  <2>3. \A i \in 1 .. n : ~ EndsLine(g, i)
    BY <1>1, <2>1 DEF IsForeign
  <2>4. SubSeq(g, 1, n) \in Seq(Bytes)
    BY <1>1
  <2> QED
    BY <2>2, <2>3, <2>4, LengthIsPadded
<1>3. g[n + 1] = CR /\ g[n + 2] = LF
  <2>1. (n + 1) + 1 = n + 2
    OBVIOUS
  <2> QED
    BY <1>2, <2>1 DEF EndsLine
<1>4. n \in 0 .. Len(g)
  BY <1>1
<1>5. PICK line \in Seq(Bytes), e \in Seq(Bytes) :
        line = SubSeq(g, 1, n) /\ e = SubSeq(g, n + 1, Len(g))
  BY <1>4, CutAt
<1>6. g = line \o e
  <2>1. g = SubSeq(g, 1, n) \o SubSeq(g, n + 1, Len(g))
    BY <1>4, CutAt
  <2> QED
    BY <1>5, <2>1
<1>7. Len(line) = n /\ \A i \in 1 .. n : line[i] = g[i]
  BY <1>4, <1>5, FirstPart
<1>8. e = CRLF
  <2>1. PICK k \in Nat : k = Len(e)
    OBVIOUS
  <2>0. n = Len(line)
    BY <1>7
  <2>2. Len(g) = n + k /\ \A i \in 1 .. k : g[n + i] = e[i]
    BY <1>6, <2>0, <2>1, Joined
  <2>3. k = 2
    BY <1>1, <2>2
  <2>4. e[1] = CR /\ e[2] = LF
    BY <1>3, <2>2, <2>3
  <2>5. \A i \in 1 .. Len(e) : e[i] = CRLF[i]
    BY <2>1, <2>3, <2>4, CRLFType
  <2> QED
    BY <2>1, <2>3, <2>5, CRLFType, SeqEqual
<1>9. NoEarlierEnd(line)
  <2> SUFFICES ASSUME NEW i \in 1 .. n - 1, EndsLine(line, i) PROVE FALSE
    BY <1>7 DEF NoEarlierEnd
  <2>1. line[i] = g[i] /\ line[i + 1] = g[i + 1]
    BY <1>7
  <2>2. EndsLine(g, i)
    BY <2>1 DEF EndsLine
  <2> QED
    BY <1>2, <2>2
<1>10. IsLine(line)
  BY <1>2, <1>5, <1>9 DEF IsLine
<1>11. (line \o CRLF) \o <<>> = line \o CRLF
  <2>1. line \o CRLF \in Seq(Bytes)
    BY CRLFType, ConcatProperties
  <2> QED
    BY <2>1, ConcatEmptySeq
<1> QED
  BY <1>1, <1>6, <1>8, <1>10, <1>11 DEF LineBytes

LEMMA MessageCanBeRead ==
  ASSUME NEW old, Len(old) \in Nat, NEW p, IsText(p), Len(Append(old, p)) = Len(old) + 1,
         Append(old, p)[Len(old) + 1] = p, NEW length \in {Len(p), Len(p) + 2}
  PROVE  /\ Frame(p, length) \in Seq(Bytes)
         /\ \E M \in SUBSET Rests : /\ Readable(M, Append(old, p))
                                    /\ [bytes |-> Frame(p, length), seen |-> Len(old)] \in M
<1>1. PICK n \in Nat, texts \in {Append(old, p)} : n = Len(old) /\ texts = Append(old, p)
  OBVIOUS
<1>2. Len(texts) = n + 1 /\ texts[n + 1] = p
  BY <1>1
<1>3. PICK end : end = [bytes |-> <<>>, seen |-> n + 1]
  OBVIOUS
<1>4. end \in Rests /\ EndsHere(end, texts)
  BY <1>2, <1>3, EmptySeq DEF Rests, EndsHere
<1>5. PICK blank : blank = [bytes |-> CRLF, seen |-> n + 1]
  OBVIOUS
<1>6. blank \in Rests /\ LineThen(blank, end)
  <2>1. LineBytes(<<>>, <<>>) = CRLF
    BY BlankLine, CRLFType, ConcatEmptySeq, EmptySeq
  <2>2. blank.bytes = LineBytes(<<>>, end.bytes) /\ end.seen = blank.seen
    BY <1>3, <1>5, <2>1
  <2>3. LineThen(blank, end)
    BY <2>2, BlankLine DEF LineThen
  <2>4. blank \in Rests
    BY <1>5, CRLFType DEF Rests
  <2> QED
    BY <2>3, <2>4
<1>7. Frame(p, length) \in Seq(Bytes)
  BY FrameIsMessage
<1>8. PICK first : first = [bytes |-> Frame(p, length), seen |-> n]
  OBVIOUS
<1>9. first \in Rests
  BY <1>7, <1>8 DEF Rests
<1>10. \E q \in {end, blank} : MessageThen(first, q, texts)
  <2>1. \A q \in {end, blank} : q.seen = first.seen + 1 /\ q.seen <= Len(texts) /\ texts[q.seen] = p
    BY <1>2, <1>3, <1>5, <1>8
  <2>2. CASE length = Len(p)
    <3>1. first.bytes = MessageBytes(p, blank.bytes)
      BY <1>5, <1>8, <2>2, FrameIsMessage
    <3>2. MessageThen(first, blank, texts)
      BY <2>1, <3>1, ContentOfText DEF MessageThen
    <3> QED
      BY <3>2
  <2>3. CASE length = Len(p) + 2
    <3>1. first.bytes = MessageBytes(p \o CRLF, end.bytes)
      BY <1>3, <1>8, <2>3, FrameIsMessage
    <3>2. MessageThen(first, end, texts)
      BY <2>1, <3>1, ContentOfText DEF MessageThen
    <3> QED
      BY <3>2
  <2> QED
    BY <2>2, <2>3
<1>11. Readable({first, blank, end}, texts)
  BY <1>4, <1>6, <1>10 DEF Readable
<1>12. {first, blank, end} \in SUBSET Rests
  BY <1>4, <1>6, <1>9
<1> QED
  BY <1>1, <1>7, <1>8, <1>11, <1>12

LEMMA ForeignCanBeRead ==
  ASSUME NEW texts, Len(texts) \in Nat, NEW f, IsForeign(f)
  PROVE  /\ f \in Seq(Bytes)
         /\ \E M \in SUBSET Rests : /\ Readable(M, texts)
                                    /\ [bytes |-> f, seen |-> Len(texts)] \in M
<1>1. PICK end, first : /\ end = [bytes |-> <<>>, seen |-> Len(texts)]
                        /\ first = [bytes |-> f, seen |-> Len(texts)]
  OBVIOUS
<1>2. end \in Rests /\ EndsHere(end, texts)
  BY <1>1, EmptySeq DEF Rests, EndsHere
<1>3. first \in Rests
  BY <1>1, ForeignIsLine DEF Rests
<1>4. LineThen(first, end)
  BY <1>1, ForeignIsLine DEF LineThen
<1>5. Readable({first, end}, texts)
  BY <1>2, <1>4 DEF Readable
<1>6. {first, end} \in SUBSET Rests
  BY <1>2, <1>3
<1> QED
  BY <1>1, <1>5, <1>6, ForeignIsLine

----------------------------------------------------------------------------
(* handleMessage at the start of a line or of a message.                   *)
LEMMA AtLine ==
  ASSUME buffer \in Seq(Bytes), wire \in Seq(Bytes), NEW line \in Seq(Bytes),
         NoEarlierEnd(line), NEW rest \in Seq(Bytes),
         buffer \o wire = LineBytes(line, rest), HasLine
  PROVE  /\ Line = line /\ HeaderLen = Len(line) + 2 /\ HeaderLen <= Len(buffer)
         /\ SubSeq(buffer, HeaderLen + 1, Len(buffer)) \in Seq(Bytes)
         /\ SubSeq(buffer, HeaderLen + 1, Len(buffer)) \o wire = rest
<1>1. PICK h \in Seq(Bytes) : h = line \o CRLF
  BY CRLFType, ConcatProperties
<1>2. Len(h) = Len(line) + 2
  <2>1. Len(line \o CRLF) = Len(line) + Len(CRLF)
    BY CRLFType, Starts
  <2> QED
    BY <1>1, <2>1, CRLFType
<1>3. buffer \o wire = h \o rest
  BY <1>1 DEF LineBytes
<1>4. buffer \o wire = line \o (CRLF \o rest)
  <2>1. Regroups(line, CRLF, rest)
    BY CRLFType, Regroup
  <2> QED
    BY <1>1, <1>3, <2>1 DEF Regroups
<1>5. Line = line /\ HeaderLen = Len(line) + 2 /\ HeaderLen <= Len(buffer)
  BY <1>4, FirstLine
<1>6. HeaderLen = Len(h) /\ Len(h) <= Len(buffer)
  BY <1>2, <1>5
<1>7. SplitsAt(buffer, wire, Len(h), h, rest, Bytes)
  BY <1>3, <1>6, Split
<1> QED
  BY <1>5, <1>6, <1>7 DEF SplitsAt

LEMMA AtMessage ==
  ASSUME buffer \in Seq(Bytes), wire \in Seq(Bytes), NEW body \in Seq(Bytes),
         Len(body) \in 1 .. MaxInt32, NEW rest \in Seq(Bytes),
         buffer \o wire = MessageBytes(body, rest), HasLine
  PROVE  /\ IsLength(Line) /\ BodyLen = Len(body)
         /\ IsWhole =>
              /\ SubSeq(buffer, HeaderLen + 1, HeaderLen + BodyLen) = body
              /\ SubSeq(buffer, HeaderLen + BodyLen + 1, Len(buffer)) \in Seq(Bytes)
              /\ SubSeq(buffer, HeaderLen + BodyLen + 1, Len(buffer)) \o wire = rest
<1>0. Len(body) \in Nat /\ Decimal[Len(body)] \in Seq(Bytes)
  BY DecimalIsBytes
<1>1. PICK k \in Nat, d \in Seq(Bytes) : k = Len(body) /\ d = Decimal[k]
  BY <1>0
<1>2. k \in 1 .. MaxInt32
  BY <1>1
<1>3. IsLength(d) /\ Value(d) = k /\ NoEarlierEnd(d)
  BY <1>1, <1>2, HeadersAreLengths, DigitsHaveNoEnd
<1>4. PICK more \in Seq(Bytes) : more = body \o rest
  BY ConcatProperties
<1>5. buffer \o wire = LineBytes(d, more)
  BY <1>1, <1>4 DEF MessageBytes, LineBytes
<1>6. /\ Line = d /\ HeaderLen = Len(d) + 2 /\ HeaderLen <= Len(buffer)
      /\ SubSeq(buffer, HeaderLen + 1, Len(buffer)) \in Seq(Bytes)
      /\ SubSeq(buffer, HeaderLen + 1, Len(buffer)) \o wire = more
  BY <1>3, <1>5, AtLine
<1>7. PICK l \in Nat, n \in Nat : l = HeaderLen /\ n = Len(buffer) /\ l <= n
  BY <1>6
<1>8. BodyLen = k
  BY <1>3, <1>6 DEF BodyLen
<1>9. ASSUME IsWhole
      PROVE  /\ SubSeq(buffer, l + 1, l + k) = body
             /\ SubSeq(buffer, l + k + 1, n) \in Seq(Bytes)
             /\ SubSeq(buffer, l + k + 1, n) \o wire = rest
  <2>1. l + k <= n
    BY <1>7, <1>8, <1>9 DEF IsWhole
  <2>2. PICK t \in Seq(Bytes) : t = SubSeq(buffer, l + 1, n) /\ t \o wire = body \o rest
    BY <1>4, <1>6, <1>7
  <2>3. Len(t) = n - l
    BY <1>7, <2>2, LastPart
  <2>4. Len(body) <= Len(t)
    BY <1>1, <2>1, <2>3
  <2>5. SplitsAt(t, wire, k, body, rest, Bytes)
    BY <1>1, <2>2, <2>4, Split
  <2>6. PartOfPart(buffer, n, l, k, t)
    BY <1>7, <2>1, <2>2, PartOfLastPart
  <2> QED
    BY <2>3, <2>5, <2>6 DEF SplitsAt, PartOfPart
<1> QED
  BY <1>1, <1>3, <1>6, <1>7, <1>8, <1>9

LEMMA NoLineInNothing ==
  ASSUME buffer \in Seq(Bytes), wire \in Seq(Bytes), buffer \o wire = <<>>
  PROVE  ~ HasLine
<1>1. buffer = <<>>
  BY ConcatEqualIffEmpty
<1>2. Len(buffer) = 0
  BY <1>1, EmptySeq
<1> QED
  BY <1>2 DEF HasLine, LineEnds

LEMMA RestGrows ==
  ASSUME TypeOK, NEW more \in Seq(Bytes), wire' = wire \o more, buffer' = buffer, taken' = taken
  PROVE  Rest' = Shift(Rest, more)
<1>1. Regroups(buffer, wire, more)
  BY Regroup DEF TypeOK
<1>2. buffer' \o wire' = (buffer \o wire) \o more
  BY <1>1 DEF Regroups
<1> QED
  BY <1>2 DEF Rest, Shift

----------------------------------------------------------------------------
(* The invariant, action by action.                                        *)
LEMMA InitInv == Init => Inv
<1> SUFFICES ASSUME Init PROVE Inv
  OBVIOUS
<1>1. TypeOK
  BY FramingAssumption, EmptySeq DEF Init, TypeOK
<1>2. Rest = [bytes |-> <<>>, seen |-> 0] /\ Len(sent) = 0
  BY EmptySeq, ConcatEmptySeq DEF Init, Rest
<1>3. Rest \in Rests /\ EndsHere(Rest, sent)
  BY <1>2, EmptySeq DEF Rests, EndsHere
<1>4. {Rest} \in SUBSET Rests /\ Readable({Rest}, sent)
  BY <1>3 DEF Readable
<1> QED
  BY <1>1, <1>4 DEF Inv

LEMMA SendStep ==
  ASSUME Inv, NEW p \in Payloads, Send(p)
  PROVE  Inv'
<1>1. TypeOK
  BY DEF Inv
<1>2. IsText(p)
  BY FramingAssumption
<1>3. sent \in Seq(Payloads) /\ sent' = Append(sent, p) /\ taken' = taken /\ buffer' = buffer
  BY <1>1 DEF TypeOK, Send
<1>4. PICK length \in {Len(p), Len(p) + 2} : wire' = wire \o Frame(p, length)
  BY DEF Send
<1>5. /\ Len(sent) \in Nat /\ Len(sent') = Len(sent) + 1 /\ sent' \in Seq(Payloads)
      /\ \A i \in 1 .. Len(sent) : sent'[i] = sent[i]
      /\ sent'[Len(sent) + 1] = p
  BY <1>3, AppendProperties
<1>6. PICK more \in Seq(Bytes), M \in SUBSET Rests :
        /\ more = Frame(p, length)
        /\ Readable(M, sent') /\ [bytes |-> more, seen |-> Len(sent)] \in M
  BY <1>2, <1>3, <1>5, MessageCanBeRead
<1>7. PICK R \in SUBSET Rests : Rest \in R /\ Readable(R, sent)
  BY DEF Inv
<1>8. PICK Q \in SUBSET Rests : Readable(Q, sent') /\ \A r \in R : Shift(r, more) \in Q
  <2>1. Len(sent) <= Len(sent') /\ Len(sent') \in Nat
    BY <1>5
  <2> QED
    BY <1>5, <1>6, <1>7, <2>1, ReadOn
<1>9. Rest' = Shift(Rest, more)
  BY <1>1, <1>3, <1>4, <1>6, RestGrows
<1>10. TypeOK'
  <2>1. wire' \in Seq(Bytes)
    BY <1>1, <1>4, <1>6, ConcatProperties DEF TypeOK
  <2>2. Len(taken) <= Len(sent')
    BY <1>1, <1>5, LenProperties DEF TypeOK
  <2> QED
    BY <1>1, <1>3, <1>5, <2>1, <2>2 DEF TypeOK, Send
<1> QED
  BY <1>7, <1>8, <1>9, <1>10 DEF Inv

LEMMA SendForeignStep ==
  ASSUME Inv, NEW f \in Foreign, SendForeign(f)
  PROVE  Inv'
<1>1. TypeOK
  BY DEF Inv
<1>2. IsForeign(f)
  BY FramingAssumption
<1>3. sent' = sent /\ taken' = taken /\ buffer' = buffer /\ wire' = wire \o f
  BY DEF SendForeign
<1>4. Len(sent) \in Nat
  BY <1>1 DEF TypeOK
<1>5. PICK more \in Seq(Bytes), M \in SUBSET Rests :
        more = f /\ Readable(M, sent) /\ [bytes |-> more, seen |-> Len(sent)] \in M
  BY <1>2, <1>4, ForeignCanBeRead
<1>6. PICK R \in SUBSET Rests : Rest \in R /\ Readable(R, sent)
  BY DEF Inv
<1>7. PICK Q \in SUBSET Rests : Readable(Q, sent) /\ \A r \in R : Shift(r, more) \in Q
  <2>1. Len(sent) <= Len(sent) /\ \A i \in 1 .. Len(sent) : sent[i] = sent[i]
    BY <1>4
  <2> QED
    BY <1>4, <1>5, <1>6, <2>1, ReadOn
<1>8. Rest' = Shift(Rest, more)
  BY <1>1, <1>3, <1>5, RestGrows
<1>9. TypeOK'
  <2>1. wire' \in Seq(Bytes)
    BY <1>1, <1>3, <1>5, ConcatProperties DEF TypeOK
  <2>2. lines' \in 0 .. MaxForeign
    BY <1>1, FramingAssumption DEF TypeOK, SendForeign
  <2> QED
    BY <1>1, <1>3, <2>1, <2>2 DEF TypeOK, SendForeign
<1> QED
  BY <1>3, <1>6, <1>7, <1>8, <1>9 DEF Inv

(* What is to be read is the same however much of it has arrived. *)
LEMMA SameRest ==
  ASSUME Inv, TypeOK', Rest' = Rest, sent' = sent
  PROVE  Inv'
BY DEF Inv

LEMMA ArriveStep ==
  ASSUME Inv, Arrive
  PROVE  Inv'
<1>1. TypeOK
  BY DEF Inv
<1>2. PICK b \in Seq(Bytes), w \in Seq(Bytes) : b = buffer /\ w = wire
  BY <1>1 DEF TypeOK
<1>3. PICK n \in 1 .. Len(wire) :
        /\ buffer' = buffer \o SubSeq(wire, 1, n)
        /\ wire' = SubSeq(wire, n + 1, Len(wire))
  BY DEF Arrive
<1>4. n \in 0 .. Len(w)
  BY <1>2
<1>5. PICK s \in Seq(Bytes), t \in Seq(Bytes) :
        s = SubSeq(w, 1, n) /\ t = SubSeq(w, n + 1, Len(w))
  BY <1>4, CutAt
<1>6. w = s \o t
  <2>1. w = SubSeq(w, 1, n) \o SubSeq(w, n + 1, Len(w))
    BY <1>4, CutAt
  <2> QED
    BY <1>5, <2>1
<1>7. buffer' = b \o s /\ wire' = t
  BY <1>2, <1>3, <1>5
<1>8. b \o s \in Seq(Bytes)
  BY ConcatProperties
<1>9. Regroups(b, s, t)
  BY Regroup
<1>10. buffer' \o wire' = buffer \o wire
  BY <1>2, <1>6, <1>7, <1>9 DEF Regroups
<1>11. Rest' = Rest /\ sent' = sent
  BY <1>10 DEF Rest, Arrive
<1>12. TypeOK'
  BY <1>1, <1>7, <1>8 DEF TypeOK, Arrive
<1> QED
  BY <1>11, <1>12, SameRest

LEMMA QuietStep ==
  ASSUME Inv, UNCHANGED <<side, sent, lines, wire, buffer, taken>>,
         loop' \in {"running", "short", "threw", "blank"}
  PROVE  Inv'
<1>1. TypeOK'
  BY DEF Inv, TypeOK
<1>2. Rest' = Rest /\ sent' = sent
  BY DEF Rest
<1> QED
  BY <1>1, <1>2, SameRest

(* A line that is no length is removed. *)
LEMMA LineStep ==
  ASSUME Inv, HasLine, ~ IsLength(Line), Retrieve(HeaderLen),
         UNCHANGED <<side, sent, lines, wire, taken>>,
         loop' \in {"running", "short", "threw", "blank"}
  PROVE  Inv'
<1>1. TypeOK
  BY DEF Inv
<1>2. buffer \in Seq(Bytes) /\ wire \in Seq(Bytes)
  BY <1>1 DEF TypeOK
<1>3. PICK R \in SUBSET Rests : Rest \in R /\ Readable(R, sent)
  BY DEF Inv
<1>4. ~ EndsHere(Rest, sent)
  BY <1>2, NoLineInNothing DEF EndsHere, Rest
<1>5. \A q \in R : ~ MessageThen(Rest, q, sent)
  <2> SUFFICES ASSUME NEW q \in R, MessageThen(Rest, q, sent) PROVE FALSE
    OBVIOUS
  <2>1. PICK body : IsBody(body, sent[q.seen]) /\ Rest.bytes = MessageBytes(body, q.bytes)
    BY DEF MessageThen
  <2>2. buffer \o wire = MessageBytes(body, q.bytes) /\ q.bytes \in Seq(Bytes)
    BY <2>1 DEF Rest, Rests
  <2> QED
    BY <1>2, <2>1, <2>2, AtMessage DEF IsBody
<1>6. PICK q \in R, line \in Seq(Bytes) : q.seen = Rest.seen /\ IsLine(line) /\ Rest.bytes = LineBytes(line, q.bytes)
  BY <1>3, <1>4, <1>5 DEF Readable, LineThen, IsLine
<1>7. buffer \o wire = LineBytes(line, q.bytes) /\ q.bytes \in Seq(Bytes) /\ q.seen = Len(taken)
  BY <1>6 DEF Rest, Rests
<1>8. buffer' \in Seq(Bytes) /\ buffer' \o wire = q.bytes
  BY <1>2, <1>6, <1>7, AtLine DEF IsLine, Retrieve
<1>9. Rest' = q
  <2>1. q = [bytes |-> q.bytes, seen |-> q.seen]
    BY DEF Rests
  <2> QED
    BY <1>7, <1>8, <2>1 DEF Rest
<1>10. TypeOK'
  BY <1>1, <1>8 DEF TypeOK
<1> QED
  BY <1>3, <1>6, <1>9, <1>10 DEF Inv

(* A message is handed to its handler: the one that was sent next. *)
LEMMA TakeStep ==
  ASSUME Inv, Take
  PROVE  /\ Inv' /\ Len(taken) < Len(sent)
         /\ \E body \in Seq(Bytes) : /\ taken' = Append(taken, body)
                                     /\ Content(body) = sent[Len(taken) + 1]
<1>1. TypeOK
  BY DEF Inv
<1>2. buffer \in Seq(Bytes) /\ wire \in Seq(Bytes) /\ HasLine /\ IsLength(Line) /\ IsWhole
  BY <1>1 DEF TypeOK, Take
<1>3. PICK R \in SUBSET Rests : Rest \in R /\ Readable(R, sent)
  BY DEF Inv
<1>4. ~ EndsHere(Rest, sent)
  BY <1>2, NoLineInNothing DEF EndsHere, Rest
<1>5. \A q \in R : ~ LineThen(Rest, q)
  <2> SUFFICES ASSUME NEW q \in R, LineThen(Rest, q) PROVE FALSE
    OBVIOUS
  <2>1. PICK line : IsLine(line) /\ Rest.bytes = LineBytes(line, q.bytes)
    BY DEF LineThen
  <2>2. buffer \o wire = LineBytes(line, q.bytes) /\ q.bytes \in Seq(Bytes)
    BY <2>1 DEF Rest, Rests
  <2> QED
    BY <1>2, <2>1, <2>2, AtLine DEF IsLine
<1>6. PICK q \in R : MessageThen(Rest, q, sent)
  BY <1>3, <1>4, <1>5 DEF Readable
<1>7. PICK body : IsBody(body, sent[q.seen]) /\ Rest.bytes = MessageBytes(body, q.bytes)
  BY <1>6 DEF MessageThen
<1>8. buffer \o wire = MessageBytes(body, q.bytes) /\ q.bytes \in Seq(Bytes)
  BY <1>7 DEF Rest, Rests
<1>9. /\ SubSeq(buffer, HeaderLen + 1, HeaderLen + BodyLen) = body
      /\ SubSeq(buffer, HeaderLen + BodyLen + 1, Len(buffer)) \in Seq(Bytes)
      /\ SubSeq(buffer, HeaderLen + BodyLen + 1, Len(buffer)) \o wire = q.bytes
  BY <1>2, <1>7, <1>8, AtMessage DEF IsBody
<1>10. /\ taken' = Append(taken, body) /\ buffer' \in Seq(Bytes)
       /\ buffer' \o wire' = q.bytes /\ sent' = sent
  BY <1>9 DEF Take, Retrieve
<1>11. q.seen = Len(taken) + 1 /\ q.seen <= Len(sent)
  BY <1>6 DEF MessageThen, Rest
<1>12. body \in Seq(Bytes) /\ Content(body) = sent[q.seen]
  BY <1>7 DEF IsBody
<1>13. PICK n \in Nat, m \in Nat : n = Len(taken) /\ m = Len(sent)
  BY <1>1 DEF TypeOK
<1>14. taken' \in Seq(Seq(Bytes)) /\ Len(taken') = n + 1
  BY <1>1, <1>10, <1>12, <1>13, AppendProperties DEF TypeOK
<1>15. Rest' = q
  <2>1. q = [bytes |-> q.bytes, seen |-> q.seen]
    BY DEF Rests
  <2> QED
    BY <1>10, <1>11, <1>13, <1>14, <2>1 DEF Rest
<1>16. TypeOK'
  <2>1. Len(taken') <= Len(sent')
    BY <1>10, <1>11, <1>13, <1>14
  <2> QED
    BY <1>1, <1>10, <1>14, <2>1 DEF TypeOK, Take
<1>17. Inv'
  BY <1>3, <1>6, <1>10, <1>15, <1>16 DEF Inv
<1>18. Len(taken) < Len(sent)
  BY <1>11, <1>13
<1> QED
  BY <1>10, <1>11, <1>12, <1>17, <1>18
LEMMA NextInv == Inv /\ [Next]_vars => Inv'
<1> SUFFICES ASSUME Inv, [Next]_vars PROVE Inv'
  OBVIOUS
<1>1. ASSUME NEW p \in Payloads, Send(p) PROVE Inv'
  BY <1>1, SendStep
<1>2. ASSUME NEW f \in Foreign, SendForeign(f) PROVE Inv'
  BY <1>2, SendForeignStep
<1>3. CASE Arrive
  BY <1>3, ArriveStep
<1>4. CASE NoLine
  BY <1>4, QuietStep DEF NoLine
<1>5. CASE SkipBlankLine
  <2>1. Line = <<>> /\ HeaderLen = 2 /\ ~ IsLength(Line)
    BY <1>5, EmptySeq DEF SkipBlankLine, IsBlank, HeaderLen, IsLength
  <2>2. /\ HasLine /\ Retrieve(2) /\ loop' \in {"running", "short", "threw", "blank"}
        /\ UNCHANGED <<side, sent, lines, wire, taken>>
    BY <1>5 DEF SkipBlankLine
  <2>3. Retrieve(HeaderLen)
    BY <2>1, <2>2
  <2> QED
    BY <2>1, <2>2, <2>3, LineStep
<1>6. CASE BadLengthKept
  BY <1>6, QuietStep DEF BadLengthKept
<1>7. CASE BadLengthRemoved
  BY <1>7, LineStep DEF BadLengthRemoved
<1>8. CASE TooLong
  BY <1>8, QuietStep DEF TooLong
<1>9. CASE Incomplete
  BY <1>9, QuietStep DEF Incomplete
<1>10. CASE Take
  BY <1>10, TakeStep
<1>11. CASE UNCHANGED vars
  <2>1. loop' \in {"running", "short", "threw", "blank"}
    BY <1>11 DEF vars, Inv, TypeOK
  <2> QED
    BY <1>11, <2>1, QuietStep DEF vars
<1> QED
  BY <1>1, <1>2, <1>3, <1>4, <1>5, <1>6, <1>7, <1>8, <1>9, <1>10, <1>11 DEF Next, Turn

LEMMA InvHolds == Spec => []Inv
<1>1. Init => Inv
  BY InitInv
<1>2. Inv /\ [Next]_vars => Inv'
  BY NextInv
<1> QED
  BY <1>1, <1>2, PTL DEF Spec

(* The buffer, the wire and what was taken out of them are always strings  *)
(* of bytes, and handleMessage never takes out more messages than were     *)
(* sent, whatever texts and foreign lines stand on the wire.               *)
THEOREM TypeCorrect == Spec => []TypeOK
<1>1. Inv => TypeOK
  BY DEF Inv
<1> QED
  BY <1>1, InvHolds, PTL

----------------------------------------------------------------------------
(* The channel of whole messages.                                          *)
LEMMA ReceivedMessages ==
  ASSUME NEW bodies \in Seq(Seq(Bytes)), NEW body \in Seq(Bytes)
  PROVE  [i \in DOMAIN Append(bodies, body) |-> Content(Append(bodies, body)[i])]
         = Append([i \in DOMAIN bodies |-> Content(bodies[i])], Content(body))
<1>1. PICK n \in Nat, more \in {Append(bodies, body)} : n = Len(bodies) /\ more = Append(bodies, body)
  BY LenProperties
<1>2. /\ DOMAIN bodies = 1 .. n /\ DOMAIN more = 1 .. n + 1
      /\ \A i \in 1 .. n : more[i] = bodies[i]
      /\ more[n + 1] = body
  BY <1>1, AppendProperties, LenProperties
<1>3. PICK c : c = [i \in 1 .. n |-> Content(bodies[i])]
  OBVIOUS
<1> DEFINE T == {Content(b) : b \in Seq(Bytes)}
<1>4. c \in [1 .. n -> T] /\ Content(body) \in T
  BY <1>1, <1>2, <1>3
<1> HIDE DEF T
<1>5. c \in Seq(T) /\ Len(c) = n
  BY <1>4, SeqDef, LenProperties
<1>6. PICK d \in Seq(T) : d = Append(c, Content(body))
  BY <1>4, <1>5, AppendProperties
<1>7. Len(d) = n + 1 /\ d[n + 1] = Content(body) /\ \A i \in 1 .. n : d[i] = c[i]
  <2>1. Content(body) \in T
    BY <1>4
  <2>2. PICK e \in T : e = Content(body)
    BY <2>1
  <2>3. Len(d) = n + 1 /\ d[n + 1] = e /\ \A i \in 1 .. n : d[i] = c[i]
    BY <1>5, <1>6, <2>2
  <2> QED
    BY <2>2, <2>3
<1>8. \A i \in 1 .. n + 1 : Content(more[i]) = d[i]
  BY <1>2, <1>3, <1>7
<1>9. d \in [1 .. n + 1 -> T]
  BY <1>7, LenProperties
<1>10. d = [i \in 1 .. n + 1 |-> Content(more[i])]
  BY <1>8, <1>9
<1> QED
  BY <1>1, <1>2, <1>3, <1>6, <1>10

LEMMA NothingReceived == Init => Channel!Init
<1> SUFFICES ASSUME Init PROVE Received = <<>>
  BY DEF Init, Channel!Init
<1>1. taken = <<>> /\ DOMAIN taken = {}
  BY DEF Init
<1> QED
  BY <1>1 DEF Received

LEMMA NextChannel == Inv /\ [Next]_vars => [Channel!Next]_<<sent, Received>>
<1> SUFFICES ASSUME Inv, [Next]_vars PROVE [Channel!Next]_<<sent, Received>>
  OBVIOUS
<1>1. ASSUME NEW p \in Payloads, Send(p) PROVE Channel!Next
  <2>1. Channel!Send(p)
    BY <1>1 DEF Send, Channel!Send, Received
  <2> QED
    BY <2>1 DEF Channel!Next
<1>2. CASE Take
  <2>1. PICK body \in Seq(Bytes) : /\ taken' = Append(taken, body)
                                   /\ Content(body) = sent[Len(taken) + 1]
    BY <1>2, TakeStep
  <2>2. Len(taken) < Len(sent)
    BY <1>2, TakeStep
  <2>3. taken \in Seq(Seq(Bytes))
    BY DEF Inv, TypeOK
  <2>4. Len(Received) = Len(taken)
    BY <2>3 DEF Received
  <2>5. Received' = Append(Received, Content(body))
    BY <2>1, <2>3, ReceivedMessages DEF Received
  <2>6. Channel!Receive
    BY <1>2, <2>1, <2>2, <2>4, <2>5 DEF Take, Channel!Receive
  <2> QED
    BY <2>6 DEF Channel!Next
<1>3. ASSUME UNCHANGED <<sent, taken>> PROVE UNCHANGED <<sent, Received>>
  BY <1>3 DEF Received
<1>4. ASSUME NEW f \in Foreign, SendForeign(f) PROVE UNCHANGED <<sent, taken>>
  BY <1>4 DEF SendForeign
<1>5. CASE Arrive \/ NoLine \/ SkipBlankLine \/ BadLengthKept \/ BadLengthRemoved
           \/ TooLong \/ Incomplete \/ UNCHANGED vars
  <2>1. UNCHANGED <<sent, taken>>
    BY <1>5 DEF Arrive, NoLine, SkipBlankLine, BadLengthKept, BadLengthRemoved, TooLong,
                Incomplete, vars
  <2> QED
    BY <1>3, <2>1
<1> QED
  BY <1>1, <1>2, <1>3, <1>4, <1>5 DEF Next, Turn

(* However the network cuts the bytes, whatever ends of line stand inside  *)
(* the texts and whatever foreign lines stand between them, both           *)
(* handleMessages hand over exactly the messages that were sent, each once *)
(* and in order: the byte stream implements a channel of whole messages.   *)
THEOREM FramingImplementsChannel == Spec => TakesWhatWasSent
<1>1. Init => Channel!Init
  BY NothingReceived
<1>2. Inv /\ [Next]_vars => [Channel!Next]_<<sent, Received>>
  BY NextChannel
<1>3. Spec => Channel!Spec
  BY <1>1, <1>2, InvHolds, PTL DEF Spec, Channel!Spec
<1> QED
  BY <1>3 DEF TakesWhatWasSent
================================================================================
