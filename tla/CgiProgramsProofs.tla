--------------------------- MODULE CgiProgramsProofs ---------------------------
(***************************************************************************)
(* Proofs about CgiPrograms: its types, what the registration stores for   *)
(* any query, what the calculator computes for any two numbers and any     *)
(* width of int, and when the page tells the truth.                        *)
(***************************************************************************)
EXTENDS CgiPrograms, LeastNumbers, FiniteSetTheorems, SequenceTheorems

IntRange == -(IntMax + 1)..IntMax

-----------------------------------------------------------------------------
(* What the operators of SequencesExt that are used here return. *)

\* The smallest number of a set.
LEMMA MinIsLeast ==
    ASSUME NEW I \in SUBSET Nat, I # {}
    PROVE  Min(I) \in I /\ \A m \in I : Min(I) <= m
<1>1. \E i \in I : \A m \in I : i <= m
  BY LeastNumber
<1> QED
  BY <1>1 DEF Min

\* CutString cuts at the first separator, if there is one.
LEMMA CutStringIs ==
    ASSUME NEW S, NEW in \in Seq(S), NEW sep
    PROVE  /\ At(in, sep) = {} => CutString(in, sep) = <<<<>>, <<>>>>
           /\ At(in, sep) # {} =>
                 \E p \in At(in, sep) :
                    /\ \A m \in At(in, sep) : p <= m
                    /\ CutString(in, sep) = <<SubSeq(in, 1, p - 1), SubSeq(in, p + 1, Len(in))>>
<1> DEFINE I == {i \in 1..Len(in) : in[i] = sep}
<1>1. Len(in) \in Nat /\ I = At(in, sep) /\ I \in SUBSET Nat
  BY LenProperties DEF At
<1>2. CutString(in, sep) = CutAt(in, IF I # {} THEN Min(I) ELSE 0)
  BY DEF CutString, SelectInSeq
<1>3. I = {} => CutString(in, sep) = <<<<>>, <<>>>>
  BY <1>2 DEF CutAt
<1>4. I # {} => /\ Min(I) \in I /\ \A m \in I : Min(I) <= m
                /\ Min(I) # 0
                /\ CutString(in, sep) = CutAt(in, Min(I))
  <2> SUFFICES ASSUME I # {}
               PROVE  /\ Min(I) \in I /\ \A m \in I : Min(I) <= m
                      /\ Min(I) # 0
                      /\ CutString(in, sep) = CutAt(in, Min(I))
    OBVIOUS
  <2>1. Min(I) \in I /\ \A m \in I : Min(I) <= m
    <3> HIDE DEF I
    <3> QED
      BY <1>1, MinIsLeast
  <2>2. Min(I) # 0
    BY <1>1, <2>1
  <2> QED
    BY <1>2, <2>1, <2>2
<1> HIDE DEF I
<1> QED
  BY <1>1, <1>3, <1>4 DEF CutAt

LEMMA DigitOfType == \A c : DigitOf(c) \in Int
<1> TAKE c
<1> DEFINE I == {i \in 1..Len(Digits) : Digits[i] = c}
<1>1. Len(Digits) = 10
  BY DEF Digits
<1>2. I \in SUBSET Nat
  BY <1>1
<1>3. DigitOf(c) = (IF I # {} THEN Min(I) ELSE 0) - 1
  BY DEF DigitOf, SelectInSeq
<1> HIDE DEF I
<1>4. I # {} => Min(I) \in Nat
  BY <1>2, MinIsLeast
<1> QED
  BY <1>3, <1>4

-----------------------------------------------------------------------------
(* The calculator's numbers. *)

LEMMA Remainder ==
    ASSUME NEW n \in Int, NEW k \in Nat \ {0}
    PROVE  /\ n % k \in Int /\ 0 <= n % k /\ n % k < k
           /\ 0 <= n /\ n < k => n % k = n
  OBVIOUS

LEMMA ToIntRange ==
    ASSUME NEW n \in Int
    PROVE  ToInt(n) \in IntRange /\ (n \in IntRange => ToInt(n) = n)
<1> DEFINE m == n + IntMax + 1
           k == 2 * IntMax + 2
<1>1. IntMax \in Nat /\ m \in Int /\ k \in Nat \ {0}
  BY CgiProgramsAssumption
<1>2. n \in IntRange => 0 <= m /\ m < k
  BY <1>1 DEF IntRange
<1>3. ToInt(n) = (m % k) - (IntMax + 1)
  BY DEF ToInt
<1>4. m - (IntMax + 1) = n /\ k = 2 * (IntMax + 1)
  BY <1>1
<1> HIDE DEF m, k
<1> DEFINE r == m % k
<1>5. r \in Int /\ 0 <= r /\ r < k /\ (0 <= m /\ m < k => r = m)
  BY <1>1, Remainder
<1> HIDE DEF r
<1>6. ToInt(n) = r - (IntMax + 1)
  BY <1>3 DEF r
<1> QED
  BY <1>1, <1>2, <1>4, <1>5, <1>6 DEF IntRange

\* The recursive function of Number exists ...
LEMMA NumberExists ==
    ASSUME NEW digits, NEW l \in Nat
    PROVE  \E f : f = [n \in 0..l |->
                        IF n = 0 THEN 0 ELSE 10 * f[n - 1] + DigitOf(digits[n])]
<1> DEFINE Some(m) == \E f : f = [n \in 0..m |->
                        IF n = 0 THEN 0 ELSE 10 * f[n - 1] + DigitOf(digits[n])]
           S == {m \in Nat : ~Some(m)}
<1>1. Some(0)
  <2> DEFINE g == [n \in 0..0 |-> 0]
  <2>1. g = [n \in 0..0 |-> IF n = 0 THEN 0 ELSE 10 * g[n - 1] + DigitOf(digits[n])]
    OBVIOUS
  <2> QED
    BY <2>1
<1>2. ASSUME NEW m \in Nat, Some(m)
      PROVE  Some(m + 1)
  <2>1. PICK f : f = [n \in 0..m |->
                       IF n = 0 THEN 0 ELSE 10 * f[n - 1] + DigitOf(digits[n])]
    BY <1>2
  <2> DEFINE g == [n \in 0..(m + 1) |->
                     IF n = m + 1 THEN 10 * f[m] + DigitOf(digits[n]) ELSE f[n]]
  <2>2. ASSUME NEW n \in 0..(m + 1)
        PROVE  g[n] = IF n = 0 THEN 0 ELSE 10 * g[n - 1] + DigitOf(digits[n])
    <3>1. CASE n = m + 1
      <4>1. n - 1 = m /\ m \in 0..(m + 1) /\ m # m + 1 /\ n # 0
        BY <3>1
      <4>2. g[n] = 10 * f[m] + DigitOf(digits[n]) /\ g[n - 1] = f[m]
        BY <3>1, <4>1
      <4> QED
        BY <4>1, <4>2
    <3>2. CASE n # m + 1 /\ n # 0
      <4>1. n \in 0..m /\ n - 1 \in 0..(m + 1) /\ n - 1 # m + 1
        BY <3>2
      <4>2. g[n] = f[n] /\ g[n - 1] = f[n - 1]
        BY <3>2, <4>1
      <4>3. f[n] = 10 * f[n - 1] + DigitOf(digits[n])
        BY <2>1, <3>2, <4>1
      <4> QED
        BY <3>2, <4>2, <4>3
    <3>3. CASE n = 0
      <4>1. g[n] = f[n] /\ f[n] = 0
        BY <2>1, <3>3
      <4> QED
        BY <3>3, <4>1
    <3> QED
      BY <3>1, <3>2, <3>3
  <2>3. g = [n \in 0..(m + 1) |-> IF n = 0 THEN 0 ELSE 10 * g[n - 1] + DigitOf(digits[n])]
    <3> HIDE DEF g
    <3>1. g = [n \in 0..(m + 1) |-> g[n]]
      BY DEF g
    <3> QED
      BY <2>2, <3>1
  <2> QED
    BY <2>3
<1> HIDE DEF Some
<1>3. S = {}
  <2>1. SUFFICES ASSUME S # {} PROVE FALSE
    OBVIOUS
  <2>2. PICK m \in S : \A k \in S : m <= k
    BY <2>1, LeastNumber
  <2>3. m # 0
    BY <1>1
  <2>4. m - 1 \in Nat /\ ~(m <= m - 1) /\ (m - 1) + 1 = m
    BY <2>3
  <2>5. Some(m - 1)
    BY <2>2, <2>4
  <2> QED
    BY <1>2, <2>4, <2>5
<1>4. Some(l)
  BY <1>3
<1> QED
  BY <1>4 DEF Some

\* ... and is a number.
LEMMA NumberType ==
    ASSUME NEW digits, Len(digits) \in Nat
    PROVE  Number(digits)[Len(digits)] \in Int
<1> DEFINE f == Number(digits)
           S == {n \in 0..Len(digits) : f[n] \notin Int}
<1>1. f = [n \in 0..Len(digits) |->
             IF n = 0 THEN 0 ELSE 10 * f[n - 1] + DigitOf(digits[n])]
  BY NumberExists, Zenon DEF Number
<1> HIDE DEF f
<1>2. f[0] = 0 /\ \A n \in 1..Len(digits) : f[n] = 10 * f[n - 1] + DigitOf(digits[n])
  BY <1>1
<1>3. S = {}
  <2>1. SUFFICES ASSUME S # {} PROVE FALSE
    OBVIOUS
  <2>2. S \in SUBSET Nat
    OBVIOUS
  <2>3. PICK m \in S : \A k \in S : m <= k
    <3> HIDE DEF S
    <3> QED
      BY <2>1, <2>2, LeastNumber
  <2>4. m # 0
    BY <1>2
  <2>5. m \in 1..Len(digits) /\ m - 1 \in 0..Len(digits) /\ ~(m <= m - 1)
    BY <2>4
  <2>6. f[m - 1] \in Int
    BY <2>3, <2>5
  <2>7. f[m] \in Int
    BY <1>2, <2>5, <2>6, DigitOfType
  <2> QED
    BY <2>7
<1> QED
  BY <1>3 DEF f

LEMMA SubSeqType ==
    ASSUME NEW S, NEW s \in Seq(S), NEW a \in Nat \ {0}, NEW b \in Nat, b <= Len(s)
    PROVE  /\ SubSeq(s, a, b) \in Seq(S)
           /\ Len(SubSeq(s, a, b)) = IF a <= b THEN b - a + 1 ELSE 0
           /\ \A i \in 1..(b - a + 1) : SubSeq(s, a, b)[i] = s[a + i - 1]
<1>1. Len(s) \in Nat
  BY LenProperties
<1>2. \A i \in a..b : i \in 1..Len(s)
  BY <1>1
<1>3. \A i \in a..b : s[i] \in S
  BY <1>2, ElementOfSeq
<1> QED
  BY <1>3, SubSeqProperties

LEMMA atoiType ==
    ASSUME NEW S, NEW text \in Seq(S)
    PROVE  atoi(text) \in IntRange
<1> DEFINE J == {i \in 1..Len(text) : text[i] # " "}
           first == IF J # {} THEN Min(J) ELSE 0
           sign == IF first = 0 THEN "" ELSE text[first]
           from == first + IF sign \in {"-", "+", ""} THEN 1 ELSE 0
           number == SubSeq(text, from, Len(text))
           I == {i \in 1..Len(number) : DigitOf(number[i]) < 0}
           end == IF I # {} THEN Min(I) ELSE 0
           digits == IF end = 0 THEN number ELSE SubSeq(number, 1, end - 1)
           n == Number(digits)[Len(digits)]
<1>1. number \in Seq(S) /\ Len(number) \in Nat
  <2>1. Len(text) \in Nat
    BY LenProperties
  <2>2. J \in SUBSET Nat
    <3>1. J \in SUBSET (1..Len(text))
      OBVIOUS
    <3> HIDE DEF J
    <3> QED
      BY <2>1, <3>1
  <2> HIDE DEF J
  <2>3. first \in Nat
    BY <2>2, MinIsLeast
  <2> DEFINE step == IF sign \in {"-", "+", ""} THEN 1 ELSE 0
  <2>4. step \in {0, 1} /\ (first = 0 => step = 1)
    <3> HIDE DEF first
    <3> QED
      OBVIOUS
  <2>5. from = first + step
    OBVIOUS
  <2> HIDE DEF first, step
  <2>6. first + step \in Nat \ {0}
    BY <2>3, <2>4
  <2>7. from \in Nat \ {0}
    BY <2>5, <2>6
  <2> HIDE DEF from
  <2>8. Len(text) <= Len(text)
    BY <2>1
  <2>9. number \in Seq(S)
    BY <2>1, <2>7, <2>8, SubSeqType
  <2> HIDE DEF number
  <2> QED
    BY <2>9, LenProperties
<1>2. atoi(text) = ToInt(IF sign = "-" THEN -n ELSE n)
  BY DEF atoi, SelectInSeq
<1> HIDE DEF number
<1>3. end \in 0..Len(number)
  <2> DEFINE l == Len(number)
  <2>1. l \in Nat
    BY <1>1
  <2>2. I \in SUBSET (1..l)
    OBVIOUS
  <2> HIDE DEF I, l
  <2>3. I \in SUBSET Nat /\ \A i \in I : i \in 0..l
    BY <2>1, <2>2
  <2>4. I # {} => Min(I) \in 0..l
    BY <2>3, MinIsLeast
  <2>5. 0 \in 0..l
    BY <2>1
  <2>6. end \in 0..l
    BY <2>4, <2>5
  <2> QED
    BY <2>6 DEF l
<1> HIDE DEF end
<1>4. Len(digits) \in Nat
  <2>1. end # 0 => SubSeq(number, 1, end - 1) \in Seq(S)
    <3>1. \A i \in 1..(end - 1) : number[i] \in S
      BY <1>1, <1>3, ElementOfSeq
    <3> QED
      BY <1>1, <1>3, <3>1, SubSeqProperties
  <2>2. digits \in Seq(S)
    BY <1>1, <2>1
  <2> QED
    BY <2>2, LenProperties
<1> HIDE DEF digits
<1>5. n \in Int
  BY <1>4, NumberType
<1> HIDE DEF n, sign
<1>6. (IF sign = "-" THEN -n ELSE n) \in Int
  BY <1>5
<1> QED
  BY <1>2, <1>6, ToIntRange

-----------------------------------------------------------------------------
(* The calculator's division. *)

LEMMA DivisionOfNat ==
    ASSUME NEW a \in Nat, NEW b \in Nat \ {0}
    PROVE  /\ a \div b \in Nat /\ a % b \in Nat /\ a % b < b
           /\ a = b * (a \div b) + (a % b)
           /\ a \div b <= a
           /\ b # 1 => 2 * (a \div b) <= a
<1> DEFINE d == a \div b
           r == a % b
<1>1. d \in Int /\ r \in Nat /\ r < b /\ a = b * d + r
  OBVIOUS
<1>2. d \in Nat
  <2> HIDE DEF d, r
  <2> SUFFICES ASSUME d <= -1 PROVE FALSE
    BY <1>1
  <2>1. b * d <= b * (-1)
    BY <1>1
  <2> QED
    BY <1>1, <2>1
<1> HIDE DEF d, r
<1>3. 1 * d <= b * d
  BY <1>2
<1>4. b # 1 => 2 * d <= b * d
  <2> SUFFICES ASSUME b # 1 PROVE 2 * d <= b * d
    OBVIOUS
  <2>1. 2 <= b
    OBVIOUS
  <2> QED
    BY <1>2, <2>1
<1>5. b * d <= a
  <2>1. b * d \in Int
    BY <1>1
  <2> QED
    BY <1>1, <2>1
<1>6. d <= a /\ (b # 1 => 2 * d <= a)
  <2> DEFINE p == b * d
  <2>1. p \in Int
    BY <1>1
  <2> HIDE DEF p
  <2>2. d <= p /\ p <= a /\ (b # 1 => 2 * d <= p)
    BY <1>2, <1>3, <1>4, <1>5 DEF p
  <2> QED
    BY <1>2, <2>1, <2>2
<1> QED
  BY <1>1, <1>2, <1>6 DEF d, r

LEMMA AbsType ==
    ASSUME NEW x \in Int
    PROVE  /\ Abs(x) \in Nat /\ (x # 0 => Abs(x) # 0)
           /\ (x < 0 => x = -Abs(x)) /\ (~(x < 0) => x = Abs(x))
  BY DEF Abs

\* Unless the processor traps, it computes the quotient, which is an int.
LEMMA DivideIsQuotient ==
    ASSUME NEW x \in IntRange, NEW y \in IntRange, ~Traps(x, y)
    PROVE  Divide(x, y) \in IntRange /\ IsQuotient(Divide(x, y), x, y)
<1> DEFINE a == Abs(x)
           b == Abs(y)
           d == a \div b
           r == a % b
           q == Divide(x, y)
<1>1. /\ IntMax \in Nat /\ IntMax # 0 /\ x \in Int /\ y \in Int
      /\ -(IntMax + 1) <= x /\ x <= IntMax /\ -(IntMax + 1) <= y /\ y <= IntMax
  BY CgiProgramsAssumption DEF IntRange
<1>2. y # 0 /\ ~(x = -(IntMax + 1) /\ y = -1)
  BY DEF Traps
<1>3. /\ a \in Nat /\ (x < 0 => x = -a) /\ (~(x < 0) => x = a)
      /\ b \in Nat \ {0} /\ (y < 0 => y = -b) /\ (~(y < 0) => y = b)
  BY <1>1, <1>2, AbsType
<1>4. q = IF (x < 0) = (y < 0) THEN d ELSE -d
  BY DEF Divide
<1> HIDE DEF a, b
<1>5. /\ d \in Nat /\ r \in Nat /\ r < b /\ a = b * d + r
      /\ d <= a /\ (b # 1 => 2 * d <= a)
  BY <1>3, DivisionOfNat
<1> HIDE DEF d, r, q
<1>6. d <= IntMax + 1
  BY <1>1, <1>3, <1>5
<1>7. (x < 0) = (y < 0) => d <= IntMax
  <2>1. CASE ~(x < 0)
    BY <1>1, <1>3, <1>5, <2>1
  <2>2. CASE x < 0 /\ y < 0 /\ b = 1
    BY <1>1, <1>2, <1>3, <1>5, <2>2
  <2>3. CASE x < 0 /\ b # 1
    <3>1. 2 * d <= a /\ a <= IntMax + 1
      BY <1>1, <1>3, <1>5, <2>3
    <3> QED
      BY <1>1, <1>3, <1>5, <3>1
  <2> QED
    BY <2>1, <2>2, <2>3
<1>8. q \in IntRange
  <2>1. CASE (x < 0) = (y < 0)
    <3>1. q = d
      BY <1>4, <2>1
    <3> QED
      BY <1>1, <1>5, <1>7, <2>1, <3>1 DEF IntRange
  <2>2. CASE ~((x < 0) = (y < 0))
    <3>1. q = -d
      BY <1>4, <2>2
    <3> QED
      BY <1>1, <1>5, <1>6, <3>1 DEF IntRange
  <2> QED
    BY <2>1, <2>2
<1>9. x - q * y = IF x < 0 THEN -r ELSE r
  <2> DEFINE p == b * d
  <2>1. p \in Int /\ a = p + r
    BY <1>3, <1>5
  <2>2. CASE x < 0 /\ y < 0
    <3>1. q = d /\ y = -b /\ x = -a
      BY <1>3, <1>4, <2>2
    <3>2. q * y = -p
      BY <1>3, <1>5, <3>1
    <3> QED
      BY <1>5, <2>1, <2>2, <3>1, <3>2
  <2>3. CASE x < 0 /\ ~(y < 0)
    <3>1. q = -d /\ y = b /\ x = -a
      BY <1>3, <1>4, <2>3
    <3>2. q * y = -p
      BY <1>3, <1>5, <3>1
    <3> QED
      BY <1>5, <2>1, <2>3, <3>1, <3>2
  <2>4. CASE ~(x < 0) /\ y < 0
    <3>1. q = -d /\ y = -b /\ x = a
      BY <1>3, <1>4, <2>4
    <3>2. q * y = p
      BY <1>3, <1>5, <3>1
    <3> QED
      BY <1>5, <2>1, <2>4, <3>1, <3>2
  <2>5. CASE ~(x < 0) /\ ~(y < 0)
    <3>1. q = d /\ y = b /\ x = a
      BY <1>3, <1>4, <2>5
    <3>2. q * y = p
      BY <1>3, <1>5, <3>1
    <3> QED
      BY <1>5, <2>1, <2>5, <3>1, <3>2
  <2> QED
    BY <2>2, <2>3, <2>4, <2>5
<1>10. IsQuotient(q, x, y)
  <2> DEFINE e == x - q * y
  <2>1. e = IF x < 0 THEN -r ELSE r
    BY <1>9
  <2> HIDE DEF e
  <2>2. Abs(e) = r /\ (e # 0 => (e < 0 <=> x < 0))
    BY <1>1, <1>5, <2>1 DEF Abs
  <2> QED
    BY <1>2, <1>5, <2>2 DEF IsQuotient, e, b
<1> QED
  BY <1>8, <1>10 DEF q

\* If it traps, there is no quotient that is an int.
LEMMA TrapsOnlyWithoutQuotient ==
    ASSUME NEW x \in IntRange, NEW y \in IntRange, Traps(x, y), NEW q \in IntRange
    PROVE  ~IsQuotient(q, x, y)
<1>1. /\ IntMax \in Nat /\ x \in Int /\ y \in Int /\ q \in Int /\ q <= IntMax
  BY CgiProgramsAssumption DEF IntRange
<1>2. CASE y = 0
  BY <1>2 DEF IsQuotient
<1>3. CASE x = -(IntMax + 1) /\ y = -1
  <2> SUFFICES ASSUME IsQuotient(q, x, y) PROVE FALSE
    OBVIOUS
  <2>1. x - q * y = x + q
    BY <1>1, <1>3
  <2>2. Abs(x + q) < Abs(y)
    BY <2>1 DEF IsQuotient
  <2>3. Abs(y) = 1
    <3>1. y < 0 /\ y + 1 = 0
      BY <1>3
    <3> QED
      BY <1>1, <3>1 DEF Abs
  <2>4. x + q < 0
    BY <1>1, <1>3
  <2> QED
    BY <1>1, <2>2, <2>3, <2>4 DEF Abs
<1> QED
  BY <1>2, <1>3 DEF Traps

-----------------------------------------------------------------------------
(* What the programs cut from a query. *)

\* A part of a part is a part.
LEMMA PartOfPart ==
    ASSUME NEW S, NEW s \in Seq(S),
           NEW a \in Nat \ {0}, NEW b \in Nat, a <= b, b <= Len(s),
           NEW c \in Nat \ {0}, NEW d \in Nat, d <= b - a + 1
    PROVE  SubSeq(SubSeq(s, a, b), c, d) = SubSeq(s, a + c - 1, a + d - 1)
<1> DEFINE t == SubSeq(s, a, b)
           u == SubSeq(t, c, d)
           v == SubSeq(s, a + c - 1, a + d - 1)
<1>1. Len(s) \in Nat /\ a + c - 1 \in Nat \ {0} /\ a + d - 1 \in Nat /\ a + d - 1 <= Len(s)
  BY LenProperties
<1>2. t \in Seq(S) /\ Len(t) = b - a + 1 /\ \A i \in 1..(b - a + 1) : t[i] = s[a + i - 1]
  BY SubSeqType
<1>3. /\ v \in Seq(S)
      /\ Len(v) = IF a + c - 1 <= a + d - 1 THEN (a + d - 1) - (a + c - 1) + 1 ELSE 0
      /\ \A i \in 1..((a + d - 1) - (a + c - 1) + 1) : v[i] = s[(a + c - 1) + i - 1]
  BY <1>1, SubSeqType
<1> HIDE DEF t, v
<1>a. d <= Len(t)
  BY <1>2
<1>4. /\ u \in Seq(S) /\ Len(u) = IF c <= d THEN d - c + 1 ELSE 0
      /\ \A i \in 1..(d - c + 1) : u[i] = t[c + i - 1]
  BY <1>2, <1>a, SubSeqType
<1> HIDE DEF u
<1>5. Len(v) = IF c <= d THEN d - c + 1 ELSE 0
  BY <1>1, <1>3
<1>6. \A i \in 1..(d - c + 1) :
         /\ i \in 1..((a + d - 1) - (a + c - 1) + 1)
         /\ c + i - 1 \in 1..(b - a + 1)
         /\ (a + c - 1) + i - 1 = a + (c + i - 1) - 1
  OBVIOUS
<1>7. \A i \in 1..(d - c + 1) : u[i] = v[i]
  BY <1>2, <1>3, <1>4, <1>6
<1>8. \A i \in 1..Len(u) : i \in 1..(d - c + 1)
  BY <1>4
<1>9. u = v
  BY <1>3, <1>4, <1>5, <1>7, <1>8, SeqEqual
<1> QED
  BY <1>9 DEF t, u, v

\* What is before and behind the first separator.
LEMMA CutAtFirst ==
    ASSUME NEW S, NEW in \in Seq(S), NEW sep
    PROVE  /\ At(in, sep) = {} => CutString(in, sep) = <<<<>>, <<>>>>
           /\ \A p \in At(in, sep) :
                 (\A m \in At(in, sep) : p <= m) =>
                    CutString(in, sep) = <<SubSeq(in, 1, p - 1), SubSeq(in, p + 1, Len(in))>>
<1>1. \A m \in At(in, sep) : m \in Nat
  BY LenProperties DEF At
<1>2. ASSUME NEW p \in At(in, sep), \A m \in At(in, sep) : p <= m
      PROVE  CutString(in, sep) = <<SubSeq(in, 1, p - 1), SubSeq(in, p + 1, Len(in))>>
  <2>1. PICK o \in At(in, sep) :
           /\ \A m \in At(in, sep) : o <= m
           /\ CutString(in, sep) = <<SubSeq(in, 1, o - 1), SubSeq(in, o + 1, Len(in))>>
    BY <1>2, CutStringIs
  <2>2. o <= p /\ p <= o /\ o \in Nat /\ p \in Nat
    BY <1>1, <1>2, <2>1
  <2>3. o = p
    BY <2>2
  <2> QED
    BY <2>1, <2>3
<1> QED
  BY <1>2, CutStringIs

\* The first of two fields.
LEMMA FieldBefore ==
    ASSUME NEW S, NEW q \in Seq(S), NEW p \in 1..Len(q), NEW sep
    PROVE  LET field == CutString(SubSeq(q, 1, p - 1), sep)[2]
           IN  /\ (\A e \in At(q, sep) : ~(e < p)) => field = <<>>
               /\ \A e \in At(q, sep) :
                     e < p /\ (\A m \in At(q, sep) : e <= m) => field = SubSeq(q, e + 1, p - 1)
<1> DEFINE f == SubSeq(q, 1, p - 1)
<1>1. Len(q) \in Nat /\ p - 1 \in Nat /\ p - 1 <= Len(q)
  BY LenProperties
<1>2. /\ f \in Seq(S) /\ Len(f) = p - 1
      /\ \A i \in 1..(p - 1) : f[i] = q[i]
  BY <1>1, SubSeqType
<1>3. \A m : m \in At(f, sep) <=> m \in At(q, sep) /\ m < p
  <2> HIDE DEF f
  <2>1. DOMAIN f = 1..(p - 1) /\ DOMAIN q = 1..Len(q)
    BY <1>2, LenProperties
  <2>2. \A m : m \in 1..(p - 1) <=> m \in 1..Len(q) /\ m < p
    BY <1>1
  <2> QED
    BY <1>2, <2>1, <2>2 DEF At
<1>4. ASSUME \A e \in At(q, sep) : ~(e < p)
      PROVE  CutString(f, sep)[2] = <<>>
  <2>1. At(f, sep) = {}
    BY <1>3, <1>4
  <2> HIDE DEF f
  <2> QED
    BY <1>2, <2>1, CutAtFirst
<1>5. ASSUME NEW e \in At(q, sep), e < p, \A m \in At(q, sep) : e <= m
      PROVE  CutString(f, sep)[2] = SubSeq(q, e + 1, p - 1)
  <2>1. e \in 1..Len(q) /\ e \in Nat
    BY LenProperties DEF At
  <2>2. e \in At(f, sep) /\ \A m \in At(f, sep) : e <= m
    BY <1>3, <1>5
  <2>3. CutString(f, sep)[2] = SubSeq(f, e + 1, Len(f))
    <3> HIDE DEF f
    <3> QED
      BY <1>2, <2>2, CutAtFirst
  <2>4. SubSeq(f, e + 1, p - 1) = SubSeq(q, 1 + (e + 1) - 1, 1 + (p - 1) - 1)
    BY <1>1, <1>5, <2>1, PartOfPart
  <2>5. 1 + (e + 1) - 1 = e + 1 /\ 1 + (p - 1) - 1 = p - 1
    BY <1>1, <2>1
  <2> QED
    BY <1>2, <2>3, <2>4, <2>5
<1> QED
  BY <1>4, <1>5

\* The second of two fields.
LEMMA FieldBehind ==
    ASSUME NEW S, NEW q \in Seq(S), NEW p \in 1..Len(q), NEW sep
    PROVE  LET field == CutString(SubSeq(q, p + 1, Len(q)), sep)[2]
           IN  /\ (\A e \in At(q, sep) : ~(p < e)) => field = <<>>
               /\ \A e \in At(q, sep) :
                     p < e /\ (\A m \in At(q, sep) : p < m => e <= m) =>
                        field = SubSeq(q, e + 1, Len(q))
<1> DEFINE f == SubSeq(q, p + 1, Len(q))
           l == Len(q) - p
<1>1. /\ Len(q) \in Nat /\ p + 1 \in Nat \ {0} /\ p \in Nat /\ p <= Len(q)
      /\ l \in Nat /\ Len(q) - (p + 1) + 1 = l
  BY LenProperties
<1>2. /\ f \in Seq(S) /\ Len(f) = l
      /\ \A i \in 1..l : f[i] = q[p + i]
  <2>1. /\ f \in Seq(S)
        /\ Len(f) = IF p + 1 <= Len(q) THEN Len(q) - (p + 1) + 1 ELSE 0
        /\ \A i \in 1..(Len(q) - (p + 1) + 1) : f[i] = q[(p + 1) + i - 1]
    BY <1>1, SubSeqType
  <2> HIDE DEF f
  <2>2. (IF p + 1 <= Len(q) THEN Len(q) - (p + 1) + 1 ELSE 0) = l
    <3>1. CASE p + 1 <= Len(q)
      BY <1>1, <3>1
    <3>2. CASE ~(p + 1 <= Len(q))
      <4> DEFINE n == Len(q)
      <4>1. n \in Nat /\ p \in Nat /\ p <= n /\ ~(p + 1 <= n)
        BY <1>1, <3>2
      <4> HIDE DEF n, l
      <4>2. p = n
        BY <4>1
      <4>3. p = Len(q)
        BY <4>2 DEF n
      <4>4. l = 0
        BY <1>1, <4>3 DEF l
      <4> QED
        BY <3>2, <4>4
    <3> QED
      BY <3>1, <3>2
  <2>3. \A i \in 1..l : (p + 1) + i - 1 = p + i
    BY <1>1
  <2>4. Len(f) = l
    BY <2>1, <2>2
  <2>5. \A i \in 1..l : f[i] = q[p + i]
    BY <1>1, <2>1, <2>3
  <2> QED
    BY <2>1, <2>4, <2>5
<1>3. \A i \in Int : i \in At(f, sep) <=> p + i \in At(q, sep) /\ p < p + i
  <2> HIDE DEF f
  <2>1. DOMAIN f = 1..l /\ DOMAIN q = 1..Len(q)
    BY <1>2, LenProperties
  <2>2. \A i \in Int : i \in 1..l <=> p + i \in 1..Len(q) /\ p < p + i
    BY <1>1
  <2> QED
    BY <1>2, <2>1, <2>2 DEF At
<1>4. \A i \in At(f, sep) : i \in Int
  <2>1. DOMAIN f = 1..l
    BY <1>2, LenProperties
  <2> QED
    BY <2>1 DEF At
<1> HIDE DEF l
<1>5. ASSUME \A e \in At(q, sep) : ~(p < e)
      PROVE  CutString(f, sep)[2] = <<>>
  <2>1. At(f, sep) = {}
    BY <1>3, <1>4, <1>5
  <2> HIDE DEF f
  <2> QED
    BY <1>2, <2>1, CutAtFirst
<1>6. ASSUME NEW e \in At(q, sep), p < e, \A m \in At(q, sep) : p < m => e <= m
      PROVE  CutString(f, sep)[2] = SubSeq(q, e + 1, Len(q))
  <2> DEFINE i == e - p
  <2>1. e \in 1..Len(q) /\ e \in Nat
    BY LenProperties DEF At
  <2>2. i \in Nat \ {0} /\ p + i = e
    BY <1>1, <1>6, <2>1
  <2>3. i \in At(f, sep)
    BY <1>3, <1>6, <2>2
  <2>4. \A m \in At(f, sep) : i <= m
    <3> TAKE m \in At(f, sep)
    <3>1. m \in Int /\ p + m \in At(q, sep) /\ p < p + m
      BY <1>3, <1>4
    <3>2. e <= p + m
      BY <1>6, <3>1
    <3> QED
      BY <1>1, <2>1, <3>1, <3>2
  <2> HIDE DEF i
  <2>5. CutString(f, sep)[2] = SubSeq(f, i + 1, Len(f))
    <3> HIDE DEF f
    <3> QED
      BY <1>2, <2>3, <2>4, CutAtFirst
  <2>6. SubSeq(f, i + 1, l) = SubSeq(q, (p + 1) + (i + 1) - 1, (p + 1) + l - 1)
    <3>1. i + 1 \in Nat \ {0}
      BY <2>2
    <3>2. CASE p + 1 <= Len(q)
      <4> DEFINE a == p + 1
                 b == Len(q)
                 c == i + 1
      <4>1. /\ a \in Nat \ {0} /\ b \in Nat /\ a <= b /\ b <= Len(q)
            /\ c \in Nat \ {0} /\ l \in Nat /\ l <= b - a + 1
        BY <1>1, <3>1, <3>2
      <4>2. f = SubSeq(q, a, b)
        OBVIOUS
      <4> HIDE DEF a, b, c, f
      <4>3. SubSeq(f, c, l) = SubSeq(q, a + c - 1, a + l - 1)
        BY <4>1, <4>2, PartOfPart
      <4> QED
        BY <4>3 DEF a, c
    <3>3. CASE ~(p + 1 <= Len(q))
      BY <1>1, <2>1, <2>2, <1>6, <3>3
    <3> QED
      BY <3>2, <3>3
  <2>7. (p + 1) + (i + 1) - 1 = e + 1 /\ (p + 1) + l - 1 = Len(q)
    BY <1>1, <2>1, <2>2 DEF l
  <2> QED
    BY <1>2, <2>5, <2>6, <2>7
<1> QED
  BY <1>5, <1>6

-----------------------------------------------------------------------------
(* What the registration makes of a query. *)

Asked(q, row) ==
    IF Said(q) # {} THEN Said(q) = {row}
    ELSE \E i \in 1..2 :
            /\ row[i] = <<>>
            /\ At(q, "&") = {} => row[3 - i] = <<>>

LEMMA AtType ==
    ASSUME NEW S, NEW q \in Seq(S), NEW c
    PROVE  At(q, c) \in SUBSET (1..Len(q)) /\ Len(q) \in Nat
  BY LenProperties DEF At

\* Without a '&' both fields are empty.
LEMMA ValuesWithoutAnd ==
    ASSUME NEW S, NEW q \in Seq(S), At(q, "&") = {}
    PROVE  ValuesOf(q) = [i \in 1..2 |-> <<>>]
<1>1. CutString(q, "&") = <<<<>>, <<>>>>
  BY CutAtFirst
<1>2. CutString(<<>>, "=") = <<<<>>, <<>>>>
  <2>1. <<>> \in Seq(S) /\ At(<<>>, "=") = {}
    <3>1. <<>> \in Seq(S) /\ Len(<<>>) = 0
      BY EmptySeq
    <3>2. At(<<>>, "=") \in SUBSET (1..0)
      BY <3>1, AtType
    <3> QED
      BY <3>1, <3>2
  <2> QED
    BY <2>1, CutAtFirst
<1>3. \A i \in 1..2 : CutString(q, "&")[i] = <<>>
  BY <1>1
<1>4. \A i \in 1..2 : CutString(CutString(q, "&")[i], "=")[2] = <<>>
  BY <1>2, <1>3
<1> QED
  BY <1>4 DEF ValuesOf

\* With one, they are what is behind the first '=' on either side of it.
LEMMA ValuesAroundAnd ==
    ASSUME NEW S, NEW q \in Seq(S), NEW p \in At(q, "&"), \A m \in At(q, "&") : p <= m
    PROVE  LET row == ValuesOf(q)
           IN  /\ row = <<row[1], row[2]>>
               /\ (\A e \in At(q, "=") : ~(e < p)) => row[1] = <<>>
               /\ (\A e \in At(q, "=") : ~(p < e)) => row[2] = <<>>
               /\ \A e \in At(q, "=") :
                     e < p /\ (\A m \in At(q, "=") : e <= m) => row[1] = SubSeq(q, e + 1, p - 1)
               /\ \A e \in At(q, "=") :
                     p < e /\ (\A m \in At(q, "=") : p < m => e <= m) =>
                        row[2] = SubSeq(q, e + 1, Len(q))
<1> DEFINE f == SubSeq(q, 1, p - 1)
           g == SubSeq(q, p + 1, Len(q))
           row == ValuesOf(q)
<1>1. p \in 1..Len(q)
  BY AtType
<1>2. CutString(q, "&") = <<f, g>>
  BY CutAtFirst
<1>3. /\ (\A e \in At(q, "=") : ~(e < p)) => CutString(f, "=")[2] = <<>>
      /\ \A e \in At(q, "=") :
            e < p /\ (\A m \in At(q, "=") : e <= m) =>
               CutString(f, "=")[2] = SubSeq(q, e + 1, p - 1)
  BY <1>1, FieldBefore
<1>4. /\ (\A e \in At(q, "=") : ~(p < e)) => CutString(g, "=")[2] = <<>>
      /\ \A e \in At(q, "=") :
            p < e /\ (\A m \in At(q, "=") : p < m => e <= m) =>
               CutString(g, "=")[2] = SubSeq(q, e + 1, Len(q))
  BY <1>1, FieldBehind
<1> HIDE DEF f, g
<1>5. CutString(q, "&")[1] = f /\ CutString(q, "&")[2] = g
  BY <1>2
<1>6. row = [i \in 1..2 |-> CutString(CutString(q, "&")[i], "=")[2]]
  BY DEF ValuesOf
<1>7. row[1] = CutString(f, "=")[2] /\ row[2] = CutString(g, "=")[2]
  BY <1>5, <1>6
<1>8. row = <<row[1], row[2]>>
  BY <1>6
<1> HIDE DEF row
<1>9. /\ (\A e \in At(q, "=") : ~(e < p)) => row[1] = <<>>
      /\ (\A e \in At(q, "=") : ~(p < e)) => row[2] = <<>>
      /\ \A e \in At(q, "=") :
            e < p /\ (\A m \in At(q, "=") : e <= m) => row[1] = SubSeq(q, e + 1, p - 1)
      /\ \A e \in At(q, "=") :
            p < e /\ (\A m \in At(q, "=") : p < m => e <= m) =>
               row[2] = SubSeq(q, e + 1, Len(q))
  BY <1>3, <1>4, <1>7
<1> QED
  BY <1>8, <1>9 DEF row

\* The places of the separators in a well-formed query.
Places(q) ==
    {t \in At(q, "=") \X At(q, "&") \X At(q, "=") :
        /\ t[1] < t[2] /\ t[2] < t[3]
        /\ \A m \in At(q, "&") : m >= t[2]
        /\ \A m \in At(q, "=") : m >= t[1] /\ m \notin t[2]..(t[3] - 1)}

LEMMA PlacesAre ==
    ASSUME NEW S, NEW q \in Seq(S), NEW t
    PROVE  t \in Places(q) <=>
              \E e \in At(q, "="), p \in At(q, "&"), f \in At(q, "=") :
                 /\ t = <<e, p, f>>
                 /\ e < p /\ p < f
                 /\ \A m \in At(q, "&") : p <= m
                 /\ \A m \in At(q, "=") : e <= m /\ (p < m => f <= m)
<1>1. /\ \A m \in At(q, "=") : m \in Nat /\ q[m] = "="
      /\ \A m \in At(q, "&") : m \in Nat /\ q[m] = "&"
  <2>1. DOMAIN q = 1..Len(q) /\ Len(q) \in Nat
    BY LenProperties
  <2> QED
    BY <2>1 DEF At
<1>2. \A m \in At(q, "="), p \in At(q, "&") : m # p
  <2>1. "=" # "&"
    OBVIOUS
  <2> QED
    BY <1>1, <2>1
<1>3. \A m, p, f \in Nat : m # p => (m \notin p..(f - 1) <=> (p < m => f <= m))
  OBVIOUS
<1>4. \A m \in At(q, "="), p \in At(q, "&"), f \in At(q, "=") :
         m \notin p..(f - 1) <=> (p < m => f <= m)
  BY <1>1, <1>2, <1>3
<1>5. ASSUME NEW e \in At(q, "="), NEW p \in At(q, "&"), NEW f \in At(q, "="),
             t = <<e, p, f>>
      PROVE  t \in Places(q) <=>
                /\ e < p /\ p < f
                /\ \A m \in At(q, "&") : p <= m
                /\ \A m \in At(q, "=") : e <= m /\ (p < m => f <= m)
  <2>1. t[1] = e /\ t[2] = p /\ t[3] = f /\ t \in At(q, "=") \X At(q, "&") \X At(q, "=")
    BY <1>5
  <2>2. t \in Places(q) <=>
           /\ e < p /\ p < f
           /\ \A m \in At(q, "&") : m >= p
           /\ \A m \in At(q, "=") : m >= e /\ m \notin p..(f - 1)
    BY <2>1 DEF Places
  <2>3. (\A m \in At(q, "&") : m >= p) <=> (\A m \in At(q, "&") : p <= m)
    BY <1>1
  <2>4. (\A m \in At(q, "=") : m >= e /\ m \notin p..(f - 1))
           <=> (\A m \in At(q, "=") : e <= m /\ (p < m => f <= m))
    BY <1>1, <1>4
  <2> QED
    BY <2>2, <2>3, <2>4
<1>6. t \in Places(q) =>
         \E e \in At(q, "="), p \in At(q, "&"), f \in At(q, "=") : t = <<e, p, f>>
  BY DEF Places
<1> QED
  BY <1>5, <1>6

\* A query of the form n=v&p=w gives v and w; any other one an empty field.
LEMMA ValuesAsAsked ==
    ASSUME NEW S, NEW q \in Seq(S)
    PROVE  Asked(q, ValuesOf(q))
<1> DEFINE row == ValuesOf(q)
           Fields(e, p, f) == <<SubSeq(q, e + 1, p - 1), SubSeq(q, f + 1, Len(q))>>
<1>1. Said(q) = {Fields(t[1], t[2], t[3]) : t \in Places(q)}
  BY DEF Said, Places
<1>2. /\ At(q, "=") \in SUBSET Nat /\ At(q, "&") \in SUBSET Nat
      /\ Len(q) \in Nat
  BY AtType
<1>3. CASE At(q, "&") = {}
  <2>1. Places(q) = {}
    BY <1>3, PlacesAre
  <2>2. Said(q) = {}
    BY <1>1, <2>1
  <2>3. row[1] = <<>> /\ row[3 - 1] = <<>>
    <3>1. row[1] = <<>> /\ row[2] = <<>> /\ 3 - 1 = 2
      BY <1>3, ValuesWithoutAnd
    <3> QED
      BY <3>1
  <2> QED
    BY <2>2, <2>3 DEF Asked
<1>4. CASE At(q, "&") # {}
  <2>1. PICK p \in At(q, "&") : \A m \in At(q, "&") : p <= m
    BY <1>2, <1>4, LeastNumber
  <2>2. /\ row = <<row[1], row[2]>>
        /\ (\A e \in At(q, "=") : ~(e < p)) => row[1] = <<>>
        /\ (\A e \in At(q, "=") : ~(p < e)) => row[2] = <<>>
        /\ \A e \in At(q, "=") :
              e < p /\ (\A m \in At(q, "=") : e <= m) => row[1] = SubSeq(q, e + 1, p - 1)
        /\ \A e \in At(q, "=") :
              p < e /\ (\A m \in At(q, "=") : p < m => e <= m) =>
                 row[2] = SubSeq(q, e + 1, Len(q))
    BY <2>1, ValuesAroundAnd
  <2> HIDE DEF row
  <2>3. ASSUME NEW t \in Places(q)
        PROVE  Fields(t[1], t[2], t[3]) = row
    <3>1. PICK e \in At(q, "="), o \in At(q, "&"), f \in At(q, "=") :
             /\ t = <<e, o, f>>
             /\ e < o /\ o < f
             /\ \A m \in At(q, "&") : o <= m
             /\ \A m \in At(q, "=") : e <= m /\ (o < m => f <= m)
      BY PlacesAre
    <3>2. o = p
      <4>1. o <= p /\ p <= o /\ o \in Nat /\ p \in Nat
        BY <1>2, <2>1, <3>1
      <4> QED
        BY <4>1
    <3>3. t[1] = e /\ t[2] = p /\ t[3] = f
      BY <3>1, <3>2
    <3>4. row[1] = SubSeq(q, e + 1, p - 1) /\ row[2] = SubSeq(q, f + 1, Len(q))
      BY <2>2, <3>1, <3>2
    <3> QED
      BY <2>2, <3>3, <3>4
  <2>4. CASE Said(q) # {}
    <3>1. Said(q) = {row}
      BY <1>1, <2>3, <2>4
    <3> QED
      BY <2>4, <3>1 DEF Asked, row
  <2>5. CASE Said(q) = {}
    <3>1. Places(q) = {}
      BY <1>1, <2>5
    <3>2. (\A e \in At(q, "=") : ~(e < p)) \/ (\A e \in At(q, "=") : ~(p < e))
      <4> SUFFICES ASSUME NEW e0 \in At(q, "="), e0 < p, NEW f0 \in At(q, "="), p < f0
                   PROVE  FALSE
        OBVIOUS
      <4> DEFINE Later == {m \in At(q, "=") : p < m}
      <4>1. PICK e \in At(q, "=") : \A m \in At(q, "=") : e <= m
        BY <1>2, LeastNumber
      <4>2. Later \in SUBSET Nat /\ Later # {}
        BY <1>2
      <4>3. PICK f \in Later : \A m \in Later : f <= m
        <5> HIDE DEF Later
        <5> QED
          BY <4>2, LeastNumber
      <4>4. e < p
        <5>1. e <= e0 /\ e0 < p /\ e \in Nat /\ e0 \in Nat /\ p \in Nat
          BY <1>2, <4>1
        <5> QED
          BY <5>1
      <4>5. <<e, p, f>> \in Places(q)
        BY <2>1, <4>1, <4>3, <4>4, PlacesAre
      <4> QED
        BY <3>1, <4>5
    <3>3. row[1] = <<>> \/ row[2] = <<>>
      BY <2>2, <3>2
    <3>4. \E i \in 1..2 : row[i] = <<>>
      BY <3>3
    <3> QED
      BY <1>4, <2>5, <3>4 DEF Asked, row
  <2> QED
    BY <2>4, <2>5
<1> QED
  BY <1>3, <1>4

\* The fields are sequences.
LEMMA ValuesType ==
    ASSUME NEW S, NEW q \in Seq(S)
    PROVE  ValuesOf(q) \in [1..2 -> Seq(S)]
<1>1. ASSUME NEW s \in Seq(S), NEW sep
      PROVE  CutString(s, sep)[1] \in Seq(S) /\ CutString(s, sep)[2] \in Seq(S)
  <2>1. At(s, sep) \in SUBSET (1..Len(s)) /\ Len(s) \in Nat
    BY AtType
  <2>2. CASE At(s, sep) = {}
    <3>1. <<>> \in Seq(S)
      BY EmptySeq
    <3>2. CutString(s, sep) = <<<<>>, <<>>>>
      BY <2>2, CutAtFirst
    <3> QED
      BY <3>1, <3>2
  <2>3. CASE At(s, sep) # {}
    <3>1. PICK p \in At(s, sep) :
             CutString(s, sep) = <<SubSeq(s, 1, p - 1), SubSeq(s, p + 1, Len(s))>>
      BY <2>3, CutStringIs
    <3>2. p \in 1..Len(s) /\ p - 1 \in Nat /\ p - 1 <= Len(s) /\ p + 1 \in Nat \ {0}
      BY <2>1
    <3>3. SubSeq(s, 1, p - 1) \in Seq(S) /\ SubSeq(s, p + 1, Len(s)) \in Seq(S)
      BY <2>1, <3>2, SubSeqType
    <3> QED
      BY <3>1, <3>3
  <2> QED
    BY <2>2, <2>3
<1>2. \A i \in 1..2 : CutString(q, "&")[i] \in Seq(S)
  BY <1>1
<1>3. \A i \in 1..2 : CutString(CutString(q, "&")[i], "=")[2] \in Seq(S)
  BY <1>1, <1>2
<1> QED
  BY <1>3 DEF ValuesOf

\* Their characters are the query's.
LEMMA ValuesPlain ==
    ASSUME NEW q \in Seq(STRING), \A c \in Special : At(q, c) = {}
    PROVE  Plain(ValuesOf(q))
<1> DEFINE row == ValuesOf(q)
           C == {q[i] : i \in DOMAIN q}
<1>1. q \in Seq(C)
  <2>1. DOMAIN q = 1..Len(q) /\ Len(q) \in Nat
    BY LenProperties
  <2> QED
    BY <2>1, ElementOfSeq
<1>2. \A c \in C : c \notin Special
  BY DEF At
<1> HIDE DEF C
<1>3. row \in [1..2 -> Seq(C)]
  BY <1>1, ValuesType
<1> HIDE DEF row
<1>4. ASSUME NEW i \in 1..2, NEW j \in DOMAIN row[i]
      PROVE  row[i][j] \notin Special
  <2>1. row[i] \in Seq(C) /\ DOMAIN row[i] = 1..Len(row[i])
    BY <1>3, LenProperties
  <2>2. row[i][j] \in C
    BY <2>1, ElementOfSeq
  <2> QED
    BY <1>2, <2>2
<1> QED
  BY <1>4 DEF Plain, row

-----------------------------------------------------------------------------
(* The invariant. *)

Fields == [1..2 -> Seq(STRING)]

\* What TypeOK needs besides itself.
Typed == TypeOK /\ values \in Fields

\* How far the program is, how it ended, and what it printed.
Stage ==
    /\ pc = "ended" <=> status # "none"
    /\ program = "cgi" =>
          /\ pc \in {"start", "fields", "compute", "exit", "ended"}
          /\ pc \in {"start", "fields"} => page = <<>> /\ buffer = <<>>
          /\ pc = "compute" => page = <<"fields">> /\ buffer = <<>>
          /\ pc = "exit" => page = <<"fields">> /\ buffer = <<"results">>
          /\ status = "SIGFPE" => page = <<"fields">>
          /\ status = "zero" => page = <<"fields", "results">>
    /\ program = "mysql_connect" =>
          /\ pc \in {"start", "connect", "query", "wait", "print", "exit", "ended"}
          /\ pc \in {"start", "connect", "query", "wait", "print"} => buffer = <<>>
          /\ pc = "exit" => buffer = <<"registered">>
          /\ status \in {"none", "zero", "killed"}
          /\ page = IF status = "zero" THEN <<"registered">> ELSE <<>>

\* Every call but the last was killed or showed the user nothing.
Counted == kills + lost = IF status = "killed" THEN calls ELSE calls - 1

Executed == {k \in 1..MaxCalls : insert[k] = "executed"}

\* No call inserts before it has connected, none twice, and if the values are
\* plain each row is that of one insert.
Inserted ==
    /\ \A k \in 1..MaxCalls : insert[k] # "none" => k <= calls
    /\ pc \in {"start", "connect", "query"} => insert[calls] = "none"
    /\ table \in Seq(Fields)
    /\ Plain(ValuesOf(query)) => Len(table) = Cardinality(Executed)

Rows == Plain(ValuesOf(query)) => \A r \in DOMAIN table : table[r] = ValuesOf(query)

\* What the registration does not wait for was refused or lost.
Known ==
    program = "mysql_connect" /\ (pc \in {"print", "exit"} \/ status = "zero") =>
        insert[calls] \in {"executed", "rejected"} \/ conn \in {"refused", "lost"}

\* The calculator's results are those of its two values.
Computed ==
    LET x == atoi(values[1])
        y == atoi(values[2])
    IN  /\ program = "cgi" /\ status = "SIGFPE" => Traps(x, y)
        /\ program = "cgi" /\ (pc = "exit" \/ status = "zero") =>
              /\ ~Traps(x, y)
              /\ results = <<ToInt(x + y), ToInt(x - y), ToInt(x * y), ToInt(Divide(x, y))>>

ProgramsInv == Typed /\ Stage /\ Counted /\ Inserted /\ Rows /\ Known /\ Computed

-----------------------------------------------------------------------------
(* Init, and what each step does to each part of the invariant. *)

LEMMA ProgramsInvInit == Init => ProgramsInv
<1> SUFFICES ASSUME Init PROVE ProgramsInv
  OBVIOUS
<1> USE DEF Init
<1>1. Typed
  <2>1. <<>> \in Seq(STRING) /\ query \in Seq(STRING)
    BY EmptySeq, CgiProgramsAssumption
  <2>2. values = [i \in 1..2 |-> <<>>]
    OBVIOUS
  <2>3. values \in Fields /\ DOMAIN values = 1..2
    BY <2>1, <2>2 DEF Fields
  <2>4. calls \in 1..MaxCalls /\ kills \in 0..calls /\ lost \in 0..calls
    BY CgiProgramsAssumption
  <2>5. DOMAIN results = {}
    OBVIOUS
  <2> QED
    BY <2>1, <2>3, <2>4, <2>5 DEF Typed, TypeOK
<1>2. Stage
  BY DEF Stage
<1>3. Counted
  BY DEF Counted
<1>4. Inserted
  <2>1. Executed = {}
    BY DEF Executed
  <2>2. table \in Seq(Fields) /\ Len(table) = 0
    BY EmptySeq
  <2>3. Cardinality(Executed) = 0
    BY <2>1, FS_EmptySet
  <2>4. \A k \in 1..MaxCalls : insert[k] = "none"
    OBVIOUS
  <2>5. calls \in 1..MaxCalls
    BY CgiProgramsAssumption
  <2> QED
    BY <2>2, <2>3, <2>4, <2>5 DEF Inserted
<1>5. Rows
  BY DEF Rows
<1>6. Known /\ Computed
  BY DEF Known, Computed
<1> QED
  BY <1>1, <1>2, <1>3, <1>4, <1>5, <1>6 DEF ProgramsInv

LEMMA StageStep ==
    ASSUME ProgramsInv, Next
    PROVE  Stage'
<1>1. CASE Start
  BY <1>1 DEF Start, callVars, databaseVars, ProgramsInv, Typed, TypeOK, Stage
<1>2. CASE PrintFields
  BY <1>2 DEF PrintFields, callVars, databaseVars, ProgramsInv, Typed, TypeOK, Stage
<1>3. CASE PrintResults
  BY <1>3 DEF PrintResults, callVars, databaseVars, ProgramsInv, Typed, TypeOK, Stage
<1>4. CASE Connect
  BY <1>4 DEF Connect, callVars, databaseVars, ProgramsInv, Typed, TypeOK, Stage
<1>5. CASE Query
  BY <1>5 DEF Query, callVars, databaseVars, ProgramsInv, Typed, TypeOK, Stage
<1>6. CASE QueryReturns
  BY <1>6 DEF QueryReturns, Await, callVars, databaseVars, ProgramsInv, Typed, TypeOK, Stage
<1>7. CASE PrintPage
  BY <1>7 DEF PrintPage, callVars, databaseVars, ProgramsInv, Typed, TypeOK, Stage
<1>8. CASE Exit
  <2>1. <<"fields">> \o <<"results">> = <<"fields", "results">>
    <3> DEFINE W == {"fields", "results"}
               s == <<"fields">>
               t == <<"results">>
               u == <<"fields", "results">>
    <3>1. /\ s \in Seq(W) /\ Len(s) = 1 /\ s[1] = "fields"
          /\ t \in Seq(W) /\ Len(t) = 1 /\ t[1] = "results"
          /\ u \in Seq(W) /\ Len(u) = 2 /\ u[1] = "fields" /\ u[2] = "results"
      OBVIOUS
    <3> HIDE DEF W, s, t, u
    <3>2. /\ s \o t \in Seq(W) /\ Len(s \o t) = 2
          /\ (s \o t)[1] = "fields" /\ (s \o t)[2] = "results"
      BY <3>1, ConcatProperties
    <3>3. \A i \in 1..2 : (s \o t)[i] = u[i]
      BY <3>1, <3>2
    <3>4. s \o t = u
      BY <3>1, <3>2, <3>3, SeqEqual
    <3> QED
      BY <3>4 DEF s, t, u
  <2>2. <<>> \o <<"registered">> = <<"registered">>
    OBVIOUS
  <2> QED
    BY <1>8, <2>1, <2>2 DEF Exit, callVars, databaseVars, ProgramsInv, Typed, TypeOK, Stage
<1>9. CASE Killed
  BY <1>9 DEF Killed, callVars, databaseVars, ProgramsInv, Typed, TypeOK, Stage
<1>10. CASE Resubmit
  BY <1>10 DEF Resubmit, callVars, databaseVars, ProgramsInv, Typed, TypeOK, Stage
<1>11. CASE DatabaseStep
  BY <1>11 DEF DatabaseStep, ExecuteInsert, callVars, databaseVars, ProgramsInv, Typed, TypeOK, Stage
<1>12. CASE LoseConnection
  BY <1>12 DEF LoseConnection, callVars, databaseVars, ProgramsInv, Typed, TypeOK, Stage
<1>13. CASE \E k \in 1..MaxCalls : LateQuery(k)
  BY <1>13 DEF LateQuery, callVars, databaseVars, ProgramsInv, Typed, TypeOK, Stage
<1> QED
  BY <1>1, <1>2, <1>3, <1>4, <1>5, <1>6, <1>7, <1>8, <1>9, <1>10, <1>11, <1>12, <1>13
  DEF Next, ProgramStep

LEMMA CountedStep ==
    ASSUME ProgramsInv, Next
    PROVE  Counted'
<1>1. CASE Start
  BY <1>1 DEF Start, callVars, databaseVars, ProgramsInv, Typed, TypeOK, Stage, Counted
<1>2. CASE PrintFields
  BY <1>2 DEF PrintFields, callVars, databaseVars, ProgramsInv, Typed, TypeOK, Stage, Counted
<1>3. CASE PrintResults
  BY <1>3 DEF PrintResults, callVars, databaseVars, ProgramsInv, Typed, TypeOK, Stage, Counted
<1>4. CASE Connect
  BY <1>4 DEF Connect, callVars, databaseVars, ProgramsInv, Typed, TypeOK, Stage, Counted
<1>5. CASE Query
  BY <1>5 DEF Query, callVars, databaseVars, ProgramsInv, Typed, TypeOK, Stage, Counted
<1>6. CASE QueryReturns
  BY <1>6 DEF QueryReturns, Await, callVars, databaseVars, ProgramsInv, Typed, TypeOK, Stage, Counted
<1>7. CASE PrintPage
  BY <1>7 DEF PrintPage, callVars, databaseVars, ProgramsInv, Typed, TypeOK, Stage, Counted
<1>8. CASE Exit
  BY <1>8 DEF Exit, callVars, databaseVars, ProgramsInv, Typed, TypeOK, Stage, Counted
<1>9. CASE Killed
  BY <1>9 DEF Killed, callVars, databaseVars, ProgramsInv, Typed, TypeOK, Stage, Counted
<1>10. CASE Resubmit
  <2>1. /\ calls \in Nat /\ kills \in Nat /\ lost \in Nat
        /\ calls' = calls + 1 /\ kills' = kills /\ status' = "none"
    BY <1>10, CgiProgramsAssumption DEF Resubmit, ProgramsInv, Typed, TypeOK, Counted
  <2>2. IF status = "killed" THEN kills + lost = calls /\ lost' = lost
        ELSE kills + lost = calls - 1 /\ lost' = lost + 1
    <3>1. status = "killed" <=> pc = "ended" /\ page = <<>>
      BY <1>10 DEF Resubmit, ProgramsInv, Stage
    <3>2. lost' = IF status = "killed" THEN lost ELSE lost + 1
      BY <1>10, <3>1 DEF Resubmit
    <3> QED
      BY <3>2 DEF ProgramsInv, Counted
  <2>3. kills' + lost' = calls' - 1
    BY <2>1, <2>2
  <2> QED
    BY <2>1, <2>3 DEF Counted
<1>11. CASE DatabaseStep
  BY <1>11 DEF DatabaseStep, ExecuteInsert, callVars, databaseVars, ProgramsInv, Typed, TypeOK, Stage, Counted
<1>12. CASE LoseConnection
  BY <1>12 DEF LoseConnection, callVars, databaseVars, ProgramsInv, Typed, TypeOK, Stage, Counted
<1>13. CASE \E k \in 1..MaxCalls : LateQuery(k)
  BY <1>13 DEF LateQuery, callVars, databaseVars, ProgramsInv, Typed, TypeOK, Stage, Counted
<1> QED
  BY <1>1, <1>2, <1>3, <1>4, <1>5, <1>6, <1>7, <1>8, <1>9, <1>10, <1>11, <1>12, <1>13
  DEF Next, ProgramStep

LEMMA KnownStep ==
    ASSUME ProgramsInv, Next
    PROVE  Known'
<1>1. CASE Start
  BY <1>1 DEF Start, callVars, databaseVars, ProgramsInv, Typed, TypeOK, Stage, Known
<1>2. CASE PrintFields
  BY <1>2 DEF PrintFields, callVars, databaseVars, ProgramsInv, Typed, TypeOK, Stage, Known
<1>3. CASE PrintResults
  BY <1>3 DEF PrintResults, callVars, databaseVars, ProgramsInv, Typed, TypeOK, Stage, Known
<1>4. CASE Connect
  BY <1>4 DEF Connect, callVars, databaseVars, ProgramsInv, Typed, TypeOK, Stage, Known
<1>5. CASE Query
  BY <1>5 DEF Query, callVars, databaseVars, ProgramsInv, Typed, TypeOK, Stage, Known
<1>6. CASE QueryReturns
  BY <1>6 DEF QueryReturns, Await, callVars, databaseVars, ProgramsInv, Typed, TypeOK, Stage, Known
<1>7. CASE PrintPage
  BY <1>7 DEF PrintPage, callVars, databaseVars, ProgramsInv, Typed, TypeOK, Stage, Known
<1>8. CASE Exit
  BY <1>8 DEF Exit, callVars, databaseVars, ProgramsInv, Typed, TypeOK, Stage, Known
<1>9. CASE Killed
  BY <1>9 DEF Killed, callVars, databaseVars, ProgramsInv, Typed, TypeOK, Stage, Known
<1>10. CASE Resubmit
  BY <1>10 DEF Resubmit, callVars, databaseVars, ProgramsInv, Typed, TypeOK, Stage, Known
<1>11. CASE DatabaseStep
  BY <1>11 DEF DatabaseStep, ExecuteInsert, callVars, databaseVars, ProgramsInv, Typed, TypeOK, Stage, Known
<1>12. CASE LoseConnection
  BY <1>12 DEF LoseConnection, callVars, databaseVars, ProgramsInv, Typed, TypeOK, Stage, Known
<1>13. CASE \E k \in 1..MaxCalls : LateQuery(k)
  BY <1>13 DEF LateQuery, callVars, databaseVars, ProgramsInv, Typed, TypeOK, Stage, Known
<1> QED
  BY <1>1, <1>2, <1>3, <1>4, <1>5, <1>6, <1>7, <1>8, <1>9, <1>10, <1>11, <1>12, <1>13
  DEF Next, ProgramStep

\* What an executed insert adds to the table.
LEMMA RowsAdded ==
    ASSUME query \in Seq(STRING), table \in Seq(Fields), NEW rows \in Added(ValuesOf(query))
    PROVE  LET row == ValuesOf(query)
               all == table \o rows
           IN  /\ all \in Seq(Fields)
               /\ Plain(row) => /\ Len(all) = Len(table) + 1
                                /\ all[Len(table) + 1] = row
                                /\ \A r \in 1..Len(table) : all[r] = table[r]
<1> DEFINE row == ValuesOf(query)
           n == Len(table)
           all == table \o rows
<1>1. row \in Fields
  BY ValuesType DEF Fields
<1>2. rows \in Seq(Fields) /\ (Plain(row) => rows = <<row>>)
  <2> HIDE DEF row
  <2>1. rows \in IF Plain(row) THEN {<<row>>} ELSE Strays
    BY DEF Added, row
  <2>2. CASE Plain(row)
    <3>1. <<row>> \in Seq(Fields)
      BY <1>1
    <3> QED
      BY <2>1, <2>2, <3>1
  <2>3. CASE ~Plain(row)
    <3>1. rows \in Strays
      BY <2>1, <2>3
    <3> QED
      BY <2>3, <3>1, CgiProgramsAssumption DEF Fields
  <2> QED
    BY <2>2, <2>3
<1> HIDE DEF row
<1>3. n \in Nat /\ Len(rows) \in Nat
  BY <1>2, LenProperties
<1>4. /\ all \in Seq(Fields) /\ Len(all) = n + Len(rows)
      /\ \A r \in 1..(n + Len(rows)) : all[r] = IF r <= n THEN table[r] ELSE rows[r - n]
  BY <1>2, ConcatProperties
<1> HIDE DEF all, n
<1>5. ASSUME Plain(row)
      PROVE  Len(all) = n + 1 /\ all[n + 1] = row /\ \A r \in 1..n : all[r] = table[r]
  <2>1. Len(rows) = 1 /\ rows[1] = row
    BY <1>2, <1>5
  <2>2. Len(all) = n + 1 /\ \A r \in 1..(n + 1) : all[r] = IF r <= n THEN table[r] ELSE rows[r - n]
    BY <1>4, <2>1
  <2>3. n + 1 \in 1..(n + 1) /\ ~(n + 1 <= n) /\ (n + 1) - n = 1 /\ \A r \in 1..n : r \in 1..(n + 1) /\ r <= n
    BY <1>3
  <2>4. all[n + 1] = row
    BY <2>1, <2>2, <2>3
  <2> QED
    BY <2>2, <2>3, <2>4
<1> QED
  BY <1>4, <1>5 DEF all, n, row

LEMMA RowsStep ==
    ASSUME ProgramsInv, Next
    PROVE  Rows'
<1>1. CASE Start
  BY <1>1 DEF Start, callVars, databaseVars, ProgramsInv, Rows
<1>2. CASE PrintFields
  BY <1>2 DEF PrintFields, callVars, databaseVars, ProgramsInv, Rows
<1>3. CASE PrintResults
  BY <1>3 DEF PrintResults, callVars, databaseVars, ProgramsInv, Rows
<1>4. CASE Connect
  BY <1>4 DEF Connect, callVars, databaseVars, ProgramsInv, Rows
<1>5. CASE Query
  BY <1>5 DEF Query, callVars, databaseVars, ProgramsInv, Rows
<1>6. CASE QueryReturns
  BY <1>6 DEF QueryReturns, Await, callVars, databaseVars, ProgramsInv, Rows
<1>7. CASE PrintPage
  BY <1>7 DEF PrintPage, callVars, databaseVars, ProgramsInv, Rows
<1>8. CASE Exit
  BY <1>8 DEF Exit, callVars, databaseVars, ProgramsInv, Rows
<1>9. CASE Killed
  BY <1>9 DEF Killed, callVars, databaseVars, ProgramsInv, Rows
<1>10. CASE Resubmit
  BY <1>10 DEF Resubmit, callVars, databaseVars, ProgramsInv, Rows
<1>11. CASE DatabaseStep
  <2>1. PICK k \in 1..MaxCalls : ExecuteInsert(k)
    BY <1>11 DEF DatabaseStep
  <2>2. query' = query
    BY <2>1 DEF ExecuteInsert, callVars
  <2>3. CASE table' = table
    BY <2>2, <2>3 DEF ProgramsInv, Rows
  <2>4. ASSUME NEW rows \in Added(ValuesOf(query)), table' = table \o rows
        PROVE  Rows'
    <3> SUFFICES ASSUME Plain(ValuesOf(query))
                 PROVE  \A r \in DOMAIN table' : table'[r] = ValuesOf(query)
      BY <2>2 DEF Rows
    <3>1. table \in Seq(Fields) /\ query \in Seq(STRING)
      BY DEF ProgramsInv, Typed, TypeOK, Inserted
    <3>2. /\ table' \in Seq(Fields) /\ Len(table') = Len(table) + 1
          /\ table'[Len(table) + 1] = ValuesOf(query)
          /\ \A r \in 1..Len(table) : table'[r] = table[r]
      BY <2>4, <3>1, RowsAdded
    <3>3. \A r \in 1..Len(table) : table[r] = ValuesOf(query)
      BY <3>1, LenProperties DEF ProgramsInv, Rows
    <3>4. \A r \in 1..(Len(table) + 1) : r \in 1..Len(table) \/ r = Len(table) + 1
      BY <3>1, LenProperties
    <3>5. DOMAIN table' = 1..(Len(table) + 1)
      BY <3>2, LenProperties
    <3> QED
      BY <3>2, <3>3, <3>4, <3>5
  <2> QED
    BY <2>1, <2>3, <2>4 DEF ExecuteInsert
<1>12. CASE LoseConnection
  BY <1>12 DEF LoseConnection, callVars, databaseVars, ProgramsInv, Rows
<1>13. CASE \E k \in 1..MaxCalls : LateQuery(k)
  BY <1>13 DEF LateQuery, callVars, databaseVars, ProgramsInv, Rows
<1> QED
  BY <1>1, <1>2, <1>3, <1>4, <1>5, <1>6, <1>7, <1>8, <1>9, <1>10, <1>11, <1>12, <1>13
  DEF Next, ProgramStep

LEMMA ComputedStep ==
    ASSUME ProgramsInv, Next
    PROVE  Computed'
<1>1. CASE Start
  BY <1>1 DEF Start, callVars, databaseVars, ProgramsInv, Stage, Computed
<1>2. CASE PrintFields
  BY <1>2 DEF PrintFields, callVars, databaseVars, ProgramsInv, Stage, Computed
<1>3. CASE PrintResults
  BY <1>3 DEF PrintResults, callVars, databaseVars, ProgramsInv, Stage, Computed
<1>4. CASE Connect
  BY <1>4 DEF Connect, callVars, databaseVars, ProgramsInv, Stage, Computed
<1>5. CASE Query
  BY <1>5 DEF Query, callVars, databaseVars, ProgramsInv, Stage, Computed
<1>6. CASE QueryReturns
  BY <1>6 DEF QueryReturns, Await, callVars, databaseVars, ProgramsInv, Stage, Computed
<1>7. CASE PrintPage
  BY <1>7 DEF PrintPage, callVars, databaseVars, ProgramsInv, Stage, Computed
<1>8. CASE Exit
  BY <1>8 DEF Exit, callVars, databaseVars, ProgramsInv, Stage, Computed
<1>9. CASE Killed
  BY <1>9 DEF Killed, callVars, databaseVars, ProgramsInv, Stage, Computed
<1>10. CASE Resubmit
  BY <1>10 DEF Resubmit, callVars, databaseVars, ProgramsInv, Stage, Computed
<1>11. CASE DatabaseStep
  BY <1>11 DEF DatabaseStep, ExecuteInsert, callVars, databaseVars, ProgramsInv, Stage, Computed
<1>12. CASE LoseConnection
  BY <1>12 DEF LoseConnection, callVars, databaseVars, ProgramsInv, Stage, Computed
<1>13. CASE \E k \in 1..MaxCalls : LateQuery(k)
  BY <1>13 DEF LateQuery, callVars, databaseVars, ProgramsInv, Stage, Computed
<1> QED
  BY <1>1, <1>2, <1>3, <1>4, <1>5, <1>6, <1>7, <1>8, <1>9, <1>10, <1>11, <1>12, <1>13
  DEF Next, ProgramStep

LEMMA InsertedStep ==
    ASSUME ProgramsInv, Next
    PROVE  Inserted'
<1>1. CASE Start
  BY <1>1 DEF Start, callVars, databaseVars, ProgramsInv, Typed, TypeOK, Inserted, Executed
<1>2. CASE PrintFields
  BY <1>2 DEF PrintFields, callVars, databaseVars, ProgramsInv, Typed, TypeOK, Inserted, Executed
<1>3. CASE PrintResults
  BY <1>3 DEF PrintResults, callVars, databaseVars, ProgramsInv, Typed, TypeOK, Inserted, Executed
<1>4. CASE Connect
  BY <1>4 DEF Connect, callVars, databaseVars, ProgramsInv, Typed, TypeOK, Inserted, Executed
<1>5. CASE Query
  <2>1. /\ calls \in 1..MaxCalls /\ insert[calls] = "none" /\ pc' = "wait"
        /\ insert' \in {insert, [insert EXCEPT ![calls] = "sent"]}
        /\ insert \in [1..MaxCalls -> {"none", "unsent", "sent", "executed", "rejected"}]
        /\ table' = table /\ calls' = calls /\ query' = query
    BY <1>5 DEF Query, callVars, ProgramsInv, Typed, TypeOK, Inserted
  <2>2. \A k \in 1..MaxCalls : insert'[k] = insert[k] \/ (k = calls /\ insert'[k] = "sent")
    BY <2>1
  <2>3. Executed' = Executed
    BY <2>1, <2>2 DEF Executed
  <2>4. \A k \in 1..MaxCalls : insert'[k] # "none" => k <= calls
    BY <2>1, <2>2 DEF ProgramsInv, Inserted
  <2> QED
    BY <2>1, <2>3, <2>4 DEF ProgramsInv, Inserted
<1>6. CASE QueryReturns
  BY <1>6 DEF QueryReturns, Await, callVars, databaseVars, ProgramsInv, Typed, TypeOK, Inserted, Executed
<1>7. CASE PrintPage
  BY <1>7 DEF PrintPage, callVars, databaseVars, ProgramsInv, Typed, TypeOK, Inserted, Executed
<1>8. CASE Exit
  BY <1>8 DEF Exit, callVars, databaseVars, ProgramsInv, Typed, TypeOK, Inserted, Executed
<1>9. CASE Killed
  BY <1>9 DEF Killed, callVars, databaseVars, ProgramsInv, Typed, TypeOK, Inserted, Executed
<1>10. CASE Resubmit
  <2>1. /\ calls' = calls + 1 /\ calls' \in 1..MaxCalls /\ calls \in 1..MaxCalls
        /\ insert \in [1..MaxCalls -> {"none", "unsent", "sent", "executed", "rejected"}]
        /\ table' = table /\ query' = query
        /\ insert' = insert \/ (/\ insert' = [insert EXCEPT ![calls] = "unsent"]
                                /\ insert[calls] = "none")
    BY <1>10, CgiProgramsAssumption DEF Resubmit, ProgramsInv, Typed, TypeOK, Inserted
  <2>2. \A k \in 1..MaxCalls :
           insert'[k] = insert[k]
           \/ (k = calls /\ insert[k] = "none" /\ insert'[k] = "unsent")
    BY <2>1
  <2>3. Executed' = Executed
    BY <2>2 DEF Executed
  <2>4. \A k \in 1..MaxCalls : insert[k] # "none" => k <= calls
    BY DEF ProgramsInv, Inserted
  <2>5. \A k \in 1..MaxCalls : k = calls \/ k <= calls => k <= calls' /\ k # calls'
    BY <2>1
  <2>6. insert'[calls'] = "none"
    BY <2>1, <2>2, <2>4, <2>5
  <2>7. \A k \in 1..MaxCalls : insert'[k] # "none" => k <= calls'
    BY <2>2, <2>4, <2>5
  <2> QED
    BY <2>1, <2>3, <2>6, <2>7 DEF ProgramsInv, Inserted
<1>11. CASE DatabaseStep
  <2>1. PICK k \in 1..MaxCalls : ExecuteInsert(k)
    BY <1>11 DEF DatabaseStep
  <2>2. /\ insert[k] = "sent" /\ calls' = calls /\ pc' = pc
        /\ insert \in [1..MaxCalls -> {"none", "unsent", "sent", "executed", "rejected"}]
        /\ \A j \in 1..MaxCalls : insert[j] # "none" => j <= calls
        /\ pc \in {"start", "connect", "query"} => insert[calls] = "none"
        /\ table \in Seq(Fields) /\ query' = query /\ query \in Seq(STRING)
        /\ Plain(ValuesOf(query)) => Len(table) = Cardinality(Executed)
    BY <2>1 DEF ExecuteInsert, callVars, ProgramsInv, Typed, TypeOK, Inserted
  <2>3. Executed \in SUBSET (1..MaxCalls) /\ k \notin Executed
    BY <2>2 DEF Executed
  <2>4. \/ /\ insert' = [insert EXCEPT ![k] = "executed"]
           /\ \E rows \in Added(ValuesOf(query)) : table' = table \o rows
        \/ /\ insert' = [insert EXCEPT ![k] = "rejected"]
           /\ table' = table
    BY <2>1 DEF ExecuteInsert
  <2>5. \A j \in 1..MaxCalls : j # k => insert'[j] = insert[j]
    BY <2>2, <2>4
  <2>6. /\ \A j \in 1..MaxCalls : insert'[j] # "none" => j <= calls'
        /\ pc' \in {"start", "connect", "query"} => insert'[calls'] = "none"
    <3>1. calls \in 1..MaxCalls
      BY DEF ProgramsInv, Typed, TypeOK
    <3> QED
      BY <2>2, <2>5, <3>1
  <2>7. CASE table' = table /\ insert' = [insert EXCEPT ![k] = "rejected"]
    <3>1. Executed' = Executed
      BY <2>2, <2>5, <2>7 DEF Executed
    <3> QED
      BY <2>2, <2>6, <2>7, <3>1 DEF Inserted
  <2>8. ASSUME NEW rows \in Added(ValuesOf(query)), table' = table \o rows,
               insert' = [insert EXCEPT ![k] = "executed"]
        PROVE  Inserted'
    <3>1. Executed' = Executed \cup {k}
      BY <2>2, <2>5, <2>8 DEF Executed
    <3>2. IsFiniteSet(Executed)
      <4>1. IsFiniteSet(1..MaxCalls)
        BY CgiProgramsAssumption, FS_Interval
      <4> QED
        BY <2>3, <4>1, FS_Subset
    <3>3. Cardinality(Executed') = Cardinality(Executed) + 1
      BY <2>3, <3>1, <3>2, FS_AddElement
    <3>4. table' \in Seq(Fields) /\ (Plain(ValuesOf(query)) => Len(table') = Len(table) + 1)
      BY <2>2, <2>8, RowsAdded
    <3>5. Plain(ValuesOf(query)) => Len(table') = Cardinality(Executed')
      BY <2>2, <3>3, <3>4
    <3> QED
      BY <2>2, <2>6, <3>4, <3>5 DEF Inserted
  <2> QED
    BY <2>4, <2>7, <2>8
<1>12. CASE LoseConnection
  BY <1>12 DEF LoseConnection, callVars, databaseVars, ProgramsInv, Typed, TypeOK, Inserted, Executed
<1>13. CASE \E k \in 1..MaxCalls : LateQuery(k)
  <2>1. PICK k \in 1..MaxCalls : LateQuery(k)
    BY <1>13
  <2>2. /\ insert[k] = "unsent" /\ insert' = [insert EXCEPT ![k] = "sent"]
        /\ insert \in [1..MaxCalls -> {"none", "unsent", "sent", "executed", "rejected"}]
        /\ table' = table /\ query' = query /\ calls' = calls /\ pc' = pc
        /\ calls \in 1..MaxCalls
    BY <2>1 DEF LateQuery, callVars, ProgramsInv, Typed, TypeOK
  <2>3. \A j \in 1..MaxCalls :
           insert'[j] = insert[j] \/ (j = k /\ insert[j] = "unsent" /\ insert'[j] = "sent")
    BY <2>2
  <2>4. Executed' = Executed
    BY <2>3 DEF Executed
  <2>5. /\ \A j \in 1..MaxCalls : insert'[j] # "none" => j <= calls'
        /\ pc' \in {"start", "connect", "query"} => insert'[calls'] = "none"
    BY <2>2, <2>3 DEF ProgramsInv, Inserted
  <2> QED
    BY <2>2, <2>4, <2>5 DEF ProgramsInv, Inserted
<1> QED
  BY <1>1, <1>2, <1>3, <1>4, <1>5, <1>6, <1>7, <1>8, <1>9, <1>10, <1>11, <1>12, <1>13
  DEF Next, ProgramStep

LEMMA TypedStep ==
    ASSUME ProgramsInv, Next
    PROVE  Typed'
<1>1. CASE Start
  <2>1. ValuesOf(query) \in Fields
    BY ValuesType DEF ProgramsInv, Typed, TypeOK, Fields
  <2>2. DOMAIN ValuesOf(query) = 1..2
    BY <2>1 DEF Fields
  <2> QED
    BY <1>1, <2>1, <2>2 DEF Start, callVars, databaseVars, ProgramsInv, Typed, TypeOK
<1>2. CASE PrintFields
  BY <1>2 DEF PrintFields, callVars, databaseVars, ProgramsInv, Typed, TypeOK
<1>3. CASE PrintResults
  <2> DEFINE x == atoi(values[1])
             y == atoi(values[2])
  <2>1. x \in IntRange /\ y \in IntRange
    BY atoiType DEF ProgramsInv, Typed, Fields
  <2> HIDE DEF x, y
  <2>2. IntMax \in Nat /\ x \in Int /\ y \in Int
    BY <2>1, CgiProgramsAssumption DEF IntRange
  <2>3. ~Traps(x, y) => Divide(x, y) \in Int
    BY <2>1, <2>2, DivideIsQuotient DEF IntRange
  <2>4. x + y \in Int /\ x - y \in Int /\ x * y \in Int
    BY <2>2
  <2>5. \/ results' = results
        \/ /\ results' = <<ToInt(x + y), ToInt(x - y), ToInt(x * y), ToInt(Divide(x, y))>>
           /\ ~Traps(x, y)
    BY <1>3 DEF PrintResults, x, y
  <2>6. \A i \in DOMAIN results' : results'[i] \in IntRange
    <3>1. CASE results' = results
      BY <3>1 DEF ProgramsInv, Typed, TypeOK, IntRange
    <3>2. CASE /\ results' = <<ToInt(x + y), ToInt(x - y), ToInt(x * y), ToInt(Divide(x, y))>>
               /\ ~Traps(x, y)
      <4>1. /\ ToInt(x + y) \in IntRange /\ ToInt(x - y) \in IntRange
            /\ ToInt(x * y) \in IntRange /\ ToInt(Divide(x, y)) \in IntRange
        BY <2>3, <2>4, <3>2, ToIntRange
      <4> QED
        BY <3>2, <4>1
    <3> QED
      BY <2>5, <3>1, <3>2
  <2>7. /\ status' \in {"none", "zero", "SIGFPE", "killed"}
        /\ pc' \in {"ended", "exit"}
        /\ buffer' \in {buffer, <<"results">>} /\ page' = page /\ values' = values
        /\ UNCHANGED <<callVars, databaseVars>>
    BY <1>3 DEF PrintResults, callVars, databaseVars, ProgramsInv, Typed, TypeOK
  <2> QED
    BY <2>6, <2>7 DEF callVars, databaseVars, ProgramsInv, Typed, TypeOK, IntRange
<1>4. CASE Connect
  BY <1>4 DEF Connect, callVars, databaseVars, ProgramsInv, Typed, TypeOK
<1>5. CASE Query
  BY <1>5 DEF Query, callVars, databaseVars, ProgramsInv, Typed, TypeOK
<1>6. CASE QueryReturns
  BY <1>6 DEF QueryReturns, Await, callVars, databaseVars, ProgramsInv, Typed, TypeOK
<1>7. CASE PrintPage
  BY <1>7 DEF PrintPage, callVars, databaseVars, ProgramsInv, Typed, TypeOK
<1>8. CASE Exit
  <2>1. Stage' /\ status' = "zero" /\ program' = program /\ program \in {"cgi", "mysql_connect"}
    BY <1>8, StageStep DEF Exit, callVars, ProgramsInv, Typed, TypeOK
  <2>2. page' \in {<<"fields", "results">>, <<"registered">>}
    BY <2>1 DEF Stage
  <2> QED
    BY <1>8, <2>2 DEF Exit, callVars, databaseVars, ProgramsInv, Typed, TypeOK
<1>9. CASE Killed
  <2>1. kills' \in 0..calls' /\ lost' \in 0..calls'
    <3>1. Counted' /\ status' = "killed"
      BY <1>9, CountedStep DEF Killed
    <3>2. /\ kills' = kills + 1 /\ lost' = lost /\ calls' = calls
          /\ kills \in Nat /\ lost \in Nat /\ lost \in 0..calls /\ calls \in Nat
      BY <1>9 DEF Killed, ProgramsInv, Typed, TypeOK
    <3>3. kills' + lost' = calls'
      BY <3>1 DEF Counted
    <3> QED
      BY <3>2, <3>3
  <2> QED
    BY <1>9, <2>1 DEF Killed, callVars, databaseVars, ProgramsInv, Typed, TypeOK
<1>10. CASE Resubmit
  <2>1. calls' \in 1..MaxCalls /\ kills' \in 0..calls' /\ lost' \in 0..calls'
    BY <1>10, CgiProgramsAssumption DEF Resubmit, ProgramsInv, Typed, TypeOK
  <2>2. values' = [i \in 1..2 |-> <<>>] /\ <<>> \in Seq(STRING)
    BY <1>10, EmptySeq DEF Resubmit
  <2>3. values' \in Fields /\ DOMAIN values' = 1..2
    BY <2>2 DEF Fields
  <2> QED
    BY <1>10, <2>1, <2>3 DEF Resubmit, callVars, databaseVars, ProgramsInv, Typed, TypeOK
<1>11. CASE DatabaseStep
  BY <1>11 DEF DatabaseStep, ExecuteInsert, callVars, databaseVars, ProgramsInv, Typed, TypeOK
<1>12. CASE LoseConnection
  BY <1>12 DEF LoseConnection, callVars, databaseVars, ProgramsInv, Typed, TypeOK
<1>13. CASE \E k \in 1..MaxCalls : LateQuery(k)
  BY <1>13 DEF LateQuery, callVars, databaseVars, ProgramsInv, Typed, TypeOK
<1> QED
  BY <1>1, <1>2, <1>3, <1>4, <1>5, <1>6, <1>7, <1>8, <1>9, <1>10, <1>11, <1>12, <1>13
  DEF Next, ProgramStep

-----------------------------------------------------------------------------
(* The theorems. *)

LEMMA ProgramsInvariant == Spec => []ProgramsInv
<1>1. ASSUME ProgramsInv, [Next]_vars
      PROVE  ProgramsInv'
  <2>1. CASE Next
    <3>1. Typed' /\ Stage' /\ Counted' /\ Inserted' /\ Rows' /\ Known' /\ Computed'
      BY <1>1, <2>1, TypedStep, StageStep, CountedStep, InsertedStep, RowsStep, KnownStep,
         ComputedStep
    <3> QED
      BY <3>1 DEF ProgramsInv
  <2>2. CASE UNCHANGED vars
    BY <1>1, <2>2
       DEF vars, ProgramsInv, Typed, TypeOK, Stage, Counted, Inserted, Executed, Rows, Known,
           Computed
  <2> QED
    BY <1>1, <2>1, <2>2
<1> QED
  BY ProgramsInvInit, <1>1, PTL DEF Spec

\* Types: no result the calculator shows is outside of int, and the two
\* programs print nothing but their pages or the flushed beginning of one.
THEOREM ProgramsTypeCorrect == Spec => []TypeOK
<1>1. ProgramsInv => TypeOK
  BY DEF ProgramsInv, Typed
<1> QED
  BY ProgramsInvariant, <1>1, PTL

\* Every row that mysql_connect.cc stores has the two values of the query if
\* it is n=v&p=w, and an empty field if it is not, for queries of any length,
\* unless the values (or, in the second case, the query) have characters that
\* SQL takes for its own: the text it puts together escapes nothing.
THEOREM ProgramsRowsAsAsked == Spec => []RowsAsAsked
<1>1. ASSUME ProgramsInv
      PROVE  RowsAsAsked
  <2> DEFINE row == ValuesOf(query)
  <2>1. query \in Seq(STRING) /\ Asked(query, row)
    BY <1>1, ValuesAsAsked DEF ProgramsInv, Typed, TypeOK
  <2>2. Plain(row) => \A r \in DOMAIN table : table[r] = row
    BY <1>1 DEF ProgramsInv, Rows
  <2>3. (\A c \in Special : At(query, c) = {}) => Plain(row)
    BY <2>1, ValuesPlain
  <2> HIDE DEF row
  <2>4. CASE Said(query) # {}
    <3>1. Said(query) = {row}
      BY <2>1, <2>4 DEF Asked
    <3> QED
      BY <2>2, <2>4, <3>1 DEF RowsAsAsked
  <2>5. CASE Said(query) = {}
    <3>1. \E i \in 1..2 : row[i] = <<>> /\ (At(query, "&") = {} => row[3 - i] = <<>>)
      BY <2>1, <2>5 DEF Asked
    <3> QED
      BY <2>2, <2>3, <2>5, <3>1 DEF RowsAsAsked
  <2> QED
    BY <2>4, <2>5
<1> QED
  BY ProgramsInvariant, <1>1, PTL

\* The calculator is killed by SIGFPE exactly if there is no quotient that is
\* an int, and what it shows is right wherever the exact result is an int, for
\* any two numbers and any width of int.
THEOREM ProgramsResultsRight == Spec => []ResultsRight
<1>1. ASSUME ProgramsInv
      PROVE  ResultsRight
  <2> SUFFICES ASSUME program = "cgi", status \in {"zero", "SIGFPE"}
               PROVE  LET x == atoi(values[1])
                          y == atoi(values[2])
                      IN  /\ status = "SIGFPE" <=> ~\E q \in IntRange : IsQuotient(q, x, y)
                          /\ status = "SIGFPE" => page = <<"fields">>
                          /\ status = "zero" =>
                                /\ page = <<"fields", "results">>
                                /\ IsQuotient(results[4], x, y)
                                /\ \A i \in 1..3 :
                                      LET exact == <<x + y, x - y, x * y>>[i]
                                      IN  exact \in IntRange => results[i] = exact
    BY DEF ResultsRight, IntRange
  <2> DEFINE x == atoi(values[1])
             y == atoi(values[2])
  <2>1. x \in IntRange /\ y \in IntRange
    BY <1>1, atoiType DEF ProgramsInv, Typed, Fields
  <2>2. /\ status = "SIGFPE" => Traps(x, y)
        /\ status = "zero" =>
              /\ ~Traps(x, y)
              /\ results = <<ToInt(x + y), ToInt(x - y), ToInt(x * y), ToInt(Divide(x, y))>>
    BY <1>1 DEF ProgramsInv, Computed
  <2>3. /\ status = "SIGFPE" => page = <<"fields">>
        /\ status = "zero" => page = <<"fields", "results">>
    BY <1>1 DEF ProgramsInv, Stage
  <2> HIDE DEF x, y
  <2>4. x \in Int /\ y \in Int
    BY <2>1, CgiProgramsAssumption DEF IntRange
  <2>5. x + y \in Int /\ x - y \in Int /\ x * y \in Int
    BY <2>4
  <2>6. CASE status = "SIGFPE"
    <3>1. ~\E q \in IntRange : IsQuotient(q, x, y)
      BY <2>1, <2>2, <2>6, TrapsOnlyWithoutQuotient
    <3> QED
      BY <2>3, <2>6, <3>1 DEF x, y
  <2>7. CASE status = "zero"
    <3>1. Divide(x, y) \in IntRange /\ IsQuotient(Divide(x, y), x, y)
      BY <2>1, <2>2, <2>7, DivideIsQuotient
    <3>2. Divide(x, y) \in Int
      BY <3>1, CgiProgramsAssumption DEF IntRange
    <3>3. results[4] = Divide(x, y)
      BY <2>2, <2>7, <3>1, <3>2, ToIntRange
    <3>4. /\ x + y \in IntRange => results[1] = x + y
          /\ x - y \in IntRange => results[2] = x - y
          /\ x * y \in IntRange => results[3] = x * y
      <4>1. results[1] = ToInt(x + y) /\ results[2] = ToInt(x - y) /\ results[3] = ToInt(x * y)
        BY <2>2, <2>7
      <4> QED
        BY <2>5, <4>1, ToIntRange
    <3>5. \A i \in 1..3 : <<x + y, x - y, x * y>>[i] \in IntRange =>
                             results[i] = <<x + y, x - y, x * y>>[i]
      <4> DEFINE exact == <<x + y, x - y, x * y>>
      <4>1. exact[1] = x + y /\ exact[2] = x - y /\ exact[3] = x * y
        OBVIOUS
      <4> HIDE DEF exact
      <4>2. \A i \in 1..3 : i = 1 \/ i = 2 \/ i = 3
        OBVIOUS
      <4>3. \A i \in 1..3 : exact[i] \in IntRange => results[i] = exact[i]
        BY <3>4, <4>1, <4>2
      <4> QED
        BY <4>3 DEF exact
    <3>6. status # "SIGFPE" /\ \E q \in IntRange : IsQuotient(q, x, y)
      BY <2>7, <3>1
    <3>7. page = <<"fields", "results">> /\ IsQuotient(results[4], x, y)
      BY <2>3, <2>7, <3>1, <3>3
    <3> QED
      BY <3>5, <3>6, <3>7 DEF x, y
  <2> QED
    BY <2>6, <2>7
<1> QED
  BY ProgramsInvariant, <1>1, PTL

\* The page says that the registration succeeded although the insert was not
\* executed only if the database refused, rejected or lost something, and a
\* program ends without the page only if it was killed.
THEOREM ProgramsPageTruth == Spec => []PageTruth
<1>1. ProgramsInv => PageTruth
  <2> SUFFICES ASSUME ProgramsInv, program = "mysql_connect", pc = "ended"
               PROVE  /\ page = <<"registered">> =>
                            insert[calls] = "executed" \/ insert[calls] = "rejected"
                            \/ conn \in {"refused", "lost"}
                      /\ page = <<>> => status = "killed"
    BY DEF PageTruth
  <2>1. /\ status # "none" /\ status \in {"none", "zero", "killed"}
        /\ page = IF status = "zero" THEN <<"registered">> ELSE <<>>
    BY DEF ProgramsInv, Stage
  <2>2. CASE status = "zero"
    <3>1. page = <<"registered">> /\ page # <<>>
      BY <2>1, <2>2
    <3>2. insert[calls] \in {"executed", "rejected"} \/ conn \in {"refused", "lost"}
      BY <2>2 DEF ProgramsInv, Known
    <3> QED
      BY <3>1, <3>2
  <2>3. CASE status = "killed"
    <3>1. page = <<>> /\ page # <<"registered">>
      BY <2>1, <2>3
    <3> QED
      BY <2>3, <3>1
  <2> QED
    BY <2>1, <2>2, <2>3
<1> QED
  BY ProgramsInvariant, <1>1, PTL

\* No call inserts twice: there are more rows than one only if calls were
\* killed, or the user did not see their page for another reason, for any
\* number of calls, and plain values.
THEOREM ProgramsDuplicateOnlyIfUntold == Spec => []DuplicateOnlyIfUntold
<1>1. ASSUME ProgramsInv
      PROVE  DuplicateOnlyIfUntold
  <2> SUFFICES ASSUME Plain(ValuesOf(query))
               PROVE  Len(table) <= 1 + kills + lost
    BY DEF DuplicateOnlyIfUntold
  <2>1. /\ calls \in 1..MaxCalls /\ kills \in 0..calls /\ lost \in 0..calls
        /\ kills + lost = IF status = "killed" THEN calls ELSE calls - 1
        /\ \A k \in 1..MaxCalls : insert[k] # "none" => k <= calls
        /\ Len(table) = Cardinality(Executed)
    BY <1>1 DEF ProgramsInv, Typed, TypeOK, Counted, Inserted
  <2>2. Executed \in SUBSET (1..calls)
    BY <2>1 DEF Executed
  <2>3. calls \in Nat /\ kills \in Nat /\ lost \in Nat
    BY <2>1
  <2>4. IsFiniteSet(1..calls) /\ Cardinality(1..calls) = calls
    <3>1. IsFiniteSet(1..calls)
      BY <2>3, FS_Interval
    <3>2. Cardinality(1..calls) = IF 1 > calls THEN 0 ELSE calls - 1 + 1
      BY <2>3, FS_Interval
    <3> QED
      BY <2>1, <2>3, <3>1, <3>2
  <2>5. Cardinality(Executed) \in Nat /\ Cardinality(Executed) <= calls
    BY <2>2, <2>4, FS_Subset, FS_CardinalityType
  <2>6. calls <= 1 + kills + lost
    <3>1. kills + lost = calls \/ kills + lost = calls - 1
      BY <2>1
    <3> QED
      BY <2>3, <3>1
  <2> QED
    BY <2>1, <2>3, <2>5, <2>6
<1> QED
  BY ProgramsInvariant, <1>1, PTL

=============================================================================
