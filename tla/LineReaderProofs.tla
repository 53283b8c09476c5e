--------------------------- MODULE LineReaderProofs ---------------------------
(***************************************************************************)
(* Proofs about LineReader: its types, and that it returns the lines of    *)
(* the stream.  The reference Split is a recursive function; that it       *)
(* exists, and what a byte more does to it, is shown with least            *)
(* counterexamples.                                                        *)
(***************************************************************************)
EXTENDS LineReader, LeastNumbers, SequenceTheorems

-----------------------------------------------------------------------------
(* The recursive function of Splits exists and is unique. *)

\* There is a function that does what Splits says, on any interval.
LEMMA SplitsExist ==
    ASSUME NEW s, NEW n \in Nat
    PROVE  \E f : f = [i \in 0..n |->
                        IF i = 0 THEN NoLines ELSE WithByte(f[i - 1], s, i)]
<1> DEFINE Some(m) == \E f : f = [i \in 0..m |->
                        IF i = 0 THEN NoLines ELSE WithByte(f[i - 1], s, i)]
           S == {m \in Nat : ~Some(m)}
<1>1. Some(0)
  <2> DEFINE g == [i \in 0..0 |-> NoLines]
  <2>1. g = [i \in 0..0 |-> IF i = 0 THEN NoLines ELSE WithByte(g[i - 1], s, i)]
    OBVIOUS
  <2> QED
    BY <2>1
<1>2. ASSUME NEW m \in Nat, Some(m)
      PROVE  Some(m + 1)
  <2>1. PICK f : f = [i \in 0..m |->
                       IF i = 0 THEN NoLines ELSE WithByte(f[i - 1], s, i)]
    BY <1>2
  <2> DEFINE g == [i \in 0..(m + 1) |-> IF i = m + 1 THEN WithByte(f[m], s, i) ELSE f[i]]
  <2>2. ASSUME NEW i \in 0..(m + 1)
        PROVE  g[i] = IF i = 0 THEN NoLines ELSE WithByte(g[i - 1], s, i)
    <3>1. CASE i = m + 1
      <4>1. i - 1 = m /\ m \in 0..(m + 1) /\ m # m + 1 /\ i # 0
        BY <3>1
      <4>2. g[i] = WithByte(f[m], s, i) /\ g[i - 1] = f[m]
        BY <3>1, <4>1
      <4> QED
        BY <4>1, <4>2
    <3>2. CASE i # m + 1 /\ i # 0
      <4>1. i \in 0..m /\ i - 1 \in 0..(m + 1) /\ i - 1 # m + 1
        BY <3>2
      <4>2. g[i] = f[i] /\ g[i - 1] = f[i - 1]
        BY <3>2, <4>1
      <4>3. f[i] = WithByte(f[i - 1], s, i)
        BY <2>1, <3>2, <4>1
      <4> QED
        BY <3>2, <4>2, <4>3
    <3>3. CASE i = 0
      <4>1. g[i] = f[i] /\ f[i] = NoLines
        BY <2>1, <3>3
      <4> QED
        BY <3>3, <4>1
    <3> QED
      BY <3>1, <3>2, <3>3
  <2>3. g = [i \in 0..(m + 1) |-> IF i = 0 THEN NoLines ELSE WithByte(g[i - 1], s, i)]
    <3> HIDE DEF g
    <3>1. g = [i \in 0..(m + 1) |-> g[i]]
      BY DEF g
    <3> QED
      BY <2>2, <3>1
  <2> QED
    BY <2>3
<1> HIDE DEF Some
<1>3. S = {}
  <2> SUFFICES ASSUME S # {} PROVE FALSE
    OBVIOUS
  <2>1. PICK m \in S : \A k \in S : m <= k
    BY LeastNumber
  <2>2. m # 0
    BY <1>1
  <2>3. m - 1 \in Nat /\ ~(m <= m - 1) /\ (m - 1) + 1 = m
    BY <2>2
  <2>4. Some(m - 1)
    BY <2>1, <2>3
  <2> QED
    BY <1>2, <2>3, <2>4
<1>4. Some(n)
  BY <1>3
<1> QED
  BY <1>4 DEF Some

\* What Splits is, step by step.
LEMMA SplitsSteps ==
    ASSUME NEW s, Len(s) \in Nat
    PROVE  /\ Splits(s)[0] = NoLines
           /\ \A i \in 1..Len(s) : Splits(s)[i] = WithByte(Splits(s)[i - 1], s, i)
<1>1. Splits(s) = [i \in 0..Len(s) |->
                     IF i = 0 THEN NoLines ELSE WithByte(Splits(s)[i - 1], s, i)]
  BY SplitsExist, Zenon DEF Splits
<1> QED
  BY <1>1

-----------------------------------------------------------------------------
(* What Split says of a stream to which a byte is added. *)

Byte == Char \cup {CR, LF}

\* A byte is judged by itself and the one before it.
LEMMA WithBytePrefix ==
    ASSUME NEW s \in Seq(Byte), NEW c \in Byte, NEW b, NEW i \in 1..Len(s)
    PROVE  WithByte(b, Append(s, c), i) = WithByte(b, s, i)
<1>1. Append(s, c)[i] = s[i] /\ (i > 1 => Append(s, c)[i - 1] = s[i - 1])
  BY AppendProperties
<1> QED
  BY <1>1 DEF WithByte

LEMMA SplitsPrefix ==
    ASSUME NEW s \in Seq(Byte), NEW c \in Byte
    PROVE  \A i \in 0..Len(s) : Splits(Append(s, c))[i] = Splits(s)[i]
<1> DEFINE t == Append(s, c)
           S == {i \in 0..Len(s) : Splits(t)[i] # Splits(s)[i]}
<1>1. Len(s) \in Nat /\ Len(t) = Len(s) + 1 /\ Len(t) \in Nat
  BY AppendProperties, LenProperties
<1>2. /\ Splits(s)[0] = NoLines /\ Splits(t)[0] = NoLines
      /\ \A i \in 1..Len(s) : Splits(s)[i] = WithByte(Splits(s)[i - 1], s, i)
      /\ \A i \in 1..Len(t) : Splits(t)[i] = WithByte(Splits(t)[i - 1], t, i)
  BY <1>1, SplitsSteps
<1>3. \A i \in 1..Len(s) : \A b : WithByte(b, t, i) = WithByte(b, s, i)
  BY WithBytePrefix
<1>4. SUFFICES ASSUME S # {} PROVE FALSE
  OBVIOUS
<1> HIDE DEF t
<1>a. S \in SUBSET Nat
  BY <1>1
<1>5. PICK m \in S : \A k \in S : m <= k
  <2> HIDE DEF S
  <2> QED
    BY <1>4, <1>a, LeastNumber
<1>6. m # 0
  BY <1>2
<1>7. m \in 1..Len(s) /\ m \in 1..Len(t) /\ m - 1 \in 0..Len(s) /\ ~(m <= m - 1)
  BY <1>1, <1>6
<1>8. Splits(t)[m - 1] = Splits(s)[m - 1]
  BY <1>5, <1>7
<1>9. Splits(t)[m] = Splits(s)[m]
  BY <1>2, <1>3, <1>7, <1>8
<1> QED
  BY <1>9

LEMMA SplitAppend ==
    ASSUME NEW s \in Seq(Byte), NEW c \in Byte
    PROVE  Split(Append(s, c)) = WithByte(Split(s), Append(s, c), Len(s) + 1)
<1> DEFINE t == Append(s, c)
<1>1. Len(s) \in Nat /\ Len(t) = Len(s) + 1 /\ Len(t) \in Nat
  BY AppendProperties, LenProperties
<1>2. Splits(t)[Len(s)] = Splits(s)[Len(s)]
  BY <1>1, SplitsPrefix
<1>3. Splits(t)[Len(t)] = WithByte(Splits(t)[Len(t) - 1], t, Len(t))
  <2> HIDE DEF t
  <2>1. \A i \in 1..Len(t) : Splits(t)[i] = WithByte(Splits(t)[i - 1], t, i)
    BY <1>1, SplitsSteps
  <2>2. Len(t) \in 1..Len(t)
    BY <1>1
  <2> QED
    BY <2>1, <2>2
<1>4. Len(t) - 1 = Len(s)
  BY <1>1
<1> HIDE DEF t
<1>5. Split(t) = WithByte(Split(s), t, Len(s) + 1)
  BY <1>1, <1>2, <1>3, <1>4 DEF Split
<1> QED
  BY <1>5 DEF t

Cut == [lines : Seq(Seq(Byte)), rest : Seq(Char)]

LEMMA WithByteType ==
    ASSUME NEW b \in Cut, NEW s \in Seq(Byte), NEW i \in 1..Len(s)
    PROVE  WithByte(b, s, i) \in Cut
<1>1. b.lines \in Seq(Seq(Byte)) /\ b.rest \in Seq(Char)
      /\ b = [lines |-> b.lines, rest |-> b.rest]
  BY DEF Cut
<1>2. CASE s[i] \in Char
  <2>1. WithByte(b, s, i) = [lines |-> b.lines, rest |-> Append(b.rest, s[i])]
    BY <1>1, <1>2 DEF WithByte
  <2>2. Append(b.rest, s[i]) \in Seq(Char)
    BY <1>1, <1>2, AppendProperties
  <2> QED
    BY <1>1, <2>1, <2>2 DEF Cut
<1>3. CASE s[i] \notin Char /\ s[i] = LF /\ i > 1 /\ s[i - 1] = CR
  BY <1>3 DEF WithByte
<1>4. CASE s[i] \notin Char /\ ~(s[i] = LF /\ i > 1 /\ s[i - 1] = CR)
  <2>1. WithByte(b, s, i) = [lines |-> Append(b.lines, Append(b.rest, LF)), rest |-> <<>>]
    BY <1>4 DEF WithByte
  <2>2. b.rest \in Seq(Byte) /\ LF \in Byte
    BY <1>1 DEF Byte
  <2>3. Append(b.rest, LF) \in Seq(Byte)
    BY <2>2, AppendProperties
  <2>4. Append(b.lines, Append(b.rest, LF)) \in Seq(Seq(Byte))
    BY <1>1, <2>3, AppendProperties
  <2> QED
    BY <2>1, <2>4 DEF Cut
<1> QED
  BY <1>2, <1>3, <1>4

LEMMA SplitType ==
    ASSUME NEW s \in Seq(Byte)
    PROVE  Split(s) \in Cut
<1> DEFINE S == {i \in 0..Len(s) : Splits(s)[i] \notin Cut}
<1>1. Len(s) \in Nat
  BY LenProperties
<1>2. /\ Splits(s)[0] = NoLines
      /\ \A i \in 1..Len(s) : Splits(s)[i] = WithByte(Splits(s)[i - 1], s, i)
  BY <1>1, SplitsSteps
<1>3. NoLines \in Cut
  BY DEF NoLines, Cut
<1>4. S = {}
  <2>1. SUFFICES ASSUME S # {} PROVE FALSE
    OBVIOUS
  <2>a. S \in SUBSET Nat
    BY <1>1
  <2>2. PICK m \in S : \A k \in S : m <= k
    <3> HIDE DEF S
    <3> QED
      BY <2>1, <2>a, LeastNumber
  <2>3. m # 0
    BY <1>2, <1>3
  <2>4. m \in 1..Len(s) /\ m - 1 \in 0..Len(s) /\ ~(m <= m - 1)
    BY <1>1, <2>3
  <2>5. Splits(s)[m - 1] \in Cut
    BY <2>2, <2>4
  <2>6. Splits(s)[m] \in Cut
    BY <1>2, <2>4, <2>5, WithByteType
  <2> QED
    BY <2>6
<1> QED
  BY <1>1, <1>4 DEF Split

\* The three things a byte can do.
LEMMA SplitChar ==
    ASSUME NEW s \in Seq(Byte), NEW c \in Char
    PROVE  /\ Split(Append(s, c)).lines = Split(s).lines
           /\ Split(Append(s, c)).rest = Append(Split(s).rest, c)
<1>1. c \in Byte /\ Append(s, c)[Len(s) + 1] = c
  BY AppendProperties DEF Byte
<1>2. Split(s) \in Cut
  BY SplitType
<1>3. Split(Append(s, c)) = [Split(s) EXCEPT !.rest = Append(@, c)]
  BY <1>1, SplitAppend DEF WithByte
<1> QED
  BY <1>2, <1>3 DEF Cut

LEMMA SplitLineFeed ==
    ASSUME NEW s \in Seq(Byte), s # <<>>, s[Len(s)] = CR
    PROVE  Split(Append(s, LF)) = Split(s)
<1>1. LF \in Byte /\ Append(s, LF)[Len(s) + 1] = LF /\ LF \notin Char
  BY AppendProperties, LineReaderAssumption DEF Byte
<1>2. Len(s) \in Nat /\ Len(s) > 0
  BY EmptySeq, LenProperties
<1>3. Append(s, LF)[Len(s)] = CR /\ (Len(s) + 1) - 1 = Len(s) /\ Len(s) + 1 > 1
  BY <1>1, <1>2, AppendProperties
<1> QED
  BY <1>1, <1>3, SplitAppend DEF WithByte

LEMMA SplitLineEnd ==
    ASSUME NEW s \in Seq(Byte), NEW c \in {CR, LF},
           c = CR \/ s = <<>> \/ s[Len(s)] # CR
    PROVE  /\ Split(Append(s, c)).lines = Append(Split(s).lines, Append(Split(s).rest, LF))
           /\ Split(Append(s, c)).rest = <<>>
<1>1. c \in Byte /\ Append(s, c)[Len(s) + 1] = c /\ c \notin Char
  BY AppendProperties, LineReaderAssumption DEF Byte
<1>2. Len(s) \in Nat /\ (s = <<>> => Len(s) = 0)
  BY LenProperties
<1>3. ~(c = LF /\ Len(s) + 1 > 1 /\ Append(s, c)[(Len(s) + 1) - 1] = CR)
  <2>1. CASE c = CR
    BY <2>1, LineReaderAssumption
  <2>2. CASE s = <<>>
    BY <1>2, <2>2
  <2>3. CASE s # <<>> /\ s[Len(s)] # CR
    <3>1. Len(s) \in 1..Len(s) /\ (Len(s) + 1) - 1 = Len(s)
      BY <1>2, <2>3, EmptySeq
    <3>2. Append(s, c)[Len(s)] # CR
      BY <1>1, <2>3, <3>1, AppendProperties
    <3> QED
      BY <3>1, <3>2
  <2> QED
    BY <2>1, <2>2, <2>3
<1>4. Split(Append(s, c)) =
        [lines |-> Append(Split(s).lines, Append(Split(s).rest, LF)), rest |-> <<>>]
  BY <1>1, <1>3, SplitAppend DEF WithByte
<1> QED
  BY <1>4

-----------------------------------------------------------------------------
(* Prefixes of sequences. *)

LEMMA PrefixType ==
    ASSUME NEW S, NEW s \in Seq(S), NEW n \in 0..Len(s)
    PROVE  /\ SubSeq(s, 1, n) \in Seq(S) /\ Len(SubSeq(s, 1, n)) = n
           /\ \A i \in 1..n : SubSeq(s, 1, n)[i] = s[i]
<1>1. Len(s) \in Nat
  BY LenProperties
<1>2. \A i \in 1..n : s[i] \in S
  BY <1>1, ElementOfSeq
<1> QED
  BY <1>1, <1>2, SubSeqProperties

\* The prefix that is one element longer.
LEMMA PrefixGrows ==
    ASSUME NEW S, NEW s \in Seq(S), NEW n \in Nat, n < Len(s)
    PROVE  SubSeq(s, 1, n + 1) = Append(SubSeq(s, 1, n), s[n + 1])
<1> DEFINE a == SubSeq(s, 1, n)
           b == SubSeq(s, 1, n + 1)
<1>1. Len(s) \in Nat /\ n \in 0..Len(s) /\ n + 1 \in 0..Len(s) /\ n + 1 \in 1..Len(s)
  BY LenProperties
<1>2. s[n + 1] \in S
  BY <1>1, ElementOfSeq
<1>3. a \in Seq(S) /\ Len(a) = n /\ \A i \in 1..n : a[i] = s[i]
  BY <1>1, PrefixType
<1>4. b \in Seq(S) /\ Len(b) = n + 1 /\ \A i \in 1..(n + 1) : b[i] = s[i]
  BY <1>1, PrefixType
<1> HIDE DEF a, b
<1> DEFINE c == Append(a, s[n + 1])
<1>5. /\ c \in Seq(S) /\ Len(c) = n + 1 /\ c[n + 1] = s[n + 1]
      /\ \A i \in 1..n : c[i] = a[i]
  BY <1>2, <1>3, AppendProperties
<1>6. \A i \in 1..(n + 1) : c[i] = b[i]
  BY <1>3, <1>4, <1>5
<1> HIDE DEF c
<1>7. b = c
  BY <1>4, <1>5, <1>6, SeqEqual
<1> QED
  BY <1>7 DEF a, b, c

LEMMA PrefixStays ==
    ASSUME NEW S, NEW s \in Seq(S), NEW e \in S, NEW n \in 0..Len(s)
    PROVE  SubSeq(Append(s, e), 1, n) = SubSeq(s, 1, n)
<1> DEFINE a == SubSeq(Append(s, e), 1, n)
           b == SubSeq(s, 1, n)
<1>1. /\ Append(s, e) \in Seq(S) /\ Len(Append(s, e)) = Len(s) + 1 /\ Len(s) \in Nat
      /\ \A i \in 1..Len(s) : Append(s, e)[i] = s[i]
  BY AppendProperties, LenProperties
<1>2. n \in 0..Len(Append(s, e))
  BY <1>1
<1>3. a \in Seq(S) /\ Len(a) = n /\ \A i \in 1..n : a[i] = Append(s, e)[i]
  BY <1>1, <1>2, PrefixType
<1>4. b \in Seq(S) /\ Len(b) = n /\ \A i \in 1..n : b[i] = s[i]
  BY PrefixType
<1>5. \A i \in 1..n : a[i] = b[i]
  BY <1>1, <1>3, <1>4
<1> HIDE DEF a, b
<1>6. a = b
  BY <1>3, <1>4, <1>5, SeqEqual
<1> QED
  BY <1>6 DEF a, b

-----------------------------------------------------------------------------
(* The invariant.  Between two bytes the reader has returned the lines of   *)
(* what it took.  While it looks behind a CR, the CR is taken and what was  *)
(* returned is that of the bytes before it.                                 *)

Prefix(n) == SubSeq(stream, 1, n)
Returned(split) == lines = split.lines /\ out = split.rest

\* A CR was the last byte, and its line has been returned: an LF that follows
\* will not be taken, because the reader has looked, or because recv fails.
CRDone == taken > 0 /\ stream[taken] = CR =>
             (taken < Len(stream) /\ NextByte # LF) \/ Ended

Between == pc = "recv" => Returned(Split(Prefix(taken))) /\ CRDone

BehindCR ==
    pc \in {"peek", "swallow"} =>
        taken > 0 /\ stream[taken] = CR /\ Returned(Split(Prefix(taken - 1)))

AtLF == pc = "swallow" => ch = LF /\ taken < Len(stream) /\ NextByte = LF

Over ==
    pc = "over" =>
        /\ peer # "open"
        /\ peer = "shut" => taken = Len(stream) /\ lines = Split(Prefix(taken)).lines

LineInv == TypeOK /\ Between /\ BehindCR /\ AtLF /\ Over

\* What taking byte n + 1 of the stream does to the lines.
LEMMA TakeByte ==
    ASSUME TypeOK, NEW n \in Nat, n < Len(stream)
    PROVE  LET c == stream[n + 1]
               before == Split(Prefix(n))
               after == Split(Prefix(n + 1))
           IN  /\ c \in Byte
               /\ c \in Char =>
                     after.lines = before.lines /\ after.rest = Append(before.rest, c)
               /\ c = LF /\ n > 0 /\ stream[n] = CR => after = before
               /\ c \in {CR, LF} /\ (c = CR \/ n = 0 \/ stream[n] # CR) =>
                     /\ after.lines = Append(before.lines, Append(before.rest, LF))
                     /\ after.rest = <<>>
<1> DEFINE s == Prefix(n)
           c == stream[n + 1]
<1>1. stream \in Seq(Byte) /\ Len(stream) \in Nat
  BY LenProperties DEF TypeOK, Byte
<1>2. n \in 0..Len(stream) /\ n + 1 \in 1..Len(stream)
  BY <1>1
<1>3. c \in Byte
  BY <1>1, <1>2, ElementOfSeq
<1>4. Prefix(n + 1) = Append(s, c)
  BY <1>1, PrefixGrows DEF Prefix
<1>5. s \in Seq(Byte) /\ Len(s) = n /\ \A i \in 1..n : s[i] = stream[i]
  BY <1>1, <1>2, PrefixType DEF Prefix
<1>6. (n = 0 => s = <<>>) /\ (n > 0 => s # <<>> /\ s[Len(s)] = stream[n])
  <2>1. n > 0 => n \in 1..n
    OBVIOUS
  <2>2. s = <<>> <=> n = 0
    BY <1>5, EmptySeq
  <2> QED
    BY <1>5, <2>1, <2>2
<1> HIDE DEF s, c
<1>7. c \in Char =>
        /\ Split(Append(s, c)).lines = Split(s).lines
        /\ Split(Append(s, c)).rest = Append(Split(s).rest, c)
  BY <1>5, SplitChar
<1>8. c = LF /\ n > 0 /\ stream[n] = CR => Split(Append(s, c)) = Split(s)
  BY <1>5, <1>6, SplitLineFeed
<1>9. c \in {CR, LF} /\ (c = CR \/ n = 0 \/ stream[n] # CR) =>
        /\ Split(Append(s, c)).lines = Append(Split(s).lines, Append(Split(s).rest, LF))
        /\ Split(Append(s, c)).rest = <<>>
  <2>1. n = 0 \/ n > 0
    OBVIOUS
  <2> QED
    BY <1>5, <1>6, <2>1, SplitLineEnd
<1> QED
  BY <1>3, <1>4, <1>7, <1>8, <1>9 DEF s, c

\* PushBack(LF) behind a CR returns the line the CR ends.
LEMMA PushedBehindCR ==
    ASSUME TypeOK, BehindCR, pc \in {"peek", "swallow"}, PushBack(LF)
    PROVE  /\ lines' = Split(Prefix(taken)).lines /\ out' = Split(Prefix(taken)).rest
           /\ out' = <<>> /\ pc' = "recv"
<1>1. taken \in Nat /\ taken > 0 /\ taken <= Len(stream) /\ stream[taken] = CR
  BY LenProperties DEF TypeOK, BehindCR
<1>2. /\ taken - 1 \in Nat /\ taken - 1 < Len(stream) /\ (taken - 1) + 1 = taken
  BY <1>1, LenProperties DEF TypeOK
<1>3. lines = Split(Prefix(taken - 1)).lines /\ out = Split(Prefix(taken - 1)).rest
  BY DEF BehindCR, Returned
<1>4. /\ Split(Prefix(taken)).lines =
            Append(Split(Prefix(taken - 1)).lines, Append(Split(Prefix(taken - 1)).rest, LF))
      /\ Split(Prefix(taken)).rest = <<>>
  BY <1>1, <1>2, TakeByte
<1>5. lines' = Append(lines, Append(out, LF)) /\ out' = <<>> /\ pc' = "recv"
  BY DEF PushBack
<1> QED
  BY <1>3, <1>4, <1>5

LEMMA LineInvInit == Init => LineInv
<1> SUFFICES ASSUME Init PROVE LineInv
  OBVIOUS
<1> USE DEF Init
<1>1. TypeOK
  <2>1. stream \in Seq(Char \cup {CR, LF}) /\ Len(stream) = 0 /\ out \in Seq(Char)
    BY EmptySeq
  <2> QED
    BY <2>1, LineReaderAssumption DEF TypeOK
<1>2. Between
  <2>1. Prefix(taken) \in Seq(Byte) /\ Len(Prefix(taken)) = 0
    <3>1. stream \in Seq(Byte) /\ Len(stream) = 0
      BY EmptySeq
    <3>2. taken \in 0..Len(stream)
      BY <3>1
    <3> QED
      BY <3>1, <3>2, PrefixType DEF Prefix
  <2>2. Split(Prefix(taken)) = NoLines
    BY <2>1, SplitsSteps DEF Split
  <2> QED
    BY <2>2 DEF Between, Returned, NoLines, CRDone
<1>3. BehindCR /\ AtLF /\ Over
  BY DEF BehindCR, AtLF, Over
<1> QED
  BY <1>1, <1>2, <1>3 DEF LineInv

-----------------------------------------------------------------------------
(* The client's steps. *)

LEMMA SendPreserves ==
    ASSUME LineInv, NEW c \in Char \cup {CR, LF}, ClientSend(c)
    PROVE  LineInv'
<1>1. /\ stream \in Seq(Byte) /\ Len(stream) \in Nat /\ Len(stream) < MaxBytes
      /\ taken \in 0..Len(stream) /\ c \in Byte /\ MaxBytes \in Nat
      /\ stream' = Append(stream, c) /\ peer = "open" /\ peer' = peer
      /\ taken' = taken /\ pc' = pc /\ ch' = ch /\ out' = out /\ lines' = lines
  BY LenProperties, LineReaderAssumption
     DEF LineInv, TypeOK, Byte, ClientSend, readerUnchanged
<1>2. /\ stream' \in Seq(Byte) /\ Len(stream') = Len(stream) + 1
      /\ \A i \in 1..Len(stream) : stream'[i] = stream[i]
  BY <1>1, AppendProperties
<1>3. \A n \in 0..Len(stream) : SubSeq(stream', 1, n) = SubSeq(stream, 1, n)
  BY <1>1, PrefixStays
<1>4. TypeOK'
  <2>1. stream' \in Seq(Char \cup {CR, LF}) /\ Len(stream') <= MaxBytes /\ taken \in 0..Len(stream')
    BY <1>1, <1>2 DEF Byte
  <2> QED
    BY <1>1, <2>1 DEF LineInv, TypeOK
<1>5. Prefix(taken)' = Prefix(taken)
  BY <1>1, <1>3 DEF Prefix
<1>6. taken > 0 => taken - 1 \in 0..Len(stream) /\ stream'[taken] = stream[taken]
  BY <1>1, <1>2
<1>7. taken > 0 => Prefix(taken - 1)' = Prefix(taken - 1)
  BY <1>1, <1>3, <1>6 DEF Prefix
<1>8. taken < Len(stream) => taken' < Len(stream') /\ NextByte' = NextByte
  <2>1. taken < Len(stream) => taken + 1 \in 1..Len(stream) /\ taken < Len(stream) + 1
    BY <1>1
  <2> QED
    BY <1>1, <1>2, <2>1 DEF NextByte
<1>9. ~Ended
  BY <1>1 DEF Ended
<1>10. Between'
  <2> SUFFICES ASSUME pc = "recv"
               PROVE  Returned(Split(Prefix(taken)))' /\ CRDone'
    BY <1>1 DEF Between
  <2>1. Returned(Split(Prefix(taken))) /\ CRDone
    BY DEF LineInv, Between
  <2>2. Returned(Split(Prefix(taken)))'
    BY <1>1, <1>5, <2>1 DEF Returned
  <2>3. CRDone'
    BY <1>1, <1>6, <1>8, <1>9, <2>1 DEF CRDone
  <2> QED
    BY <2>2, <2>3
<1>11. BehindCR'
  BY <1>1, <1>6, <1>7 DEF LineInv, BehindCR, Returned
<1>12. AtLF'
  BY <1>1, <1>8 DEF LineInv, AtLF
<1>13. Over'
  BY <1>1 DEF LineInv, Over
<1> QED
  BY <1>4, <1>10, <1>11, <1>12, <1>13 DEF LineInv

LEMMA EndsPreserves ==
    ASSUME LineInv, ClientEnds
    PROVE  LineInv'
<1>1. /\ peer = "open" /\ peer' \in {"shut", "reset"} /\ stream' = stream
      /\ taken' = taken /\ pc' = pc /\ ch' = ch /\ out' = out /\ lines' = lines
  BY DEF ClientEnds, readerUnchanged
<1>2. TypeOK'
  BY <1>1 DEF LineInv, TypeOK
<1>3. ~Ended /\ NextByte' = NextByte
  BY <1>1 DEF Ended, NextByte
<1>4. Between'
  BY <1>1, <1>3 DEF LineInv, Between, Returned, Prefix, CRDone
<1>5. BehindCR'
  BY <1>1 DEF LineInv, BehindCR, Returned, Prefix
<1>6. AtLF'
  BY <1>1, <1>3 DEF LineInv, AtLF
<1>7. Over'
  BY <1>1 DEF LineInv, Over
<1> QED
  BY <1>2, <1>4, <1>5, <1>6, <1>7 DEF LineInv

-----------------------------------------------------------------------------
(* The reader's steps. *)

LEMMA RecvPreserves ==
    ASSUME LineInv, Recv
    PROVE  LineInv'
<1> DEFINE c == stream[taken + 1]
<1>1. /\ pc = "recv" /\ taken < Len(stream) /\ peer # "reset" /\ taken' = taken + 1
      /\ ch' = c /\ stream' = stream /\ peer' = peer
      /\ IF c = CR THEN pc' = "peek" /\ out' = out /\ lines' = lines ELSE PushBack(c)
  BY DEF Recv, Available, NextByte
<1>2. /\ taken \in Nat /\ Len(stream) \in Nat /\ TypeOK
      /\ taken + 1 \in 0..Len(stream) /\ taken + 1 > 0 /\ (taken + 1) - 1 = taken
  BY <1>1, LenProperties DEF LineInv, TypeOK
<1>3. lines = Split(Prefix(taken)).lines /\ out = Split(Prefix(taken)).rest
  BY <1>1 DEF LineInv, Between, Returned
<1>4. c \in Byte
  BY <1>1, <1>2, TakeByte
<1>5. ~Ended
  BY <1>1, <1>2 DEF Ended
<1>6. c = LF => taken = 0 \/ stream[taken] # CR
  BY <1>1, <1>2, <1>5 DEF LineInv, Between, CRDone, NextByte
<1>7. out \in Seq(Char)
  BY DEF LineInv, TypeOK
<1>8. CASE c = CR
  <2>1. pc' = "peek" /\ out' = out /\ lines' = lines
    BY <1>1, <1>8
  <2>2. TypeOK'
    BY <1>1, <1>2, <1>4, <2>1 DEF TypeOK, Byte
  <2>3. BehindCR'
    <3>1. taken' > 0 /\ stream'[taken'] = CR
      BY <1>1, <1>2, <1>8
    <3>2. Prefix(taken - 1)' = Prefix(taken)
      BY <1>1, <1>2 DEF Prefix
    <3>3. Returned(Split(Prefix(taken - 1)))'
      BY <1>3, <2>1, <3>2 DEF Returned
    <3> QED
      BY <3>1, <3>3 DEF BehindCR
  <2> QED
    BY <2>1, <2>2, <2>3 DEF LineInv, Between, AtLF, Over
<1>9. CASE c # CR
  <2>1. PushBack(c)
    BY <1>1, <1>9
  <2>2. Prefix(taken)' = Prefix(taken + 1)
    BY <1>1 DEF Prefix
  <2>3. pc' = "recv"
    BY <2>1 DEF PushBack
  <2>4. /\ lines' = Split(Prefix(taken + 1)).lines
        /\ out' = Split(Prefix(taken + 1)).rest
        /\ out' \in Seq(Char)
    <3>1. CASE c = LF
      <4>1. lines' = Append(lines, Append(out, LF)) /\ out' = <<>>
        BY <2>1, <3>1 DEF PushBack
      <4>2. /\ Split(Prefix(taken + 1)).lines =
                 Append(Split(Prefix(taken)).lines, Append(Split(Prefix(taken)).rest, LF))
            /\ Split(Prefix(taken + 1)).rest = <<>>
        BY <1>1, <1>2, <1>6, <3>1, TakeByte
      <4> QED
        BY <1>3, <4>1, <4>2
    <3>2. CASE c # LF
      <4>1. c \in Char
        BY <1>4, <1>9, <3>2 DEF Byte
      <4>2. lines' = lines /\ out' = Append(out, c)
        BY <2>1, <3>2 DEF PushBack
      <4>3. /\ Split(Prefix(taken + 1)).lines = Split(Prefix(taken)).lines
            /\ Split(Prefix(taken + 1)).rest = Append(Split(Prefix(taken)).rest, c)
        BY <1>1, <1>2, <4>1, TakeByte
      <4>4. Append(out, c) \in Seq(Char)
        BY <1>7, <4>1, AppendProperties
      <4> QED
        BY <1>3, <4>2, <4>3, <4>4
    <3> QED
      BY <3>1, <3>2
  <2>5. TypeOK'
    BY <1>1, <1>2, <1>4, <2>3, <2>4 DEF TypeOK, Byte
  <2>6. CRDone'
    BY <1>1, <1>9 DEF CRDone
  <2>7. Between'
    BY <2>2, <2>4, <2>6 DEF Between, Returned
  <2> QED
    BY <2>3, <2>5, <2>7 DEF LineInv, BehindCR, AtLF, Over
<1> QED
  BY <1>8, <1>9

LEMMA RecvEndedPreserves ==
    ASSUME LineInv, RecvEnded
    PROVE  LineInv'
<1>1. /\ pc = "recv" /\ Ended /\ pc' = "over" /\ stream' = stream /\ peer' = peer
      /\ taken' = taken /\ ch' = ch /\ out' = out /\ lines' = lines
  BY DEF RecvEnded
<1>2. TypeOK'
  BY <1>1 DEF LineInv, TypeOK
<1>3. lines = Split(Prefix(taken)).lines
  BY <1>1 DEF LineInv, Between, Returned
<1>4. Prefix(taken)' = Prefix(taken)
  BY <1>1 DEF Prefix
<1>5. peer # "open" /\ (peer = "shut" => taken = Len(stream))
  BY <1>1 DEF Ended
<1>6. Over'
  BY <1>1, <1>3, <1>4, <1>5 DEF Over
<1> QED
  BY <1>1, <1>2, <1>6 DEF LineInv, Between, BehindCR, AtLF

LEMMA PeekPreserves ==
    ASSUME LineInv, Peek
    PROVE  LineInv'
<1>1. /\ pc = "peek" /\ ch' = LF /\ stream' = stream /\ peer' = peer /\ taken' = taken
      /\ taken > 0 /\ stream[taken] = CR /\ Returned(Split(Prefix(taken - 1)))
  BY DEF Peek, LineInv, BehindCR
<1>2. LF \in Byte
  BY DEF Byte
<1>3. ASSUME PushBack(LF), Ended \/ (Available /\ NextByte # LF)
      PROVE  LineInv'
  <2>1. /\ lines' = Split(Prefix(taken)).lines /\ out' = Split(Prefix(taken)).rest
        /\ out' = <<>> /\ pc' = "recv"
    BY <1>1, <1>3, PushedBehindCR DEF LineInv
  <2>2. TypeOK'
    BY <1>1, <1>2, <2>1 DEF LineInv, TypeOK, Byte
  <2>3. Prefix(taken)' = Prefix(taken) /\ NextByte' = NextByte /\ (Ended' <=> Ended)
    BY <1>1 DEF Prefix, NextByte, Ended
  <2>4. CRDone'
    BY <1>1, <1>3, <2>3 DEF CRDone, Available
  <2>5. Between'
    BY <2>1, <2>3, <2>4 DEF Between, Returned
  <2> QED
    BY <2>1, <2>2, <2>5 DEF LineInv, BehindCR, AtLF, Over
<1>4. ASSUME Available, NextByte = LF, pc' = "swallow", out' = out, lines' = lines
      PROVE  LineInv'
  <2>1. TypeOK'
    BY <1>1, <1>2, <1>4 DEF LineInv, TypeOK, Byte
  <2>2. Prefix(taken - 1)' = Prefix(taken - 1) /\ NextByte' = NextByte
    BY <1>1 DEF Prefix, NextByte
  <2>3. BehindCR'
    BY <1>1, <1>4, <2>2 DEF BehindCR, Returned
  <2>4. AtLF'
    BY <1>1, <1>4, <2>2 DEF AtLF, Available
  <2> QED
    BY <1>4, <2>1, <2>3, <2>4 DEF LineInv, Between, Over
<1> QED
  BY <1>3, <1>4 DEF Peek

LEMMA SwallowPreserves ==
    ASSUME LineInv, Swallow
    PROVE  LineInv'
<1>1. /\ pc = "swallow" /\ ch = LF /\ taken < Len(stream) /\ stream[taken + 1] = LF
      /\ taken > 0 /\ stream[taken] = CR
  BY DEF Swallow, LineInv, AtLF, BehindCR, NextByte
<1>2. PushBack(LF) /\ ch' = ch /\ stream' = stream /\ peer' = peer
  BY <1>1 DEF Swallow
<1>3. /\ taken \in Nat /\ Len(stream) \in Nat /\ TypeOK
      /\ taken + 1 \in 0..Len(stream) /\ taken # Len(stream) /\ LF # CR
  BY <1>1, LenProperties, LineReaderAssumption DEF LineInv, TypeOK
<1>4. /\ lines' = Split(Prefix(taken)).lines /\ out' = Split(Prefix(taken)).rest
      /\ out' = <<>> /\ pc' = "recv"
  BY <1>1, <1>2, PushedBehindCR DEF LineInv
<1>5. CASE Available /\ taken' = taken + 1
  <2>1. Split(Prefix(taken + 1)) = Split(Prefix(taken))
    BY <1>1, <1>3, TakeByte
  <2>2. Prefix(taken)' = Prefix(taken + 1)
    BY <1>2, <1>5 DEF Prefix
  <2>3. CRDone'
    BY <1>1, <1>2, <1>3, <1>5 DEF CRDone
  <2>4. Between'
    BY <1>4, <2>1, <2>2, <2>3 DEF Between, Returned
  <2>5. TypeOK'
    BY <1>2, <1>3, <1>4, <1>5 DEF TypeOK
  <2> QED
    BY <1>4, <2>4, <2>5 DEF LineInv, BehindCR, AtLF, Over
<1>6. CASE Ended /\ taken' = taken
  <2>1. Prefix(taken)' = Prefix(taken) /\ Ended'
    BY <1>2, <1>6 DEF Prefix, Ended
  <2>2. Between'
    BY <1>4, <2>1 DEF Between, Returned, CRDone
  <2>3. TypeOK'
    BY <1>2, <1>3, <1>4, <1>6 DEF TypeOK
  <2> QED
    BY <1>4, <2>2, <2>3 DEF LineInv, BehindCR, AtLF, Over
<1> QED
  BY <1>5, <1>6 DEF Swallow

-----------------------------------------------------------------------------
LEMMA LineInvariant == Spec => []LineInv
<1>1. ASSUME LineInv, [Next]_vars
      PROVE  LineInv'
  <2>1. CASE \E c \in Char \cup {CR, LF} : ClientSend(c)
    BY <1>1, <2>1, SendPreserves
  <2>2. CASE ClientEnds
    BY <1>1, <2>2, EndsPreserves
  <2>3. CASE Recv
    BY <1>1, <2>3, RecvPreserves
  <2>4. CASE RecvEnded
    BY <1>1, <2>4, RecvEndedPreserves
  <2>5. CASE Peek
    BY <1>1, <2>5, PeekPreserves
  <2>6. CASE Swallow
    BY <1>1, <2>6, SwallowPreserves
  <2>7. CASE UNCHANGED vars
    BY <1>1, <2>7
       DEF vars, LineInv, TypeOK, Between, BehindCR, AtLF, Over, Returned, Prefix,
           CRDone, NextByte, Ended
  <2> QED
    BY <1>1, <2>1, <2>2, <2>3, <2>4, <2>5, <2>6, <2>7 DEF Next, ReaderStep
<1> QED
  BY LineInvInit, <1>1, PTL DEF Spec

\* Types: what is collected of a line never contains a CR or an LF, and the
\* reader never takes more bytes than were sent.
THEOREM LineTypeCorrect == Spec => []TypeOK
<1>1. LineInv => TypeOK
  BY DEF LineInv
<1> QED
  BY LineInvariant, <1>1, PTL

\* ReadInLine returns the lines of what it took out of the socket, whatever
\* ends them and however the bytes arrive, for streams of any length.
THEOREM LineReadsTheLines == Spec => []ReadsTheLines
<1>1. LineInv => ReadsTheLines
  BY DEF LineInv, Between, Returned, ReadsTheLines, Prefix
<1> QED
  BY LineInvariant, <1>1, PTL

\* When the client has ended its stream in order, ReadInLine has returned
\* every line of it before it reports the end.
THEOREM LineReadsToTheEnd == Spec => []ReadsToTheEnd
<1>1. ASSUME LineInv
      PROVE  ReadsToTheEnd
  <2> SUFFICES ASSUME pc = "over", peer = "shut"
               PROVE  lines = Split(stream).lines
    BY DEF ReadsToTheEnd
  <2>1. taken = Len(stream) /\ lines = Split(Prefix(taken)).lines
    BY <1>1 DEF LineInv, Over
  <2>2. stream \in Seq(Byte) /\ Len(stream) \in Nat /\ Len(stream) \in 0..Len(stream)
    BY <1>1, LenProperties DEF LineInv, TypeOK, Byte
  <2>3. /\ Prefix(taken) \in Seq(Byte) /\ Len(Prefix(taken)) = Len(stream)
        /\ \A i \in 1..Len(stream) : Prefix(taken)[i] = stream[i]
    BY <2>1, <2>2, PrefixType DEF Prefix
  <2>4. Prefix(taken) = stream
    BY <2>2, <2>3, SeqEqual
  <2> QED
    BY <2>1, <2>4
<1> QED
  BY LineInvariant, <1>1, PTL

=============================================================================
