--------------------------- MODULE ComposerProofs ---------------------------
(***************************************************************************)
(* Proofs about the composer.  First its text, ComposerText and the word   *)
(* wrap it rests on, for any text, any sizes of the pane and any           *)
(* characters that can be typed: a text is reasoned about by the index of  *)
(* its characters, into which what the wrap and the cursor make of bytes   *)
(* is turned.  Then the chat what is composed goes to, Cockpit, for every  *)
(* set of chats and any number of changes of the stored lists.             *)
(***************************************************************************)
EXTENDS ComposerText, Cockpit, FiniteSetTheorems, WellFoundedInduction, NaturalsInduction, TLAPS

\* A nonempty set of naturals has a least element.
LEMMA LeastExists ==
  ASSUME NEW S \in SUBSET Nat, S # {}
  PROVE  \E m \in S : \A y \in S : m <= y
<1>1. PICK m \in S : \A y \in S : ~(<<y, m>> \in OpToRel(<, Nat))
  BY NatLessThanWellFounded, WFMin
<1>2. ASSUME NEW y \in S, y < m
      PROVE  FALSE
  <2>1. <<y, m>> \in OpToRel(<, Nat)
    BY <1>2, Zenon DEF OpToRel
  <2> QED
    BY <1>1, <2>1
<1> QED
  BY <1>2

\* Induction up to n, for what holds on a set.
LEMMA UpTo ==
  ASSUME NEW n \in Nat, NEW G, 0 \in G, \A m \in 1 .. n : m - 1 \in G => m \in G
  PROVE  \A m \in 0 .. n : m \in G
<1> DEFINE S == (0 .. n) \ G
<1>1. S \in SUBSET Nat
  OBVIOUS
<1> HIDE DEF S
<1>2. SUFFICES ASSUME S # {} PROVE FALSE
  BY DEF S
<1>3. PICK m \in S : \A y \in S : m <= y
  BY <1>1, <1>2, LeastExists
<1>4. m \in 1 .. n /\ m - 1 \in 0 .. n
  BY <1>3 DEF S
<1>5. m - 1 \in G
  BY <1>1, <1>3, <1>4 DEF S
<1> QED
  BY <1>3, <1>4, <1>5 DEF S

\* The greater and the lesser of two.
LEMMA OfTwo ==
  ASSUME NEW a \in Int, NEW b \in Int
  PROVE  /\ Max({a, b}) = IF a >= b THEN a ELSE b
         /\ Min({a, b}) = IF a <= b THEN a ELSE b
<1>1. \A x : (x \in {a, b} /\ \A y \in {a, b} : x >= y) <=> x = IF a >= b THEN a ELSE b
  OBVIOUS
<1>2. \A x : (x \in {a, b} /\ \A y \in {a, b} : x =< y) <=> x = IF a <= b THEN a ELSE b
  OBVIOUS
<1> QED
  BY <1>1, <1>2 DEF Max, Min

-----------------------------------------------------------------------------
(* Sums of rows.                                                           *)

\* What a function that adds up the first i of n numbers is.
Sums(n, rows, sum) ==
  sum = [i \in 0 .. n |-> IF i = 0 THEN 0 ELSE sum[i - 1] + rows[i]]

LEMMA SumsExist ==
  ASSUME NEW n \in Nat, NEW rows, \A i \in 1 .. n : rows[i] \in Nat
  PROVE  \E sum \in [0 .. n -> Nat] : Sums(n, rows, sum)
<1> DEFINE good(m) == \E sum \in [0 .. m -> Nat] : Sums(m, rows, sum)
           G == {m \in 0 .. n : good(m)}
<1>1. good(0)
  <2>1. Sums(0, rows, [i \in 0 .. 0 |-> 0])
    BY DEF Sums
  <2> QED
    BY <2>1
<1>2. ASSUME NEW m \in 1 .. n, good(m - 1)
      PROVE  good(m)
  <2>1. PICK sum \in [0 .. (m - 1) -> Nat] : Sums(m - 1, rows, sum)
    BY <1>2
  <2> DEFINE next == [i \in 0 .. m |-> IF i = m THEN sum[m - 1] + rows[m] ELSE sum[i]]
  <2>2. sum[m - 1] + rows[m] \in Nat /\ \A i \in 0 .. m : i # m => sum[i] \in Nat
    OBVIOUS
  <2>3. next \in [0 .. m -> Nat]
    BY <2>2
  <2>4. Sums(m, rows, next)
    <3>1. \A i \in 0 .. (m - 1) : sum[i] = IF i = 0 THEN 0 ELSE sum[i - 1] + rows[i]
      BY <2>1 DEF Sums
    <3>2. ASSUME NEW i \in 0 .. m
          PROVE  next[i] = IF i = 0 THEN 0 ELSE next[i - 1] + rows[i]
      <4>1. CASE i = m
        BY <4>1
      <4>2. CASE i # m
        <5>1. i \in 0 .. (m - 1) /\ (i # 0 => i - 1 \in 0 .. m /\ i - 1 # m)
          BY <4>2
        <5> QED
          BY <3>1, <4>2, <5>1
      <4> QED
        BY <4>1, <4>2
    <3> QED
      BY <3>2 DEF Sums
  <2> HIDE DEF next
  <2> QED
    BY <2>3, <2>4
<1> HIDE DEF good
<1>3. 0 \in G /\ \A m \in 1 .. n : m - 1 \in G => m \in G
  BY <1>1, <1>2
<1> HIDE DEF G
<1>4. n \in G
  BY <1>3, UpTo
<1> QED
  BY <1>4 DEF G, good

\* The greatest of a set of indices, which exists.
LEMMA Greatest ==
  ASSUME NEW n \in Nat, NEW S \in SUBSET (0 .. n), S # {}
  PROVE  Max(S) \in S /\ \A y \in S : y <= Max(S)
<1> DEFINE T == {n - y : y \in S}
<1>1. T \in SUBSET Nat /\ T # {}
  <2>1. \A y \in S : n - y \in Nat
    OBVIOUS
  <2> QED
    BY <2>1
<1>2. PICK m \in T : \A y \in T : m <= y
  <2> HIDE DEF T
  <2> QED BY <1>1, LeastExists
<1>3. PICK x \in S : m = n - x
  BY <1>2
<1>4. \A y \in S : y <= x
  BY <1>2, <1>3
<1>5. \A y \in S : x >= y
  BY <1>4
<1>6. /\ Max(S) \in S /\ \A y \in S : Max(S) >= y
  BY <1>5 DEF Max
<1> QED
  BY <1>6

\* The least of a set of indices.
LEMMA Least ==
  ASSUME NEW S \in SUBSET Nat, S # {}
  PROVE  Min(S) \in S /\ \A y \in S : Min(S) <= y
<1>1. \E m \in S : \A y \in S : m =< y
  BY LeastExists
<1> QED
  BY <1>1 DEF Min

-----------------------------------------------------------------------------
(* Bytes and columns of a part of a text.                                  *)

LEMMA SumsFacts ==
  ASSUME NEW n \in Nat, NEW rows, \A i \in 1 .. n : rows[i] \in Nat, NEW sum, Sums(n, rows, sum)
  PROVE  /\ sum[0] = 0
         /\ \A i \in 0 .. n : sum[i] \in Nat
         /\ \A i \in 1 .. n : sum[i] = sum[i - 1] + rows[i]
<1>1. \A k \in 0 .. n : sum[k] = IF k = 0 THEN 0 ELSE sum[k - 1] + rows[k]
  BY DEF Sums
<1> DEFINE G == {k \in 0 .. n : sum[k] \in Nat}
<1>2. 0 \in G /\ \A m \in 1 .. n : m - 1 \in G => m \in G
  BY <1>1
<1> HIDE DEF G
<1>3. \A m \in 0 .. n : m \in G
  BY <1>2, UpTo
<1> QED
  BY <1>1, <1>3 DEF G

\* What adding up over a part of a sequence gives: the difference of two of the sums.
PartOf(n, rows, i, m, part) ==
  /\ n \in Nat /\ i \in Nat /\ m \in Nat /\ i + m <= n
  /\ \A k \in 1 .. n : rows[k] \in Nat
  /\ \A k \in 1 .. m : part[k] = rows[i + k]

LEMMA SumsOfPart ==
  ASSUME NEW n, NEW rows, NEW i, NEW m, NEW part, PartOf(n, rows, i, m, part),
         NEW sum, Sums(n, rows, sum), NEW other, Sums(m, part, other)
  PROVE  other[m] = sum[i + m] - sum[i]
<1> USE DEF PartOf
<1>1. /\ \A k \in 0 .. n : sum[k] \in Nat
      /\ \A k \in 1 .. n : sum[k] = sum[k - 1] + rows[k]
  BY SumsFacts
<1>2. \A k \in 0 .. m : other[k] = IF k = 0 THEN 0 ELSE other[k - 1] + part[k]
  BY DEF Sums
<1> DEFINE G == {k \in 0 .. m : other[k] = sum[i + k] - sum[i]}
<1>3. 0 \in G
  BY <1>1, <1>2
<1>4. ASSUME NEW k \in 1 .. m, k - 1 \in G
      PROVE  k \in G
  <2>1. other[k] = other[k - 1] + part[k] /\ part[k] = rows[i + k]
    BY <1>2
  <2>2. i + k \in 1 .. n /\ (i + k) - 1 = i + (k - 1) /\ i + (k - 1) \in 0 .. n /\ i \in 0 .. n
    OBVIOUS
  <2>3. sum[i + k] = sum[i + (k - 1)] + rows[i + k]
    BY <1>1, <2>2
  <2>4. other[k - 1] = sum[i + (k - 1)] - sum[i]
    BY <1>4
  <2>5. sum[i + (k - 1)] \in Nat /\ sum[i] \in Nat /\ rows[i + k] \in Nat
    BY <1>1, <2>2
  <2> QED
    BY <2>1, <2>3, <2>4, <2>5
<1> HIDE DEF G
<1>5. m \in G
  BY <1>3, <1>4, UpTo
<1> QED
  BY <1>5 DEF G

LEMMA CharFacts ==
  ASSUME NEW c
  PROVE  Size(c) \in Nat \ {0} /\ Columns(c) \in Nat /\ IsSpace(c) \in BOOLEAN
<1>1. Size(c) \in {1, 2, 3}
  BY DEF Size
<1>2. Columns(c) \in {0, 1, 2}
  BY DEF Columns
<1> QED
  BY <1>1, <1>2 DEF IsSpace

LEMMA BytesIsSum ==
  ASSUME NEW s \in Seq(Chars)
  PROVE  \E sum : Sums(Len(s), [i \in 1 .. Len(s) |-> Size(s[i])], sum) /\ Bytes(s) = sum[Len(s)]
<1> DEFINE n == Len(s)
           rows == [i \in 1 .. n |-> Size(s[i])]
           g == CHOOSE f : f = [i \in 0 .. n |-> IF i = 0 THEN 0 ELSE f[i - 1] + Size(s[i])]
<1>1. n \in Nat /\ \A i \in 1 .. n : rows[i] \in Nat
  BY CharFacts
<1>2. Bytes(s) = g[n]
  BY DEF Bytes
<1>3. \A f : Sums(n, rows, f) <=> f = [i \in 0 .. n |-> IF i = 0 THEN 0 ELSE f[i - 1] + Size(s[i])]
  <2>1. \A f : [i \in 0 .. n |-> IF i = 0 THEN 0 ELSE f[i - 1] + Size(s[i])]
                  = [i \in 0 .. n |-> IF i = 0 THEN 0 ELSE f[i - 1] + rows[i]]
    BY <1>1
  <2> QED
    BY <2>1 DEF Sums
<1> HIDE DEF rows, n
<1>4. PICK f \in [0 .. n -> Nat] : Sums(n, rows, f)
  BY <1>1, SumsExist
<1>5. Sums(n, rows, g)
  BY <1>3, <1>4
<1> HIDE DEF g
<1> QED
  BY <1>2, <1>5 DEF n, rows

LEMMA ColsIsSum ==
  ASSUME NEW s \in Seq(Chars)
  PROVE  \E sum : Sums(Len(s), [i \in 1 .. Len(s) |-> Columns(s[i])], sum) /\ Cols(s) = sum[Len(s)]
<1> DEFINE n == Len(s)
           rows == [i \in 1 .. n |-> Columns(s[i])]
           g == CHOOSE f : f = [i \in 0 .. n |-> IF i = 0 THEN 0 ELSE f[i - 1] + Columns(s[i])]
<1>1. n \in Nat /\ \A i \in 1 .. n : rows[i] \in Nat
  BY CharFacts
<1>2. Cols(s) = g[n]
  BY DEF Cols
<1>3. \A f : Sums(n, rows, f) <=> f = [i \in 0 .. n |-> IF i = 0 THEN 0 ELSE f[i - 1] + Columns(s[i])]
  <2>1. \A f : [i \in 0 .. n |-> IF i = 0 THEN 0 ELSE f[i - 1] + Columns(s[i])]
                  = [i \in 0 .. n |-> IF i = 0 THEN 0 ELSE f[i - 1] + rows[i]]
    BY <1>1
  <2> QED
    BY <2>1 DEF Sums
<1> HIDE DEF rows, n
<1>4. PICK f \in [0 .. n -> Nat] : Sums(n, rows, f)
  BY <1>1, SumsExist
<1>5. Sums(n, rows, g)
  BY <1>3, <1>4
<1> HIDE DEF g
<1> QED
  BY <1>2, <1>5 DEF n, rows

LEMMA BytesFacts ==
  ASSUME NEW s \in Seq(Chars)
  PROVE  /\ ByteAt(s, 0) = 0 /\ Bytes(s) = ByteAt(s, Len(s))
         /\ \A i \in 0 .. Len(s) : ByteAt(s, i) \in Nat
         /\ \A i \in 1 .. Len(s) : ByteAt(s, i) = ByteAt(s, i - 1) + Size(s[i])
         /\ \A i, j \in 0 .. Len(s) : i <= j => Bytes(SubSeq(s, i + 1, j)) = ByteAt(s, j) - ByteAt(s, i)
<1> DEFINE n == Len(s)
           rows == [i \in 1 .. n |-> Size(s[i])]
<1>1. n \in Nat /\ \A i \in 1 .. n : rows[i] \in Nat
  BY CharFacts
<1>2. PICK sum : Sums(n, rows, sum) /\ Bytes(s) = sum[n]
  BY BytesIsSum
<1>3. ASSUME NEW i \in 0 .. n, NEW j \in i .. n
      PROVE  Bytes(SubSeq(s, i + 1, j)) = sum[j] - sum[i] /\ sum[i] \in Nat /\ sum[j] \in Nat
  <2> DEFINE t == SubSeq(s, i + 1, j)
             part == [k \in 1 .. Len(t) |-> Size(t[k])]
  <2>1. t \in Seq(Chars) /\ Len(t) = j - i /\ \A k \in 1 .. (j - i) : t[k] = s[i + k]
    OBVIOUS
  <2> HIDE DEF t
  <2>2. PICK other : Sums(j - i, part, other) /\ Bytes(t) = other[j - i]
    BY <2>1, BytesIsSum
  <2>3. \A k \in 1 .. (j - i) : part[k] = rows[i + k]
    BY <2>1
  <2> HIDE DEF part, rows, n
  <2>4. other[j - i] = sum[j] - sum[i] /\ sum[i] \in Nat /\ sum[j] \in Nat
    <3>1. Sums(n, rows, sum) /\ Sums(j - i, part, other)
      BY <1>2, <2>2
    <3>2. i \in Nat /\ j - i \in Nat /\ i + (j - i) <= n /\ i + (j - i) = j /\ {i, j} \subseteq 0 .. n
      BY <1>1
    <3>3. ASSUME NEW m \in Nat, m = j - i
          PROVE  other[m] = sum[i + m] - sum[i]
      <4>1. \A k \in 1 .. m : part[k] = rows[i + k]
        BY <2>3, <3>3
      <4>2. Sums(m, part, other) /\ i + m <= n
        BY <3>1, <3>2, <3>3
      <4>3. PartOf(n, rows, i, m, part)
        BY <1>1, <3>2, <4>1, <4>2 DEF PartOf
      <4> QED
        BY <3>1, <4>2, <4>3, SumsOfPart
    <3>4. sum[i] \in Nat /\ sum[j] \in Nat
      BY <1>1, <3>1, <3>2, SumsFacts
    <3> QED
      BY <3>2, <3>3, <3>4
  <2> QED
    BY <2>2, <2>4 DEF t
<1>4. /\ sum[0] = 0
      /\ \A i \in 1 .. n : sum[i] = sum[i - 1] + Size(s[i])
  <2> HIDE DEF rows, n
  <2>1. sum[0] = 0 /\ \A i \in 1 .. n : sum[i] = sum[i - 1] + rows[i]
    BY <1>1, <1>2, SumsFacts
  <2> QED
    BY <2>1 DEF rows
<1>5. \A i \in 0 .. n : ByteAt(s, i) = sum[i] /\ sum[i] \in Nat
  <2>1. ASSUME NEW i \in 0 .. n
        PROVE  ByteAt(s, i) = Bytes(SubSeq(s, 0 + 1, i))
    <3>1. Min({i, n}) = i
      <4>1. i \in Int /\ n \in Int /\ i <= n
        BY <1>1
      <4> HIDE DEF n
      <4> QED
        BY <4>1, OfTwo
    <3> QED
      BY <3>1 DEF ByteAt
  <2>2. ASSUME NEW i \in 0 .. n
        PROVE  Bytes(SubSeq(s, 0 + 1, i)) = sum[i] - sum[0] /\ sum[i] \in Nat
    <3>1. 0 \in 0 .. n /\ i \in 0 .. n
      BY <1>1
    <3> HIDE DEF n
    <3> QED
      BY <1>3, <3>1
  <2> HIDE DEF n
  <2> QED
    BY <1>4, <2>1, <2>2
<1> HIDE DEF rows
<1>6. \A i \in 1 .. n : i - 1 \in 0 .. n /\ i \in 0 .. n
  BY <1>1
<1>7. 0 \in 0 .. n /\ n \in 0 .. n
  BY <1>1
<1> HIDE DEF n
<1>8. \A i, j \in 0 .. n : i <= j => Bytes(SubSeq(s, i + 1, j)) = ByteAt(s, j) - ByteAt(s, i)
  BY <1>1, <1>3, <1>5
<1> QED
  BY <1>2, <1>4, <1>5, <1>6, <1>7, <1>8 DEF n

\* The columns of the first i characters.
Left(s, i) == Cols(SubSeq(s, 1, i))

LEMMA ColsFacts ==
  ASSUME NEW s \in Seq(Chars)
  PROVE  /\ Left(s, 0) = 0 /\ Cols(s) = Left(s, Len(s))
         /\ \A i \in 0 .. Len(s) : Left(s, i) \in Nat
         /\ \A i \in 1 .. Len(s) : Left(s, i) = Left(s, i - 1) + Columns(s[i])
         /\ \A i, j \in 0 .. Len(s) : i <= j => Cols(SubSeq(s, i + 1, j)) = Left(s, j) - Left(s, i)
<1> DEFINE n == Len(s)
           rows == [i \in 1 .. n |-> Columns(s[i])]
<1>1. n \in Nat /\ \A i \in 1 .. n : rows[i] \in Nat
  BY CharFacts
<1>2. PICK sum : Sums(n, rows, sum) /\ Cols(s) = sum[n]
  BY ColsIsSum
<1>3. ASSUME NEW i \in 0 .. n, NEW j \in i .. n
      PROVE  Cols(SubSeq(s, i + 1, j)) = sum[j] - sum[i] /\ sum[i] \in Nat /\ sum[j] \in Nat
  <2> DEFINE t == SubSeq(s, i + 1, j)
             part == [k \in 1 .. Len(t) |-> Columns(t[k])]
  <2>1. t \in Seq(Chars) /\ Len(t) = j - i /\ \A k \in 1 .. (j - i) : t[k] = s[i + k]
    OBVIOUS
  <2> HIDE DEF t
  <2>2. PICK other : Sums(j - i, part, other) /\ Cols(t) = other[j - i]
    BY <2>1, ColsIsSum
  <2>3. \A k \in 1 .. (j - i) : part[k] = rows[i + k]
    BY <2>1
  <2> HIDE DEF part, rows, n
  <2>4. other[j - i] = sum[j] - sum[i] /\ sum[i] \in Nat /\ sum[j] \in Nat
    <3>1. Sums(n, rows, sum) /\ Sums(j - i, part, other)
      BY <1>2, <2>2
    <3>2. i \in Nat /\ j - i \in Nat /\ i + (j - i) <= n /\ i + (j - i) = j /\ {i, j} \subseteq 0 .. n
      BY <1>1
    <3>3. ASSUME NEW m \in Nat, m = j - i
          PROVE  other[m] = sum[i + m] - sum[i]
      <4>1. \A k \in 1 .. m : part[k] = rows[i + k]
        BY <2>3, <3>3
      <4>2. Sums(m, part, other) /\ i + m <= n
        BY <3>1, <3>2, <3>3
      <4>3. PartOf(n, rows, i, m, part)
        BY <1>1, <3>2, <4>1, <4>2 DEF PartOf
      <4> QED
        BY <3>1, <4>2, <4>3, SumsOfPart
    <3>4. sum[i] \in Nat /\ sum[j] \in Nat
      BY <1>1, <3>1, <3>2, SumsFacts
    <3> QED
      BY <3>2, <3>3, <3>4
  <2> QED
    BY <2>2, <2>4 DEF t
<1>4. /\ sum[0] = 0
      /\ \A i \in 1 .. n : sum[i] = sum[i - 1] + Columns(s[i])
  <2> HIDE DEF rows, n
  <2>1. sum[0] = 0 /\ \A i \in 1 .. n : sum[i] = sum[i - 1] + rows[i]
    BY <1>1, <1>2, SumsFacts
  <2> QED
    BY <2>1 DEF rows
<1>5. \A i \in 0 .. n : Left(s, i) = sum[i] /\ sum[i] \in Nat
  <2>1. ASSUME NEW i \in 0 .. n
        PROVE  Left(s, i) = Cols(SubSeq(s, 0 + 1, i))
    BY DEF Left
  <2>2. ASSUME NEW i \in 0 .. n
        PROVE  Cols(SubSeq(s, 0 + 1, i)) = sum[i] - sum[0] /\ sum[i] \in Nat
    <3>1. 0 \in 0 .. n /\ i \in 0 .. n
      BY <1>1
    <3> HIDE DEF n
    <3> QED
      BY <1>3, <3>1
  <2> HIDE DEF n
  <2> QED
    BY <1>4, <2>1, <2>2
<1> HIDE DEF rows
<1>6. \A i \in 1 .. n : i - 1 \in 0 .. n /\ i \in 0 .. n
  BY <1>1
<1>7. 0 \in 0 .. n /\ n \in 0 .. n
  BY <1>1
<1> HIDE DEF n
<1>8. \A i, j \in 0 .. n : i <= j => Cols(SubSeq(s, i + 1, j)) = Left(s, j) - Left(s, i)
  BY <1>1, <1>3, <1>5
<1> QED
  BY <1>2, <1>4, <1>5, <1>6, <1>7, <1>8 DEF n

\* A byte offset tells the index: later characters end at later bytes.
LEMMA ByteOrder ==
  ASSUME NEW s \in Seq(Chars), NEW i \in 0 .. Len(s), NEW j \in 0 .. Len(s), i < j
  PROVE  ByteAt(s, i) < ByteAt(s, j)
<1> DEFINE m == j - i
           G == {k \in 0 .. m : k = 0 \/ ByteAt(s, i) < ByteAt(s, i + k)}
<1>1. m \in Nat /\ m # 0 /\ i + m = j
  OBVIOUS
<1>2. ASSUME NEW k \in 1 .. m, k - 1 \in G
      PROVE  k \in G
  <2>1. i + k \in 1 .. Len(s) /\ (i + k) - 1 = i + (k - 1) /\ i + (k - 1) \in 0 .. Len(s)
    OBVIOUS
  <2>2. ByteAt(s, i + k) = ByteAt(s, i + (k - 1)) + Size(s[i + k])
    BY <2>1, BytesFacts
  <2>3. {ByteAt(s, i), ByteAt(s, i + (k - 1))} \subseteq Nat /\ Size(s[i + k]) \in Nat \ {0}
    BY <2>1, BytesFacts, CharFacts
  <2>4. k - 1 = 0 \/ ByteAt(s, i) < ByteAt(s, i + (k - 1))
    BY <1>2
  <2>5. ByteAt(s, i) < ByteAt(s, i + k)
    <3>1. CASE k - 1 = 0
      <4>1. i + (k - 1) = i
        BY <3>1
      <4> HIDE DEF m
      <4> QED
        BY <2>2, <2>3, <4>1
    <3>2. CASE k - 1 # 0
      BY <2>2, <2>3, <2>4, <3>2
    <3> QED
      BY <3>1, <3>2
  <2> QED
    BY <2>5
<1>3. 0 \in G
  BY <1>1
<1> HIDE DEF m, G
<1>4. m \in G
  <2>1. m \in Nat
    BY <1>1
  <2>2. \A k \in 0 .. m : k \in G
    BY <1>2, <1>3, <2>1, UpTo
  <2> QED
    BY <2>1, <2>2
<1> QED
  BY <1>1, <1>4 DEF G

\* Columns do not get fewer.
LEMMA LeftOrder ==
  ASSUME NEW s \in Seq(Chars), NEW i \in 0 .. Len(s), NEW j \in 0 .. Len(s), i < j
  PROVE  Left(s, i) <= Left(s, j)
<1> DEFINE m == j - i
           G == {k \in 0 .. m : k = 0 \/ Left(s, i) <= Left(s, i + k)}
<1>1. m \in Nat /\ m # 0 /\ i + m = j
  OBVIOUS
<1>2. ASSUME NEW k \in 1 .. m, k - 1 \in G
      PROVE  k \in G
  <2>1. i + k \in 1 .. Len(s) /\ (i + k) - 1 = i + (k - 1) /\ i + (k - 1) \in 0 .. Len(s)
    OBVIOUS
  <2>2. Left(s, i + k) = Left(s, i + (k - 1)) + Columns(s[i + k])
    BY <2>1, ColsFacts
  <2>3. {Left(s, i), Left(s, i + (k - 1))} \subseteq Nat /\ Columns(s[i + k]) \in Nat
    BY <2>1, ColsFacts, CharFacts
  <2>4. k - 1 = 0 \/ Left(s, i) <= Left(s, i + (k - 1))
    BY <1>2
  <2>5. Left(s, i) <= Left(s, i + k)
    <3>1. CASE k - 1 = 0
      <4>1. i + (k - 1) = i
        BY <3>1
      <4> HIDE DEF m
      <4> QED
        BY <2>2, <2>3, <4>1
    <3>2. CASE k - 1 # 0
      BY <2>2, <2>3, <2>4, <3>2
    <3> QED
      BY <3>1, <3>2
  <2> QED
    BY <2>5
<1>3. 0 \in G
  BY <1>1
<1> HIDE DEF m, G
<1>4. m \in G
  <2>1. m \in Nat
    BY <1>1
  <2>2. \A k \in 0 .. m : k \in G
    BY <1>2, <1>3, <2>1, UpTo
  <2> QED
    BY <2>1, <2>2
<1> QED
  BY <1>1, <1>4 DEF G

\* The index that ends at a byte offset is found again.
LEMMA CharOf ==
  ASSUME NEW s \in Seq(Chars), NEW k \in 0 .. Len(s)
  PROVE  CharAt(s, ByteAt(s, k)) = k
<1>1. ASSUME NEW i \in 1 .. Len(s)
      PROVE  ByteAt(s, i) <= ByteAt(s, k) <=> i <= k
  <2>1. i \in 0 .. Len(s) /\ {ByteAt(s, i), ByteAt(s, k)} \subseteq Nat
    BY BytesFacts
  <2>2. CASE i < k
    BY <2>1, <2>2, ByteOrder
  <2>3. CASE i = k
    BY <2>1, <2>3
  <2>4. CASE k < i
    <3>1. ByteAt(s, k) < ByteAt(s, i)
      BY <2>1, <2>4, ByteOrder
    <3> QED
      BY <2>1, <2>4, <3>1
  <2> QED
    BY <2>2, <2>3, <2>4
<1>2. {i \in DOMAIN s : ByteAt(s, i) <= ByteAt(s, k)} = 1 .. k
  BY <1>1
<1>3. Cardinality(1 .. k) = k
  <2>1. 1 \in Int /\ k \in Int
    OBVIOUS
  <2>2. Cardinality(1 .. k) = IF 1 > k THEN 0 ELSE k - 1 + 1
    BY <2>1, FS_Interval
  <2> QED
    BY <2>2
<1> QED
  BY <1>2, <1>3 DEF CharAt

LEMMA SliceOf ==
  ASSUME NEW s \in Seq(Chars), NEW i \in 0 .. Len(s), NEW j \in 0 .. Len(s)
  PROVE  Slice(s, ByteAt(s, i), ByteAt(s, j)) = SubSeq(s, i + 1, j)
BY CharOf DEF Slice

\* A part of a text is measured by where it lies in the text.
LEMMA PartFacts ==
  ASSUME NEW s \in Seq(Chars), NEW i \in 0 .. Len(s), NEW j \in i .. Len(s)
  PROVE  LET t == SubSeq(s, i + 1, j)
         IN /\ t \in Seq(Chars) /\ Len(t) = j - i /\ \A k \in 1 .. (j - i) : t[k] = s[i + k]
            /\ \A k \in 0 .. (j - i) : ByteAt(t, k) = ByteAt(s, i + k) - ByteAt(s, i)
            /\ \A k \in 0 .. (j - i) : Left(t, k) = Left(s, i + k) - Left(s, i)
            /\ Bytes(t) = ByteAt(s, j) - ByteAt(s, i)
            /\ Cols(t) = Left(s, j) - Left(s, i)
<1> DEFINE t == SubSeq(s, i + 1, j)
<1>1. t \in Seq(Chars) /\ Len(t) = j - i /\ \A k \in 1 .. (j - i) : t[k] = s[i + k]
  OBVIOUS
<1>2. ASSUME NEW k \in 0 .. (j - i)
      PROVE  ByteAt(t, k) = ByteAt(s, i + k) - ByteAt(s, i) /\ Left(t, k) = Left(s, i + k) - Left(s, i)
  <2>1. SubSeq(t, 1, k) = SubSeq(s, i + 1, i + k)
    OBVIOUS
  <2>2. Min({k, Len(t)}) = k
    <3>1. k \in Int /\ Len(t) \in Int /\ k <= Len(t)
      BY <1>1
    <3> HIDE DEF t
    <3> QED
      BY <3>1, OfTwo
  <2> HIDE DEF t
  <2>3. ByteAt(t, k) = Bytes(SubSeq(s, i + 1, i + k)) /\ Left(t, k) = Cols(SubSeq(s, i + 1, i + k))
    BY <2>1, <2>2 DEF ByteAt, Left
  <2>4. i + k \in 0 .. Len(s) /\ i <= i + k
    OBVIOUS
  <2> QED
    BY <2>3, <2>4, BytesFacts, ColsFacts
<1> HIDE DEF t
<1>3. Bytes(t) = ByteAt(s, j) - ByteAt(s, i) /\ Cols(t) = Left(s, j) - Left(s, i)
  <2>1. i <= j /\ j \in 0 .. Len(s)
    OBVIOUS
  <2> QED
    BY <2>1, BytesFacts, ColsFacts DEF t
<1> QED
  BY <1>1, <1>2, <1>3 DEF t

-----------------------------------------------------------------------------
(* The wrap of a line: what is true of its rows, between indices.          *)

\* The columns of the characters after a, up to b.
Wide(s, a, b) == Left(s, b) - Left(s, a)

\* The characters after p, up to q, are a word.
Word(s, p, q) ==
  /\ p < q /\ \A i \in (p + 1) .. q : ~IsSpace(s[i])
  /\ p = 0 \/ IsSpace(s[p])
  /\ q = Len(s) \/ IsSpace(s[q + 1])

\* The row from a to b fits, but for spaces at its end or a single character.
Fit(s, w, a, b) ==
  \E e \in a .. b :
    /\ \A i \in (e + 1) .. b : IsSpace(s[i])
    /\ \/ Wide(s, a, e) <= w
       \/ \E k \in (a + 1) .. e : \A i \in (a + 1) .. e : i # k => Columns(s[i]) = 0

\* The row from a is broken at b for a word that begins there and did not fit, or for a
\* character of a word that fits no row and began no later than the row.
Due(s, w, a, b) ==
  \E p, q \in 0 .. Len(s) :
    /\ Word(s, p, q) /\ p <= b /\ b < q
    /\ b = p => Wide(s, a, b) + Wide(s, p, q) > w
    /\ p < b => p <= a /\ Wide(s, p, q) > w /\ Wide(s, a, b) + Columns(s[b + 1]) > w

\* The breaks up to m, of which the last is at a.
Breaks(s, w, m, breaks, a) ==
  /\ breaks \in Seq(Nat) /\ breaks # <<>> /\ breaks[1] = 0
  /\ breaks[Len(breaks)] = ByteAt(s, a)
  /\ \A j \in 1 .. (Len(breaks) - 1) :
       \E x, y \in 0 .. m : /\ x < y /\ breaks[j] = ByteAt(s, x) /\ breaks[j + 1] = ByteAt(s, y)
                            /\ Fit(s, w, x, y) /\ Due(s, w, x, y)

Opened(s, w, m, acc, a) ==
  /\ m \in 0 .. Len(s) /\ a \in 0 .. m
  /\ acc \in [breaks : Seq(Nat), col : Nat, at : Nat]
  /\ acc.col = Wide(s, a, m) /\ acc.at = ByteAt(s, m)
  /\ Breaks(s, w, m, acc.breaks, a)
  /\ Fit(s, w, a, m)

\* A row within the width fits; so does one that gets spaces more.
LEMMA FitFacts ==
  ASSUME NEW s \in Seq(Chars), NEW w \in Nat, NEW a \in 0 .. Len(s)
  PROVE  /\ \A b \in a .. Len(s) : Wide(s, a, b) \in Nat
         /\ \A b \in a .. Len(s) : Wide(s, a, b) <= w => Fit(s, w, a, b)
         /\ Fit(s, w, a, a)
         /\ \A b \in a .. Len(s), c \in a .. Len(s) :
              b <= c /\ Fit(s, w, a, b) /\ (\A i \in (b + 1) .. c : IsSpace(s[i])) => Fit(s, w, a, c)
<1>1. ASSUME NEW b \in a .. Len(s)
      PROVE  Wide(s, a, b) \in Nat
  <2>1. a \in 0 .. Len(s) /\ b \in 0 .. Len(s) /\ {Left(s, a), Left(s, b)} \subseteq Nat
    BY ColsFacts
  <2>2. a = b \/ (a < b /\ Left(s, a) <= Left(s, b))
    BY <2>1, LeftOrder
  <2> QED
    BY <2>1, <2>2 DEF Wide
<1>2. ASSUME NEW b \in a .. Len(s), Wide(s, a, b) <= w
      PROVE  Fit(s, w, a, b)
  <2>1. b \in a .. b /\ (b + 1) .. b = {}
    OBVIOUS
  <2> QED
    BY <1>2, <2>1 DEF Fit
<1>3. Fit(s, w, a, a)
  <2>1. a \in a .. Len(s) /\ Left(s, a) \in Nat
    BY ColsFacts
  <2>2. Wide(s, a, a) <= w
    BY <2>1 DEF Wide
  <2> QED
    BY <1>2, <2>1, <2>2
<1>4. ASSUME NEW b \in a .. Len(s), NEW c \in a .. Len(s), b <= c,
             Fit(s, w, a, b), \A i \in (b + 1) .. c : IsSpace(s[i])
      PROVE  Fit(s, w, a, c)
  <2>1. PICK e \in a .. b :
           /\ \A i \in (e + 1) .. b : IsSpace(s[i])
           /\ \/ Wide(s, a, e) <= w
              \/ \E k \in (a + 1) .. e : \A i \in (a + 1) .. e : i # k => Columns(s[i]) = 0
    BY <1>4 DEF Fit
  <2>2. e \in a .. c /\ \A i \in (e + 1) .. c : IsSpace(s[i])
    <3>1. ASSUME NEW i \in (e + 1) .. c
          PROVE  IsSpace(s[i])
      <4>1. i \in (e + 1) .. b \/ i \in (b + 1) .. c
        OBVIOUS
      <4> QED
        BY <1>4, <2>1, <4>1
    <3> QED
      BY <1>4, <3>1
  <2> QED
    BY <2>1, <2>2 DEF Fit
<1> QED
  BY <1>1, <1>2, <1>3, <1>4

\* A row ends where a word did not fit.
LEMMA FreshOpened ==
  ASSUME NEW s \in Seq(Chars), NEW w \in Nat, NEW m, NEW acc, NEW a,
         Opened(s, w, m, acc, a), a < m, Due(s, w, a, m)
  PROVE  Opened(s, w, m, FreshRow(acc), m)
<1> DEFINE old == acc.breaks
<1>1. m \in 0 .. Len(s) /\ a \in 0 .. m /\ acc.at = ByteAt(s, m) /\ ByteAt(s, m) \in Nat
  BY BytesFacts DEF Opened
<1>2. /\ FreshRow(acc) \in [breaks : Seq(Nat), col : Nat, at : Nat]
      /\ FreshRow(acc).breaks = Append(old, ByteAt(s, m))
      /\ FreshRow(acc).col = 0 /\ FreshRow(acc).at = ByteAt(s, m)
  <2>1. acc \in [breaks : Seq(Nat), col : Nat, at : Nat] /\ acc.at = ByteAt(s, m)
    BY DEF Opened
  <2>2. Append(acc.breaks, acc.at) \in Seq(Nat)
    BY <2>1
  <2> QED
    BY <2>1, <2>2 DEF FreshRow
<1>3. Wide(s, m, m) = 0
  BY <1>1, ColsFacts DEF Wide
<1>4. Breaks(s, w, m, Append(old, ByteAt(s, m)), m)
  <2>1. /\ old \in Seq(Nat) /\ old # <<>> /\ old[1] = 0 /\ old[Len(old)] = ByteAt(s, a)
        /\ \A j \in 1 .. (Len(old) - 1) :
             \E x, y \in 0 .. m : /\ x < y /\ old[j] = ByteAt(s, x) /\ old[j + 1] = ByteAt(s, y)
                                  /\ Fit(s, w, x, y) /\ Due(s, w, x, y)
    BY DEF Opened, Breaks
  <2> DEFINE b == Append(old, ByteAt(s, m))
  <2> HIDE DEF old
  <2>2. /\ b \in Seq(Nat) /\ b # <<>> /\ Len(b) = Len(old) + 1 /\ Len(old) \in Nat \ {0}
        /\ b[Len(b)] = ByteAt(s, m)
        /\ \A j \in 1 .. Len(old) : b[j] = old[j]
    <3>1. old \in Seq(Nat) /\ old # <<>> /\ ByteAt(s, m) \in Nat
      BY <1>1, <2>1
    <3>2. Len(old) \in Nat \ {0}
      BY <3>1
    <3>3. b \in Seq(Nat) /\ Len(b) = Len(old) + 1 /\ \A j \in 1 .. Len(old) : b[j] = old[j]
      BY <3>1
    <3>4. b[Len(old) + 1] = ByteAt(s, m)
      BY <3>1
    <3> HIDE DEF b
    <3> QED
      BY <3>2, <3>3, <3>4
  <2> HIDE DEF b
  <2>3. ASSUME NEW j \in 1 .. (Len(b) - 1)
        PROVE  \E x, y \in 0 .. m : /\ x < y /\ b[j] = ByteAt(s, x) /\ b[j + 1] = ByteAt(s, y)
                                    /\ Fit(s, w, x, y) /\ Due(s, w, x, y)
    <3>1. CASE j = Len(old)
      <4>1. b[j] = ByteAt(s, a) /\ b[j + 1] = ByteAt(s, m) /\ m \in 0 .. m /\ Fit(s, w, a, m)
        BY <1>1, <2>1, <2>2, <3>1 DEF Opened
      <4> QED
        BY <1>1, <4>1
    <3>2. CASE j # Len(old)
      <4>1. j \in 1 .. (Len(old) - 1) /\ b[j] = old[j] /\ b[j + 1] = old[j + 1]
        BY <2>2, <3>2
      <4> QED
        BY <2>1, <4>1
    <3> QED
      BY <3>1, <3>2
  <2>4. b[1] = 0
    <3>1. 1 \in 1 .. Len(old)
      BY <2>2
    <3> QED
      BY <2>1, <2>2, <3>1
  <2> QED
    BY <2>2, <2>3, <2>4 DEF Breaks, b
<1>5. Fit(s, w, m, m)
  BY <1>1, FitFacts
<1> HIDE DEF old
<1>6. m \in 0 .. m
  BY <1>1
<1> QED
  BY <1>1, <1>2, <1>3, <1>4, <1>5, <1>6 DEF Opened

\* A part of the line goes on the row that is open.
LEMMA PassedOpened ==
  ASSUME NEW s \in Seq(Chars), NEW w \in Nat, NEW m, NEW acc, NEW a, Opened(s, w, m, acc, a),
         NEW n \in 0 .. Len(s), m <= n, Fit(s, w, a, n), NEW part, part = SubSeq(s, m + 1, n)
  PROVE  Opened(s, w, n, Passed(acc, part), a)
<1>1. m \in 0 .. Len(s) /\ a \in 0 .. m /\ a \in 0 .. n /\ n \in m .. Len(s)
  BY DEF Opened
<1>2. /\ Cols(part) = Left(s, n) - Left(s, m) /\ Bytes(part) = ByteAt(s, n) - ByteAt(s, m)
      /\ {Left(s, n), Left(s, m), Left(s, a), ByteAt(s, n), ByteAt(s, m)} \subseteq Nat
  BY <1>1, PartFacts, ColsFacts, BytesFacts
<1>3. /\ acc \in [breaks : Seq(Nat), col : Nat, at : Nat]
      /\ acc.col = Wide(s, a, m) /\ acc.at = ByteAt(s, m)
  BY DEF Opened
<1>4. Wide(s, a, m) + Cols(part) = Wide(s, a, n) /\ ByteAt(s, m) + Bytes(part) = ByteAt(s, n)
  BY <1>2 DEF Wide
<1>5. Breaks(s, w, n, acc.breaks, a)
  <2>1. \A x \in 0 .. m : x \in 0 .. n
    BY <1>1
  <2> QED
    BY <2>1 DEF Opened, Breaks
<1>6. Wide(s, a, n) \in Nat /\ ByteAt(s, n) \in Nat
  <2>1. a \in 0 .. Len(s) /\ n \in a .. Len(s)
    BY <1>1
  <2> QED
    BY <1>2, <2>1, FitFacts
<1>7. /\ Passed(acc, part) \in [breaks : Seq(Nat), col : Nat, at : Nat]
      /\ Passed(acc, part).breaks = acc.breaks
      /\ Passed(acc, part).col = Wide(s, a, n) /\ Passed(acc, part).at = ByteAt(s, n)
  BY <1>3, <1>4, <1>6 DEF Passed
<1> QED
  BY <1>1, <1>5, <1>7 DEF Opened

-----------------------------------------------------------------------------
(* A word that fits no row.                                                *)

\* A character is placed behind the others, or on a row of its own.
Behind(acc, c, w) ==
  Passed(IF acc.col > 0 /\ acc.col + Columns(c) > w THEN FreshRow(acc) ELSE acc, <<c>>)

Cuts(n, acc, word, w, f) ==
  f = [i \in 0 .. n |-> IF i = 0 THEN acc ELSE Behind(f[i - 1], word[i], w)]

LEMMA CutsExist ==
  ASSUME NEW n \in Nat, NEW acc, NEW word, NEW w
  PROVE  \E f : Cuts(n, acc, word, w, f)
<1> DEFINE G == {m \in 0 .. n : \E f : Cuts(m, acc, word, w, f)}
<1>1. 0 \in G
  <2> DEFINE f == [i \in 0 .. 0 |-> acc]
  <2>1. Cuts(0, acc, word, w, f)
    BY DEF Cuts
  <2> QED
    BY <2>1
<1>2. ASSUME NEW m \in 1 .. n, m - 1 \in G
      PROVE  m \in G
  <2>1. PICK f : Cuts(m - 1, acc, word, w, f)
    BY <1>2
  <2> DEFINE next == [i \in 0 .. m |-> IF i = m THEN Behind(f[m - 1], word[m], w) ELSE f[i]]
  <2>2. \A i \in 0 .. (m - 1) : f[i] = IF i = 0 THEN acc ELSE Behind(f[i - 1], word[i], w)
    BY <2>1 DEF Cuts
  <2>3. ASSUME NEW i \in 0 .. m
        PROVE  next[i] = IF i = 0 THEN acc ELSE Behind(next[i - 1], word[i], w)
    <3>1. CASE i = m
      <4>1. i # 0 /\ i - 1 \in 0 .. m /\ i - 1 # m
        BY <3>1
      <4> QED
        BY <3>1, <4>1
    <3>2. CASE i # m
      <4>1. i \in 0 .. (m - 1) /\ (i # 0 => i - 1 \in 0 .. m /\ i - 1 # m)
        BY <3>2
      <4> QED
        BY <2>2, <3>2, <4>1
    <3> QED
      BY <3>1, <3>2
  <2>4. Cuts(m, acc, word, w, next)
    BY <2>3 DEF Cuts
  <2> HIDE DEF next
  <2> QED
    BY <2>4
<1> HIDE DEF G
<1>3. n \in G
  <2>1. \A m \in 0 .. n : m \in G
    BY <1>1, <1>2, UpTo
  <2> QED
    BY <2>1
<1> QED
  BY <1>3 DEF G

\* A word is placed character by character.
ByChars(acc, word, w, f) ==
  /\ f[0] = acc /\ HardBreakWord(acc, word, w) = f[Len(word)]
  /\ \A i \in 1 .. Len(word) : f[i] = Behind(f[i - 1], word[i], w)

LEMMA HardBreakFacts ==
  ASSUME NEW acc, NEW word \in Seq(Chars), NEW w
  PROVE  \E f : ByChars(acc, word, w, f)
<1> DEFINE n == Len(word)
           f == CHOOSE g : Cuts(n, acc, word, w, g)
<1>1. HardBreakWord(acc, word, w) = f[n]
  BY DEF HardBreakWord, Cuts, Behind
<1>2. n \in Nat
  OBVIOUS
<1> HIDE DEF n
<1>3. Cuts(n, acc, word, w, f)
  BY <1>2, CutsExist
<1> HIDE DEF f
<1>4. \A i \in 0 .. n : f[i] = IF i = 0 THEN acc ELSE Behind(f[i - 1], word[i], w)
  BY <1>3 DEF Cuts
<1> QED
  BY <1>1, <1>2, <1>4 DEF n, ByChars

\* Between its rows a word that fits none is cut where the next character did not fit.
LEMMA BehindOpened ==
  ASSUME NEW s \in Seq(Chars), NEW w \in Nat, NEW p \in 0 .. Len(s), NEW q \in 0 .. Len(s),
         Word(s, p, q), Wide(s, p, q) > w,
         NEW m \in p .. (q - 1), NEW acc, NEW a, a >= p, Opened(s, w, m, acc, a)
  PROVE  \E b \in p .. m : Opened(s, w, m + 1, Behind(acc, s[m + 1], w), b)
<1> DEFINE c == s[m + 1]
<1>1. /\ m \in 0 .. Len(s) /\ m + 1 \in 1 .. Len(s) /\ m + 1 \in 0 .. Len(s) /\ a \in p .. m
      /\ a \in 0 .. Len(s) /\ m \in a .. Len(s) /\ m + 1 \in a .. Len(s)
      /\ acc.col = Wide(s, a, m) /\ Wide(s, a, m) \in Nat /\ Columns(c) \in Nat
  <2>1. m \in 0 .. Len(s) /\ a \in 0 .. m /\ acc.col = Wide(s, a, m)
    BY DEF Opened
  <2>2. /\ m + 1 \in 1 .. Len(s) /\ m + 1 \in 0 .. Len(s) /\ a \in p .. m /\ a \in 0 .. Len(s)
        /\ m \in a .. Len(s) /\ m + 1 \in a .. Len(s)
    BY <2>1
  <2> QED
    BY <2>1, <2>2, FitFacts, CharFacts
<1>2. <<c>> = SubSeq(s, m + 1, m + 1)
  BY <1>1
<1>3. Wide(s, a, m + 1) = Wide(s, a, m) + Columns(c)
  <2>1. Left(s, m + 1) = Left(s, (m + 1) - 1) + Columns(c) /\ (m + 1) - 1 = m
    BY <1>1, ColsFacts
  <2>2. {Left(s, m), Left(s, a), Left(s, m + 1)} \subseteq Nat
    BY <1>1, ColsFacts
  <2> QED
    BY <1>1, <2>1, <2>2 DEF Wide
<1>4. CASE acc.col > 0 /\ acc.col + Columns(c) > w
  <2>1. a < m
    <3>1. a = m => Wide(s, a, m) = 0
      BY <1>1, ColsFacts DEF Wide
    <3> QED
      BY <1>1, <1>4, <3>1
  <2>2. Due(s, w, a, m)
    <3>1. p < m /\ m < q /\ p <= a
      BY <1>1, <2>1
    <3> QED
      BY <1>1, <1>4, <3>1 DEF Due
  <2>3. Opened(s, w, m, FreshRow(acc), m)
    BY <2>1, <2>2, FreshOpened
  <2>4. Fit(s, w, m, m + 1)
    <3>1. /\ m + 1 \in m .. (m + 1) /\ m + 1 \in (m + 1) .. (m + 1)
          /\ \A i \in (m + 1) .. (m + 1) : i = m + 1
          /\ \A i \in ((m + 1) + 1) .. (m + 1) : FALSE
      BY <1>1
    <3> QED
      BY <3>1 DEF Fit
  <2>5. Opened(s, w, m + 1, Passed(FreshRow(acc), <<c>>), m)
    <3>1. m + 1 \in 0 .. Len(s) /\ m <= m + 1
      BY <1>1
    <3> HIDE DEF c
    <3> QED
      BY <1>2, <2>3, <2>4, <3>1, PassedOpened, Zenon
  <2> QED
    BY <1>1, <1>4, <2>5 DEF Behind
<1>5. CASE ~(acc.col > 0 /\ acc.col + Columns(c) > w)
  <2>1. Fit(s, w, a, m + 1)
    <3>1. CASE acc.col + Columns(c) <= w
      BY <1>1, <1>3, <3>1, FitFacts
    <3>2. CASE acc.col = 0
      <4>1. ASSUME NEW i \in (a + 1) .. m
            PROVE  Columns(s[i]) = 0
        <5>1. /\ i \in 1 .. Len(s) /\ i - 1 \in 0 .. Len(s) /\ i \in 0 .. Len(s)
              /\ a <= i - 1 /\ i <= m
          BY <1>1
        <5>2. {Left(s, a), Left(s, i - 1), Left(s, i), Left(s, m)} \subseteq Nat
          BY <1>1, <5>1, ColsFacts
        <5>3. Left(s, a) <= Left(s, i - 1) /\ Left(s, i) <= Left(s, m)
          <6>1. a = i - 1 \/ a < i - 1
            BY <1>1, <5>1
          <6>2. i = m \/ i < m
            BY <1>1, <5>1
          <6>3. Left(s, a) <= Left(s, i - 1)
            BY <1>1, <5>1, <5>2, <6>1, LeftOrder
          <6>4. Left(s, i) <= Left(s, m)
            BY <1>1, <5>1, <5>2, <6>2, LeftOrder
          <6> QED
            BY <6>3, <6>4
        <5>4. Left(s, i) = Left(s, i - 1) + Columns(s[i]) /\ Columns(s[i]) \in Nat
          BY <5>1, ColsFacts, CharFacts
        <5>5. Left(s, m) - Left(s, a) = 0
          BY <1>1, <3>2 DEF Wide
        <5> QED
          BY <5>2, <5>3, <5>4, <5>5
      <4>2. \A i \in (a + 1) .. (m + 1) : i # m + 1 => Columns(s[i]) = 0
        BY <1>1, <4>1
      <4>3. /\ m + 1 \in a .. (m + 1) /\ m + 1 \in (a + 1) .. (m + 1)
            /\ \A i \in ((m + 1) + 1) .. (m + 1) : FALSE
        BY <1>1
      <4> QED
        BY <4>2, <4>3 DEF Fit
    <3> QED
      BY <1>1, <1>5, <3>1, <3>2
  <2>2. Opened(s, w, m + 1, Passed(acc, <<c>>), a)
    <3>1. m + 1 \in 0 .. Len(s) /\ m <= m + 1
      BY <1>1
    <3> HIDE DEF c
    <3> QED
      BY <1>2, <2>1, <3>1, PassedOpened, Zenon
  <2> QED
    BY <1>1, <1>5, <2>2 DEF Behind
<1> QED
  BY <1>4, <1>5

LEMMA HardOpened ==
  ASSUME NEW s \in Seq(Chars), NEW w \in Nat, NEW p \in 0 .. Len(s), NEW q \in 0 .. Len(s),
         Word(s, p, q), Wide(s, p, q) > w, NEW acc, Opened(s, w, p, acc, p)
  PROVE  \E b \in p .. (q - 1) : Opened(s, w, q, HardBreakWord(acc, SubSeq(s, p + 1, q), w), b)
<1> DEFINE word == SubSeq(s, p + 1, q)
           n == q - p
<1>1. p < q /\ n \in Nat \ {0} /\ p + n = q
  BY DEF Word
<1>2. word \in Seq(Chars) /\ Len(word) = n /\ \A k \in 1 .. n : word[k] = s[p + k]
  BY <1>1
<1> HIDE DEF word
<1>3. PICK f : /\ f[0] = acc /\ HardBreakWord(acc, word, w) = f[n]
               /\ \A i \in 1 .. n : f[i] = Behind(f[i - 1], word[i], w)
  <2>1. PICK f : ByChars(acc, word, w, f)
    BY <1>2, HardBreakFacts
  <2> QED
    BY <1>2, <2>1 DEF ByChars
<1> DEFINE G == {k \in 0 .. n : \E b \in p .. (p + k) : /\ Opened(s, w, p + k, f[k], b)
                                                        /\ k # 0 => b < p + k}
<1>4. 0 \in G
  <2>1. p + 0 = p /\ p \in p .. p /\ 0 \in 0 .. n
    BY <1>1
  <2> QED
    BY <1>3, <2>1
<1>5. ASSUME NEW k \in 1 .. n, k - 1 \in G
      PROVE  k \in G
  <2>1. PICK a \in p .. (p + (k - 1)) : Opened(s, w, p + (k - 1), f[k - 1], a)
    BY <1>5
  <2> DEFINE m == p + (k - 1)
  <2>2. m \in p .. (q - 1) /\ a >= p /\ m + 1 = p + k /\ m < p + k
    BY <1>1
  <2>3. f[k] = Behind(f[k - 1], s[m + 1], w)
    BY <1>2, <1>3, <2>2
  <2>4. Opened(s, w, m, f[k - 1], a)
    BY <2>1
  <2> HIDE DEF m, n
  <2>5. PICK b \in p .. m : Opened(s, w, m + 1, Behind(f[k - 1], s[m + 1], w), b)
    BY <2>2, <2>4, BehindOpened
  <2>6. Opened(s, w, p + k, f[k], b) /\ b < p + k /\ b \in p .. (p + k)
    BY <2>2, <2>3, <2>5
  <2> QED
    BY <2>6
<1> HIDE DEF G, n
<1>6. n \in G
  <2>1. \A k \in 0 .. n : k \in G
    BY <1>1, <1>4, <1>5, UpTo
  <2> QED
    BY <1>1, <2>1
<1>7. PICK b \in p .. (p + n) : Opened(s, w, p + n, f[n], b) /\ b < p + n
  BY <1>1, <1>6 DEF G
<1>8. b \in p .. (q - 1) /\ Opened(s, w, q, f[n], b)
  BY <1>1, <1>7
<1> QED
  BY <1>3, <1>8 DEF word

\* The characters after m, up to n, are a run of spaces or a word, and all of it.
RunAt(s, m, n) ==
  /\ m \in 0 .. Len(s) /\ n \in 0 .. Len(s) /\ m < n
  /\ \A i \in (m + 1) .. n : IsSpace(s[i]) = IsSpace(s[m + 1])
  /\ m = 0 \/ IsSpace(s[m]) # IsSpace(s[m + 1])
  /\ n = Len(s) \/ IsSpace(s[n + 1]) # IsSpace(s[m + 1])

\* A line: it has no newline in it.
IsLine(s) == s \in Seq(Chars) /\ \A i \in 1 .. Len(s) : s[i] # "newline"

\* Placing a run leaves the rows as they should be.
LEMMA PlacedOpened ==
  ASSUME NEW s, IsLine(s), NEW w \in Nat, NEW m, NEW n, RunAt(s, m, n),
         NEW acc, NEW a, Opened(s, w, m, acc, a), a < m \/ m = 0
  PROVE  \E b \in 0 .. (n - 1) : Opened(s, w, n, Placed(acc, SubSeq(s, m + 1, n), w), b)
<1> DEFINE part == SubSeq(s, m + 1, n)
<1>1. /\ s \in Seq(Chars) /\ m \in 0 .. Len(s) /\ n \in 0 .. Len(s) /\ m < n /\ m <= n
      /\ a \in 0 .. m /\ a \in 0 .. Len(s) /\ n \in m .. Len(s) /\ m \in a .. Len(s)
      /\ n \in a .. Len(s) /\ m + 1 \in 1 .. Len(s)
      /\ acc.col = Wide(s, a, m)
  <2>1. s \in Seq(Chars) /\ m \in 0 .. Len(s) /\ n \in 0 .. Len(s) /\ m < n
    BY DEF IsLine, RunAt
  <2>2. a \in 0 .. m /\ acc.col = Wide(s, a, m)
    BY DEF Opened
  <2> QED
    BY <2>1, <2>2
<1>2. Cols(part) = Wide(s, m, n) /\ part[1] = s[m + 1]
  <2>1. part[1] = s[m + 1]
    BY <1>1
  <2> QED
    BY <1>1, <2>1, PartFacts DEF Wide
<1>3. /\ {Wide(s, a, m), Wide(s, m, n), Wide(s, a, n)} \subseteq Nat
      /\ Wide(s, a, n) = Wide(s, a, m) + Wide(s, m, n)
  <2>1. {Left(s, a), Left(s, m), Left(s, n)} \subseteq Nat
    BY <1>1, ColsFacts
  <2>2. {Wide(s, a, m), Wide(s, m, n), Wide(s, a, n)} \subseteq Nat
    BY <1>1, FitFacts
  <2> QED
    BY <2>1, <2>2 DEF Wide
<1> HIDE DEF part
<1>4. CASE IsSpace(part[1]) \/ acc.col + Cols(part) <= w
  <2>1. Fit(s, w, a, n)
    <3>1. CASE IsSpace(part[1])
      <4>1. \A i \in (m + 1) .. n : IsSpace(s[i])
        BY <1>2, <3>1 DEF RunAt
      <4>2. Fit(s, w, a, m)
        BY DEF Opened
      <4> QED
        BY <1>1, <4>1, <4>2, FitFacts
    <3>2. CASE acc.col + Cols(part) <= w
      BY <1>1, <1>2, <1>3, <3>2, FitFacts
    <3> QED
      BY <1>4, <3>1, <3>2
  <2>2. Opened(s, w, n, Passed(acc, part), a)
    BY <1>1, <2>1, PassedOpened, Zenon DEF part
  <2>3. Placed(acc, part, w) = Passed(acc, part)
    <3>1. ~IsSpace(part[1]) /\ acc.col + Cols(part) > w => ~(acc.col + Cols(part) <= w)
      BY <1>1, <1>2, <1>3
    <3> QED
      BY <1>4, <3>1 DEF Placed
  <2>4. a \in 0 .. (n - 1)
    BY <1>1
  <2> QED
    BY <2>2, <2>3, <2>4 DEF part
<1>5. ASSUME ~IsSpace(part[1])
      PROVE  Word(s, m, n)
  <2>1. \A i \in (m + 1) .. n : ~IsSpace(s[i])
    BY <1>2, <1>5 DEF RunAt
  <2>2. m = 0 \/ IsSpace(s[m])
    BY <1>1, <1>2, <1>5, CharFacts DEF RunAt
  <2>3. n = Len(s) \/ IsSpace(s[n + 1])
    BY <1>1, <1>2, <1>5, CharFacts DEF RunAt
  <2> QED
    BY <1>1, <2>1, <2>2, <2>3 DEF Word
<1>6. ASSUME ~IsSpace(part[1]), acc.col + Cols(part) > w, a < m
      PROVE  Opened(s, w, m, FreshRow(acc), m)
  <2>1. Due(s, w, a, m)
    <3>1. Wide(s, a, m) + Wide(s, m, n) > w /\ ~(m < m)
      BY <1>1, <1>2, <1>6
    <3> QED
      BY <1>1, <1>5, <1>6, <3>1 DEF Due
  <2> QED
    BY <1>1, <1>6, <2>1, FreshOpened
<1>7. a = m => acc.col = 0
  BY <1>1, ColsFacts DEF Wide
<1>8. CASE ~IsSpace(part[1]) /\ acc.col + Cols(part) > w /\ Cols(part) <= w
  <2>1. a < m
    BY <1>1, <1>2, <1>3, <1>7, <1>8
  <2>2. Fit(s, w, m, n)
    BY <1>1, <1>2, <1>8, FitFacts
  <2>3. Opened(s, w, n, Passed(FreshRow(acc), part), m)
    BY <1>1, <1>6, <1>8, <2>1, <2>2, PassedOpened, Zenon DEF part
  <2>4. Placed(acc, part, w) = Passed(FreshRow(acc), part)
    <3>1. ~(IsSpace(part[1]) \/ acc.col + Cols(part) <= w)
      BY <1>1, <1>2, <1>3, <1>8
    <3> QED
      BY <1>8, <3>1 DEF Placed
  <2>5. m \in 0 .. (n - 1)
    BY <1>1
  <2> QED
    BY <2>3, <2>4, <2>5 DEF part
<1>9. CASE ~IsSpace(part[1]) /\ acc.col + Cols(part) > w /\ Cols(part) > w
  <2> DEFINE first == IF acc.col > 0 THEN FreshRow(acc) ELSE acc
  <2>1. Opened(s, w, m, first, m)
    <3>1. CASE acc.col > 0
      BY <1>1, <1>6, <1>7, <1>9, <3>1
    <3>2. CASE ~(acc.col > 0)
      <4>1. a = m
        <5>1. SUFFICES ASSUME a < m PROVE FALSE
          BY <1>1
        <5>2. m \in 1 .. Len(s) /\ m - 1 \in 0 .. Len(s) /\ a <= m - 1
          BY <1>1, <5>1
        <5>3. IsSpace(s[m]) /\ s[m] # "newline"
          BY <1>5, <1>9, <5>1, <5>2 DEF Word, IsLine
        <5>4. Columns(s[m]) = 1
          BY <5>3 DEF IsSpace, Columns
        <5>5. Left(s, m) = Left(s, m - 1) + 1 /\ {Left(s, m), Left(s, m - 1), Left(s, a)} \subseteq Nat
          BY <1>1, <5>2, <5>4, ColsFacts
        <5>6. Left(s, a) <= Left(s, m - 1)
          <6>1. a = m - 1 \/ a < m - 1
            BY <1>1, <5>2
          <6> QED
            BY <1>1, <5>2, <5>5, <6>1, LeftOrder
        <5>7. Wide(s, a, m) > 0
          BY <5>5, <5>6 DEF Wide
        <5> QED
          BY <1>1, <3>2, <5>7
      <4> QED
        BY <3>2, <4>1
    <3> QED
      BY <3>1, <3>2
  <2> HIDE DEF first
  <2>2. PICK b \in m .. (n - 1) : Opened(s, w, n, HardBreakWord(first, part, w), b)
    BY <1>1, <1>2, <1>5, <1>9, <2>1, HardOpened DEF part
  <2>3. Placed(acc, part, w) = HardBreakWord(first, part, w)
    <3>1. ~(IsSpace(part[1]) \/ acc.col + Cols(part) <= w) /\ ~(Cols(part) <= w)
      BY <1>1, <1>2, <1>3, <1>9
    <3> QED
      BY <3>1 DEF Placed, first
  <2>4. b \in 0 .. (n - 1)
    BY <1>1, <2>2
  <2> QED
    BY <2>2, <2>3, <2>4 DEF part
<1> QED
  BY <1>1, <1>2, <1>3, <1>4, <1>8, <1>9

-----------------------------------------------------------------------------
(* A line, run by run.                                                     *)

LEMMA RunStartFacts ==
  ASSUME NEW s \in Seq(Chars), NEW i \in 1 .. Len(s)
  PROVE  /\ RunStart(s, i) \in 0 .. (i - 1)
         /\ \A k \in (RunStart(s, i) + 1) .. i : IsSpace(s[k]) = IsSpace(s[RunStart(s, i) + 1])
         /\ RunStart(s, i) = 0 \/ IsSpace(s[RunStart(s, i)]) # IsSpace(s[RunStart(s, i) + 1])
<1> DEFINE S == {0} \cup {j \in 1 .. (i - 1) : IsSpace(s[j]) # IsSpace(s[j + 1])}
           j == RunStart(s, i)
<1>1. S \in SUBSET (0 .. (i - 1)) /\ S # {} /\ i - 1 \in Nat
  OBVIOUS
<1>2. j = Max(S)
  BY DEF RunStart
<1> HIDE DEF S, j
<1>3. j \in S /\ \A y \in S : y <= j
  BY <1>1, <1>2, Greatest
<1>4. j \in 0 .. (i - 1)
  BY <1>1, <1>3
<1>5. j = 0 \/ IsSpace(s[j]) # IsSpace(s[j + 1])
  BY <1>3 DEF S
<1> DEFINE n == i - 1 - j
           G == {k \in 0 .. n : IsSpace(s[j + 1 + k]) = IsSpace(s[j + 1])}
<1>6. n \in Nat /\ 0 \in G
  BY <1>4
<1>7. ASSUME NEW k \in 1 .. n, k - 1 \in G
      PROVE  k \in G
  <2>1. /\ j + k \in 1 .. (i - 1) /\ j < j + k /\ (j + k) + 1 = j + 1 + k
        /\ j + 1 + (k - 1) = j + k
    BY <1>4
  <2>2. j + k \notin S
    BY <1>1, <1>3, <1>4, <2>1
  <2>3. IsSpace(s[j + k]) = IsSpace(s[(j + k) + 1])
    BY <2>1, <2>2 DEF S
  <2>4. IsSpace(s[j + 1 + (k - 1)]) = IsSpace(s[j + 1])
    BY <1>7
  <2>5. IsSpace(s[j + 1 + k]) = IsSpace(s[j + 1])
    BY <2>1, <2>3, <2>4, Zenon
  <2> QED
    BY <2>5
<1> HIDE DEF G
<1>8. \A k \in 0 .. n : k \in G
  <2> HIDE DEF n
  <2> QED
    BY <1>6, <1>7, UpTo
<1>9. ASSUME NEW k \in (j + 1) .. i
      PROVE  IsSpace(s[k]) = IsSpace(s[j + 1])
  <2>1. k - j - 1 \in 0 .. n /\ j + 1 + (k - j - 1) = k
    BY <1>4
  <2>2. k - j - 1 \in G
    BY <1>8, <2>1
  <2>3. IsSpace(s[j + 1 + (k - j - 1)]) = IsSpace(s[j + 1])
    BY <2>2 DEF G
  <2> QED
    BY <2>1, <2>3, Zenon
<1> QED
  BY <1>4, <1>5, <1>9 DEF j

NoBreak == [breaks |-> <<0>>, col |-> 0, at |-> 0]

Wraps(n, s, w, f) ==
  f = [i \in 0 .. n |-> IF i = 0 THEN NoBreak
                        ELSE Placed(f[RunStart(s, i)], SubSeq(s, RunStart(s, i) + 1, i), w)]

LEMMA WrapsExist ==
  ASSUME NEW s \in Seq(Chars), NEW w
  PROVE  \E f : Wraps(Len(s), s, w, f)
<1> DEFINE n == Len(s)
           G == {m \in 0 .. n : \E f : Wraps(m, s, w, f)}
<1>1. 0 \in G
  <2> DEFINE f == [i \in 0 .. 0 |-> NoBreak]
  <2>1. Wraps(0, s, w, f)
    BY DEF Wraps
  <2> QED
    BY <2>1
<1>2. ASSUME NEW m \in 1 .. n, m - 1 \in G
      PROVE  m \in G
  <2>1. PICK f : Wraps(m - 1, s, w, f)
    BY <1>2
  <2> DEFINE step(g, i) == Placed(g[RunStart(s, i)], SubSeq(s, RunStart(s, i) + 1, i), w)
             next == [i \in 0 .. m |-> IF i = m THEN step(f, m) ELSE f[i]]
  <2>2. \A i \in 0 .. (m - 1) : f[i] = IF i = 0 THEN NoBreak ELSE step(f, i)
    BY <2>1 DEF Wraps
  <2>3. ASSUME NEW i \in 1 .. m
        PROVE  next[RunStart(s, i)] = f[RunStart(s, i)]
    <3>1. RunStart(s, i) \in 0 .. (i - 1)
      BY RunStartFacts
    <3>2. RunStart(s, i) \in 0 .. m /\ RunStart(s, i) # m
      BY <3>1
    <3> QED
      BY <3>2
  <2>4. next[m] = step(f, m) /\ \A i \in 0 .. (m - 1) : next[i] = f[i]
    OBVIOUS
  <2>5. ASSUME NEW i \in 0 .. m
        PROVE  next[i] = IF i = 0 THEN NoBreak ELSE step(next, i)
    <3>1. i = 0 \/ i \in 1 .. m
      OBVIOUS
    <3>2. i = m \/ i \in 0 .. (m - 1)
      OBVIOUS
    <3>3. i \in 1 .. m => step(next, i) = step(f, i)
      BY <2>3
    <3> HIDE DEF next, step
    <3>4. m # 0
      OBVIOUS
    <3> QED
      BY <2>2, <2>4, <3>1, <3>2, <3>3, <3>4
  <2>6. next = [i \in 0 .. m |-> next[i]]
    OBVIOUS
  <2>7. Wraps(m, s, w, next)
    <3> HIDE DEF next
    <3>1. [i \in 0 .. m |-> next[i]] = [i \in 0 .. m |-> IF i = 0 THEN NoBreak ELSE step(next, i)]
      <4> HIDE DEF step
      <4> QED
        BY <2>5
    <3> QED
      BY <2>6, <3>1 DEF Wraps
  <2> HIDE DEF next
  <2> QED
    BY <2>7
<1> HIDE DEF G
<1>3. n \in G
  <2>1. n \in Nat
    OBVIOUS
  <2> HIDE DEF n
  <2>2. \A m \in 0 .. n : m \in G
    BY <1>1, <1>2, <2>1, UpTo
  <2> QED
    BY <2>1, <2>2
<1> QED
  BY <1>3 DEF G

\* What a wrap of the line promises: rows that fit and breaks that are due, the last at a.
Wrapped(s, w, breaks, a) ==
  /\ a \in 0 .. Len(s) /\ (a < Len(s) \/ Len(s) = 0)
  /\ Breaks(s, w, Len(s), breaks, a) /\ Fit(s, w, a, Len(s))

LEMMA LineWrapped ==
  ASSUME NEW s, IsLine(s), NEW w \in Nat \ {0}
  PROVE  \E a : Wrapped(s, w, WrapBreaks(s, w), a)
<1> DEFINE n == Len(s)
           f == CHOOSE g : Wraps(n, s, w, g)
<1>1. s \in Seq(Chars) /\ n \in Nat
  BY DEF IsLine
<1>2. Max({1, w}) = w
  BY OfTwo
<1>3. WrapBreaks(s, w) = f[n].breaks
  BY <1>2 DEF WrapBreaks, Wraps, NoBreak
<1>4. Wraps(n, s, w, f)
  BY <1>1, WrapsExist
<1> HIDE DEF f
<1>5. \A i \in 0 .. n : f[i] = IF i = 0 THEN NoBreak
                               ELSE Placed(f[RunStart(s, i)], SubSeq(s, RunStart(s, i) + 1, i), w)
  BY <1>4 DEF Wraps
<1> DEFINE end(m) == m = 0 \/ m = n \/ IsSpace(s[m]) # IsSpace(s[m + 1])
           good(m) == \E a \in 0 .. m : Opened(s, w, m, f[m], a) /\ (a < m \/ m = 0)
           G == {k \in 0 .. n : \A m \in 0 .. k : end(m) => good(m)}
<1>6. good(0)
  <2>1. f[0] = NoBreak
    BY <1>1, <1>5
  <2>2. ByteAt(s, 0) = 0 /\ Wide(s, 0, 0) = 0 /\ Fit(s, w, 0, 0)
    <3>1. 0 \in 0 .. Len(s)
      BY <1>1
    <3> QED
      BY <1>1, <3>1, BytesFacts, ColsFacts, FitFacts DEF Wide
  <2>3. Breaks(s, w, 0, <<0>>, 0)
    BY <2>2 DEF Breaks
  <2>4. 0 \in 0 .. Len(s) /\ 0 \in 0 .. 0
    BY <1>1
  <2>5. /\ NoBreak \in [breaks : Seq(Nat), col : Nat, at : Nat]
        /\ NoBreak.breaks = <<0>> /\ NoBreak.col = 0 /\ NoBreak.at = 0
    BY DEF NoBreak
  <2>6. Opened(s, w, 0, NoBreak, 0)
    BY <2>2, <2>3, <2>4, <2>5 DEF Opened
  <2> QED
    BY <2>1, <2>4, <2>6
<1>7. ASSUME NEW k \in 1 .. n, k - 1 \in G, end(k)
      PROVE  good(k)
  <2> DEFINE j == RunStart(s, k)
  <2>1. /\ j \in 0 .. (k - 1)
        /\ \A i \in (j + 1) .. k : IsSpace(s[i]) = IsSpace(s[j + 1])
        /\ j = 0 \/ IsSpace(s[j]) # IsSpace(s[j + 1])
    BY <1>1, RunStartFacts
  <2>2. f[k] = Placed(f[j], SubSeq(s, j + 1, k), w)
    <3>1. k \in 0 .. n /\ k # 0
      BY <1>1
    <3> QED
      BY <1>5, <3>1
  <2> HIDE DEF j, n
  <2>3. good(j)
    <3>1. end(j)
      BY <2>1
    <3> HIDE DEF good, end
    <3> QED
      BY <1>7, <2>1, <3>1
  <2>4. PICK a \in 0 .. j : Opened(s, w, j, f[j], a) /\ (a < j \/ j = 0)
    BY <2>3
  <2>5. RunAt(s, j, k)
    <3>1. IsSpace(s[k]) = IsSpace(s[j + 1])
      BY <2>1
    <3>2. j \in 0 .. Len(s) /\ k \in 0 .. Len(s) /\ j < k /\ k # 0
      BY <1>1, <2>1 DEF n
    <3>3. k = Len(s) \/ IsSpace(s[k + 1]) # IsSpace(s[j + 1])
      BY <1>7, <3>1, <3>2 DEF n
    <3> QED
      BY <2>1, <3>2, <3>3 DEF RunAt
  <2>6. PICK b \in 0 .. (k - 1) : Opened(s, w, k, Placed(f[j], SubSeq(s, j + 1, k), w), b)
    BY <2>4, <2>5, PlacedOpened
  <2>7. b \in 0 .. k /\ b < k
    BY <1>1
  <2> QED
    BY <2>2, <2>6, <2>7
<1> HIDE DEF good, end
<1>8. 0 \in G
  BY <1>1, <1>6
<1>9. ASSUME NEW k \in 1 .. n, k - 1 \in G
      PROVE  k \in G
  <2>1. \A m \in 0 .. k : m = k \/ m \in 0 .. (k - 1)
    BY <1>1
  <2>2. \A m \in 0 .. (k - 1) : end(m) => good(m)
    BY <1>9
  <2>3. k \in 0 .. n
    BY <1>1
  <2> QED
    BY <1>7, <1>9, <2>1, <2>2, <2>3
<1> HIDE DEF G, n
<1>10. n \in G
  <2>1. \A k \in 0 .. n : k \in G
    BY <1>1, <1>8, <1>9, UpTo
  <2> QED
    BY <1>1, <2>1
<1>11. good(n)
  <2>1. n \in 0 .. n /\ end(n)
    BY <1>1 DEF end
  <2> QED
    BY <1>10, <2>1 DEF G
<1>12. PICK a \in 0 .. n : Opened(s, w, n, f[n], a) /\ (a < n \/ n = 0)
  BY <1>11 DEF good
<1>13. Wrapped(s, w, f[n].breaks, a)
  BY <1>12 DEF Wrapped, Opened, n
<1> QED
  BY <1>3, <1>13

-----------------------------------------------------------------------------
(* The rows of a text.                                                     *)

\* The characters after l, up to e, are a line of the text, and all of it.
LineAt(t, l, e) ==
  /\ l \in 0 .. Len(t) /\ e \in l .. Len(t)
  /\ l = 0 \/ t[l] = "newline"
  /\ e = Len(t) \/ t[e + 1] = "newline"
  /\ \A i \in (l + 1) .. e : t[i] # "newline"

\* What holds of a part of a line holds of that part of the text.
LEMMA LineShift ==
  ASSUME NEW t \in Seq(Chars), NEW l, NEW e, LineAt(t, l, e), NEW w \in Nat,
         NEW a \in 0 .. (e - l), NEW b \in a .. (e - l)
  PROVE  LET s == SubSeq(t, l + 1, e)
         IN /\ Wide(s, a, b) = Wide(t, l + a, l + b)
            /\ Word(s, a, b) => Word(t, l + a, l + b)
            /\ Fit(s, w, a, b) => Fit(t, w, l + a, l + b)
<1> DEFINE s == SubSeq(t, l + 1, e)
           n == e - l
<1>1. l \in 0 .. Len(t) /\ e \in l .. Len(t) /\ n \in Nat /\ a \in 0 .. n /\ b \in 0 .. n /\ a <= b
  BY DEF LineAt
<1>2. /\ s \in Seq(Chars) /\ Len(s) = n /\ \A k \in 1 .. n : s[k] = t[l + k]
      /\ \A k \in 0 .. n : Left(s, k) = Left(t, l + k) - Left(t, l)
  BY <1>1, PartFacts
<1> HIDE DEF s
<1>3. \A x, y \in 0 .. n : Wide(s, x, y) = Wide(t, l + x, l + y)
  <2>1. ASSUME NEW x \in 0 .. n
        PROVE  Left(t, l + x) \in Nat /\ Left(t, l) \in Nat
    <3>1. l + x \in 0 .. Len(t)
      BY <1>1
    <3> HIDE DEF n
    <3> QED
      BY <1>1, <3>1, ColsFacts
  <2> HIDE DEF n
  <2> QED
    BY <1>2, <2>1 DEF Wide
<1>4. ASSUME NEW x \in 0 .. n, NEW y \in 0 .. n, Word(s, x, y)
      PROVE  Word(t, l + x, l + y)
  <2>1. x < y /\ l + x < l + y
    BY <1>1, <1>4 DEF Word
  <2>2. ASSUME NEW i \in (l + x + 1) .. (l + y)
        PROVE  ~IsSpace(t[i])
    <3>1. i - l \in (x + 1) .. y /\ i - l \in 1 .. n /\ l + (i - l) = i
      BY <1>1, <2>1
    <3>2. ~IsSpace(s[i - l])
      BY <1>4, <3>1 DEF Word
    <3> HIDE DEF n
    <3> QED
      BY <1>2, <3>1, <3>2
  <2>3. l + x = 0 \/ IsSpace(t[l + x])
    <3>1. CASE x = 0
      <4>1. l + x = l
        BY <1>1, <3>1
      <4> QED
        BY <4>1 DEF LineAt, IsSpace
    <3>2. CASE x # 0
      <4>1. IsSpace(s[x]) /\ x \in 1 .. n
        BY <1>4, <3>2 DEF Word
      <4> HIDE DEF n
      <4> QED
        BY <1>2, <4>1
    <3> QED
      BY <3>1, <3>2
  <2>4. l + y = Len(t) \/ IsSpace(t[(l + y) + 1])
    <3>1. CASE y = n
      <4>1. l + y = e
        BY <1>1, <3>1
      <4> QED
        BY <4>1 DEF LineAt, IsSpace
    <3>2. CASE y # n
      <4>1. IsSpace(s[y + 1])
        BY <1>2, <1>4, <3>2 DEF Word
      <4>2. y + 1 \in 1 .. n /\ l + (y + 1) = (l + y) + 1
        BY <1>1, <3>2
      <4> HIDE DEF n
      <4> QED
        BY <1>2, <4>1, <4>2
    <3> QED
      BY <3>1, <3>2
  <2>5. (l + x) + 1 = l + x + 1
    BY <1>1
  <2> QED
    BY <2>1, <2>2, <2>3, <2>4, <2>5 DEF Word
<1>5. ASSUME Fit(s, w, a, b)
      PROVE  Fit(t, w, l + a, l + b)
  <2>1. PICK c \in a .. b :
           /\ \A i \in (c + 1) .. b : IsSpace(s[i])
           /\ \/ Wide(s, a, c) <= w
              \/ \E k \in (a + 1) .. c : \A i \in (a + 1) .. c : i # k => Columns(s[i]) = 0
    BY <1>5 DEF Fit
  <2>2. c \in 0 .. n /\ l + c \in (l + a) .. (l + b)
    BY <1>1
  <2>3. ASSUME NEW i \in ((l + c) + 1) .. (l + b)
        PROVE  IsSpace(t[i])
    <3>1. i - l \in (c + 1) .. b /\ i - l \in 1 .. n /\ l + (i - l) = i
      BY <1>1, <2>2
    <3>2. IsSpace(s[i - l])
      BY <2>1, <3>1
    <3> HIDE DEF n
    <3> QED
      BY <1>2, <3>1, <3>2
  <2>4. CASE Wide(s, a, c) <= w
    <3>1. Wide(t, l + a, l + c) <= w
      BY <1>1, <1>3, <2>2, <2>4
    <3> QED
      BY <2>2, <2>3, <3>1 DEF Fit
  <2>5. CASE \E k \in (a + 1) .. c : \A i \in (a + 1) .. c : i # k => Columns(s[i]) = 0
    <3>1. PICK k \in (a + 1) .. c : \A i \in (a + 1) .. c : i # k => Columns(s[i]) = 0
      BY <2>5
    <3>2. l + k \in ((l + a) + 1) .. (l + c)
      BY <1>1, <2>2
    <3>3. ASSUME NEW i \in ((l + a) + 1) .. (l + c), i # l + k
          PROVE  Columns(t[i]) = 0
      <4>1. i - l \in (a + 1) .. c /\ i - l \in 1 .. n /\ l + (i - l) = i /\ i - l # k
        BY <1>1, <2>2, <3>3
      <4>2. Columns(s[i - l]) = 0
        BY <3>1, <4>1
      <4> HIDE DEF n
      <4> QED
        BY <1>2, <4>1, <4>2
    <3> QED
      BY <2>2, <2>3, <3>2, <3>3 DEF Fit
  <2> QED
    BY <2>1, <2>4, <2>5
<1> QED
  BY <1>1, <1>3, <1>4, <1>5 DEF s

LEMMA DueShift ==
  ASSUME NEW t \in Seq(Chars), NEW l, NEW e, LineAt(t, l, e), NEW w \in Nat,
         NEW a \in 0 .. (e - l), NEW b \in a .. (e - l), Due(SubSeq(t, l + 1, e), w, a, b)
  PROVE  Due(t, w, l + a, l + b)
<1> DEFINE s == SubSeq(t, l + 1, e)
           n == e - l
<1>1. l \in 0 .. Len(t) /\ e \in l .. Len(t) /\ n \in Nat /\ a \in 0 .. n /\ b \in 0 .. n /\ a <= b
  BY DEF LineAt
<1>2. Len(s) = n /\ \A k \in 1 .. n : s[k] = t[l + k]
  BY <1>1, PartFacts
<1> HIDE DEF s
<1>3. PICK p \in 0 .. n, q \in 0 .. n :
         /\ Word(s, p, q) /\ p <= b /\ b < q
         /\ b = p => Wide(s, a, b) + Wide(s, p, q) > w
         /\ p < b => p <= a /\ Wide(s, p, q) > w /\ Wide(s, a, b) + Columns(s[b + 1]) > w
  BY <1>2 DEF Due, s
<1>4. /\ q \in p .. n /\ l + p \in 0 .. Len(t) /\ l + q \in 0 .. Len(t)
      /\ l + p <= l + b /\ l + b < l + q
      /\ l + b = l + p => b = p
      /\ l + p < l + b => p < b
      /\ p <= a => l + p <= l + a
      /\ b + 1 \in 1 .. n /\ l + (b + 1) = (l + b) + 1
  BY <1>1, <1>3
<1>5. /\ Word(t, l + p, l + q)
      /\ Wide(s, p, q) = Wide(t, l + p, l + q)
      /\ Wide(s, a, b) = Wide(t, l + a, l + b)
  <2>1. Word(t, l + p, l + q) /\ Wide(s, p, q) = Wide(t, l + p, l + q)
    BY <1>3, <1>4, LineShift DEF s
  <2>2. Wide(s, a, b) = Wide(t, l + a, l + b)
    BY LineShift DEF s
  <2> QED
    BY <2>1, <2>2
<1>6. s[b + 1] = t[(l + b) + 1]
  <2> HIDE DEF n
  <2> QED
    BY <1>2, <1>4
<1> QED
  BY <1>3, <1>4, <1>5, <1>6 DEF Due

\* The characters of the text that come before a row, and before its end.
From(t, row) == CharAt(t, row.start)
Till(t, row) == CharAt(t, row.end)

\* A row is a part of a line that fits the width.
RowAt(t, w, row) ==
  /\ From(t, row) \in 0 .. Len(t) /\ Till(t, row) \in From(t, row) .. Len(t)
  /\ row = [start |-> ByteAt(t, From(t, row)), end |-> ByteAt(t, Till(t, row))]
  /\ \A i \in (From(t, row) + 1) .. Till(t, row) : t[i] # "newline"
  /\ Fit(t, w, From(t, row), Till(t, row))

\* The next row goes on at a break that is due, or behind a newline.
Follows(t, w, row, next) ==
  \/ /\ From(t, next) = Till(t, row) /\ From(t, row) < Till(t, row)
     /\ Due(t, w, From(t, row), Till(t, row))
  \/ From(t, next) = Till(t, row) + 1 /\ t[From(t, next)] = "newline"

\* The rows lay out the characters after l, up to m.
Laid(t, w, l, m, rows) ==
  /\ rows \in Seq([start : Nat, end : Nat]) /\ rows # <<>>
  /\ From(t, rows[1]) = l /\ Till(t, rows[Len(rows)]) = m
  /\ \A i \in 1 .. Len(rows) : RowAt(t, w, rows[i])
  /\ \A i \in 1 .. (Len(rows) - 1) : Follows(t, w, rows[i], rows[i + 1])

LEMMA LineLaid ==
  ASSUME NEW t \in Seq(Chars), NEW l, NEW e, LineAt(t, l, e), NEW w \in Nat \ {0}
  PROVE  Laid(t, w, l, e, LineRows(SubSeq(t, l + 1, e), ByteAt(t, l), w))
<1> DEFINE s == SubSeq(t, l + 1, e)
           n == e - l
           breaks == WrapBreaks(s, w)
           rows == LineRows(s, ByteAt(t, l), w)
<1>1. l \in 0 .. Len(t) /\ e \in l .. Len(t) /\ n \in Nat /\ l + n = e
  BY DEF LineAt
<1>2. /\ s \in Seq(Chars) /\ Len(s) = n /\ \A k \in 1 .. n : s[k] = t[l + k]
      /\ \A k \in 0 .. n : ByteAt(s, k) = ByteAt(t, l + k) - ByteAt(t, l)
      /\ Bytes(s) = ByteAt(t, e) - ByteAt(t, l)
  BY <1>1, PartFacts
<1>3. \A k \in 0 .. n : l + k \in 0 .. Len(t) /\ ByteAt(t, l + k) \in Nat /\ ByteAt(t, l) \in Nat
  <2>1. \A k \in 0 .. n : l + k \in 0 .. Len(t)
    BY <1>1
  <2> HIDE DEF n
  <2> QED
    BY <1>1, <2>1, BytesFacts
<1>4. IsLine(s)
  <2>1. ASSUME NEW i \in 1 .. n
        PROVE  t[l + i] # "newline"
    <3>1. l + i \in (l + 1) .. e
      BY <1>1
    <3> QED
      BY <3>1 DEF LineAt
  <2> HIDE DEF s, n
  <2> QED
    BY <1>2, <2>1 DEF IsLine
<1>5. PICK a : Wrapped(s, w, breaks, a)
  <2> HIDE DEF s
  <2> QED
    BY <1>4, LineWrapped
<1> HIDE DEF s, breaks
<1>6. /\ a \in 0 .. n /\ Fit(s, w, a, n)
      /\ breaks \in Seq(Nat) /\ breaks # <<>> /\ breaks[1] = 0
      /\ breaks[Len(breaks)] = ByteAt(s, a)
      /\ \A j \in 1 .. (Len(breaks) - 1) :
           \E x, y \in 0 .. n : /\ x < y /\ breaks[j] = ByteAt(s, x) /\ breaks[j + 1] = ByteAt(s, y)
                                /\ Fit(s, w, x, y) /\ Due(s, w, x, y)
  BY <1>2, <1>5 DEF Wrapped, Breaks
<1> DEFINE last == Len(breaks)
<1>7. last \in Nat \ {0}
  BY <1>6
<1>8. rows = [i \in 1 .. last |-> [start |-> ByteAt(t, l) + breaks[i],
                                   end |-> ByteAt(t, l) + IF i < last THEN breaks[i + 1]
                                                          ELSE Bytes(s)]]
  BY <1>6 DEF LineRows, breaks
<1> HIDE DEF rows
<1>9. ASSUME NEW i \in 1 .. last
      PROVE  \E x \in 0 .. n : \E y \in x .. n :
               /\ rows[i] = [start |-> ByteAt(t, l + x), end |-> ByteAt(t, l + y)]
               /\ Fit(s, w, x, y)
               /\ i = last => y = n
               /\ i # last => x < y /\ Due(s, w, x, y) /\ breaks[i + 1] = ByteAt(s, y)
  <2>1. CASE i = last
    <3>1. rows[i] = [start |-> ByteAt(t, l) + ByteAt(s, a), end |-> ByteAt(t, l) + Bytes(s)]
      BY <1>6, <1>8, <2>1
    <3>2. n \in a .. n /\ n \in 0 .. n
      BY <1>1, <1>6
    <3>3. ByteAt(t, l) + ByteAt(s, a) = ByteAt(t, l + a) /\ ByteAt(t, l) + Bytes(s) = ByteAt(t, l + n)
      <4> HIDE DEF n, last
      <4>1. ByteAt(s, a) = ByteAt(t, l + a) - ByteAt(t, l) /\ {ByteAt(t, l + a), ByteAt(t, l)} \subseteq Nat
        BY <1>2, <1>3, <1>6
      <4>2. Bytes(s) = ByteAt(t, l + n) - ByteAt(t, l) /\ ByteAt(t, l + n) \in Nat
        BY <1>1, <1>2, <1>3, <3>2
      <4> QED
        BY <4>1, <4>2
    <3> QED
      BY <1>6, <2>1, <3>1, <3>2, <3>3
  <2>2. CASE i # last
    <3>1. i \in 1 .. (last - 1) /\ i < last
      BY <1>7, <2>2
    <3>2. PICK x \in 0 .. n, y \in 0 .. n :
             /\ x < y /\ breaks[i] = ByteAt(s, x) /\ breaks[i + 1] = ByteAt(s, y)
             /\ Fit(s, w, x, y) /\ Due(s, w, x, y)
      BY <1>6, <3>1
    <3>3. rows[i] = [start |-> ByteAt(t, l) + ByteAt(s, x), end |-> ByteAt(t, l) + ByteAt(s, y)]
      BY <1>8, <3>1, <3>2
    <3>4. ByteAt(t, l) + ByteAt(s, x) = ByteAt(t, l + x) /\ ByteAt(t, l) + ByteAt(s, y) = ByteAt(t, l + y)
      BY <1>2, <1>3
    <3>5. y \in x .. n
      BY <1>1, <3>2
    <3> QED
      BY <2>2, <3>2, <3>3, <3>4, <3>5
  <2> QED
    BY <2>1, <2>2
<1>10. ASSUME NEW i \in 1 .. last
       PROVE  /\ RowAt(t, w, rows[i]) /\ rows[i] \in [start : Nat, end : Nat]
              /\ i = last => Till(t, rows[i]) = e
              /\ i # last => /\ From(t, rows[i]) < Till(t, rows[i])
                             /\ Due(t, w, From(t, rows[i]), Till(t, rows[i]))
                             /\ rows[i].end = ByteAt(t, l) + breaks[i + 1]
  <2>1. PICK x \in 0 .. n : \E y \in x .. n :
               /\ rows[i] = [start |-> ByteAt(t, l + x), end |-> ByteAt(t, l + y)]
               /\ Fit(s, w, x, y)
               /\ i = last => y = n
               /\ i # last => x < y /\ Due(s, w, x, y) /\ breaks[i + 1] = ByteAt(s, y)
    BY <1>9
  <2>2. PICK y \in x .. n :
               /\ rows[i] = [start |-> ByteAt(t, l + x), end |-> ByteAt(t, l + y)]
               /\ Fit(s, w, x, y)
               /\ i = last => y = n
               /\ i # last => x < y /\ Due(s, w, x, y) /\ breaks[i + 1] = ByteAt(s, y)
    BY <2>1
  <2>3. /\ y \in 0 .. n /\ l + x \in 0 .. Len(t) /\ l + y \in 0 .. Len(t) /\ l + y \in (l + x) .. Len(t)
        /\ x < y => l + x < l + y
    BY <1>1, <2>2
  <2>4. From(t, rows[i]) = l + x /\ Till(t, rows[i]) = l + y
    <3>1. CharAt(t, ByteAt(t, l + x)) = l + x /\ CharAt(t, ByteAt(t, l + y)) = l + y
      BY <2>3, CharOf
    <3> HIDE DEF n
    <3> QED
      BY <2>2, <3>1 DEF From, Till
  <2>5. Fit(t, w, l + x, l + y)
    <3>1. y \in x .. (e - l) /\ x \in 0 .. (e - l)
      OBVIOUS
    <3> HIDE DEF n
    <3> QED
      BY <2>2, <3>1, LineShift DEF s
  <2>6. ASSUME NEW j \in ((l + x) + 1) .. (l + y)
        PROVE  t[j] # "newline"
    <3>1. j \in (l + 1) .. e
      BY <1>1
    <3> QED
      BY <3>1 DEF LineAt
  <2>7. ByteAt(t, l + x) \in Nat /\ ByteAt(t, l + y) \in Nat /\ ByteAt(t, l) \in Nat
    BY <1>3, <2>3
  <2>8. RowAt(t, w, rows[i]) /\ rows[i] \in [start : Nat, end : Nat]
    <3> HIDE DEF n
    <3> QED
      BY <2>2, <2>3, <2>4, <2>5, <2>6, <2>7 DEF RowAt
  <2>9. i = last => Till(t, rows[i]) = e
    BY <1>1, <2>2, <2>4
  <2>10. ASSUME i # last
         PROVE  /\ From(t, rows[i]) < Till(t, rows[i])
                /\ Due(t, w, From(t, rows[i]), Till(t, rows[i]))
                /\ rows[i].end = ByteAt(t, l) + breaks[i + 1]
    <3>1. x < y /\ Due(s, w, x, y) /\ breaks[i + 1] = ByteAt(s, y)
      BY <2>2, <2>10
    <3>2. y \in x .. (e - l) /\ x \in 0 .. (e - l)
      OBVIOUS
    <3>3. Due(t, w, l + x, l + y)
      <4> HIDE DEF n
      <4> QED
        BY <3>1, <3>2, DueShift DEF s
    <3>4. rows[i].end = ByteAt(t, l + y) /\ ByteAt(s, y) = ByteAt(t, l + y) - ByteAt(t, l)
      BY <1>2, <2>2, <2>3
    <3> HIDE DEF n
    <3> QED
      BY <2>3, <2>4, <2>7, <3>1, <3>3, <3>4
  <2> QED
    BY <2>8, <2>9, <2>10
<1>11. rows \in Seq([start : Nat, end : Nat]) /\ Len(rows) = last /\ rows # <<>>
  <2>1. rows \in [1 .. last -> [start : Nat, end : Nat]]
    <3>1. rows = [i \in 1 .. last |-> rows[i]]
      BY <1>8
    <3> HIDE DEF last
    <3> QED
      BY <1>10, <3>1
  <2>2. ASSUME NEW S, NEW r \in [1 .. last -> S]
        PROVE  r \in Seq(S) /\ Len(r) = last /\ r # <<>>
    <3> HIDE DEF last
    <3> QED
      BY <1>7, <2>2
  <2> HIDE DEF last
  <2> QED
    BY <2>1, <2>2, Zenon
<1>12. From(t, rows[1]) = l
  <2>1. rows[1].start = ByteAt(t, l) + 0
    BY <1>6, <1>7, <1>8
  <2>2. rows[1].start = ByteAt(t, l)
    <3>1. l + 0 = l /\ 0 \in 0 .. n
      BY <1>1
    <3>2. ByteAt(t, l) \in Nat
      BY <1>3, <3>1
    <3> QED
      BY <2>1, <3>2
  <2> QED
    BY <1>1, <2>2, CharOf DEF From
<1>13. ASSUME NEW i \in 1 .. (last - 1)
       PROVE  Follows(t, w, rows[i], rows[i + 1])
  <2>1. i \in 1 .. last /\ i # last /\ i + 1 \in 1 .. last
    BY <1>7
  <2>2. rows[i + 1].start = ByteAt(t, l) + breaks[i + 1]
    BY <1>8, <2>1
  <2>3. /\ From(t, rows[i]) < Till(t, rows[i])
        /\ Due(t, w, From(t, rows[i]), Till(t, rows[i]))
        /\ rows[i].end = ByteAt(t, l) + breaks[i + 1]
    BY <1>10, <2>1
  <2>4. From(t, rows[i + 1]) = Till(t, rows[i])
    BY <2>2, <2>3 DEF From, Till
  <2> QED
    BY <2>3, <2>4 DEF Follows
<1>14. last \in 1 .. last
  BY <1>7
<1> HIDE DEF last
<1>15. Laid(t, w, l, e, rows)
  BY <1>10, <1>11, <1>12, <1>13, <1>14 DEF Laid
<1> QED
  BY <1>15 DEF rows, s

LEMMA LaidJoin ==
  ASSUME NEW t \in Seq(Chars), NEW w, NEW l, NEW m \in Nat, NEW n,
         NEW above, Laid(t, w, l, m, above), NEW below, Laid(t, w, m + 1, n, below),
         t[m + 1] = "newline"
  PROVE  Laid(t, w, l, n, above \o below)
<1> DEFINE R == [start : Nat, end : Nat]
           a == Len(above)
           b == Len(below)
           rows == above \o below
<1> HIDE DEF R
<1>1. above \in Seq(R) /\ below \in Seq(R) /\ a \in Nat \ {0} /\ b \in Nat \ {0}
  <2>1. above \in Seq(R) /\ below \in Seq(R) /\ above # <<>> /\ below # <<>>
    BY DEF Laid, R
  <2> QED
    BY <2>1
<1>2. rows \in Seq(R) /\ rows # <<>> /\ Len(rows) = a + b
  BY <1>1
<1>3. /\ \A i \in 1 .. a : rows[i] = above[i]
      /\ \A i \in (a + 1) .. (a + b) : rows[i] = below[i - a]
  BY <1>1
<1> HIDE DEF a, b, rows
<1>4. rows[1] = above[1] /\ rows[a + b] = below[b] /\ rows[a] = above[a] /\ rows[a + 1] = below[1]
  <2>1. /\ (a + b) - a = b /\ (a + 1) - a = 1 /\ {1, a} \subseteq 1 .. a
        /\ {a + b, a + 1} \subseteq (a + 1) .. (a + b)
    BY <1>1
  <2>2. rows[1] = above[1] /\ rows[a] = above[a]
    BY <1>3, <2>1
  <2>3. rows[a + b] = below[(a + b) - a] /\ rows[a + 1] = below[(a + 1) - a]
    BY <1>3, <2>1
  <2> QED
    BY <2>1, <2>2, <2>3
<1>5. ASSUME NEW i \in 1 .. (a + b)
      PROVE  RowAt(t, w, rows[i])
  <2>1. CASE i <= a
    <3>1. i \in 1 .. a
      BY <1>1, <2>1
    <3>2. RowAt(t, w, above[i])
      BY <3>1 DEF Laid, a
    <3> QED
      BY <1>3, <3>1, <3>2
  <2>2. CASE ~(i <= a)
    <3>1. i \in (a + 1) .. (a + b) /\ i - a \in 1 .. b
      BY <1>1, <2>2
    <3>2. RowAt(t, w, below[i - a])
      BY <3>1 DEF Laid, b
    <3> QED
      BY <1>3, <3>1, <3>2
  <2> QED
    BY <2>1, <2>2
<1>6. ASSUME NEW i \in 1 .. (a + b - 1)
      PROVE  Follows(t, w, rows[i], rows[i + 1])
  <2>1. CASE i < a
    <3>1. i \in 1 .. (a - 1) /\ i \in 1 .. a /\ i + 1 \in 1 .. a
      BY <1>1, <2>1
    <3>2. Follows(t, w, above[i], above[i + 1])
      BY <3>1 DEF Laid, a
    <3> QED
      BY <1>3, <3>1, <3>2
  <2>2. CASE i = a
    <3>1. Till(t, above[a]) = m /\ From(t, below[1]) = m + 1
      BY DEF Laid, a
    <3> QED
      BY <1>4, <2>2, <3>1 DEF Follows
  <2>3. CASE i > a
    <3>1. /\ i \in (a + 1) .. (a + b) /\ i - a \in 1 .. (b - 1) /\ i + 1 \in (a + 1) .. (a + b)
          /\ (i + 1) - a = (i - a) + 1
      BY <1>1, <2>3
    <3>2. Follows(t, w, below[i - a], below[(i - a) + 1])
      BY <3>1 DEF Laid, b
    <3> QED
      BY <1>3, <3>1, <3>2
  <2> QED
    BY <1>1, <2>1, <2>2, <2>3
<1>7. From(t, rows[1]) = l /\ Till(t, rows[a + b]) = n
  BY <1>4 DEF Laid, b
<1>8. Laid(t, w, l, n, rows)
  <2>1. rows \in Seq([start : Nat, end : Nat]) /\ rows # <<>>
    BY <1>2 DEF R
  <2>2. \A i \in 1 .. Len(rows) : RowAt(t, w, rows[i])
    BY <1>2, <1>5
  <2>3. ASSUME NEW i \in 1 .. (Len(rows) - 1)
        PROVE  Follows(t, w, rows[i], rows[i + 1])
    <3>1. i \in 1 .. (a + b - 1)
      BY <1>1, <1>2
    <3> QED
      BY <1>6, <3>1
  <2>4. From(t, rows[1]) = l /\ Till(t, rows[Len(rows)]) = n
    BY <1>2, <1>7
  <2> QED
    BY <2>1, <2>2, <2>3, <2>4 DEF Laid
<1> QED
  BY <1>8 DEF rows

LEMMA LineStartFacts ==
  ASSUME NEW t \in Seq(Chars), NEW i \in 0 .. Len(t)
  PROVE  /\ LineStart(t, i) \in 0 .. i
         /\ LineStart(t, i) = 0 \/ t[LineStart(t, i)] = "newline"
         /\ \A k \in (LineStart(t, i) + 1) .. i : t[k] # "newline"
<1> DEFINE S == {0} \cup {j \in 1 .. i : t[j] = "newline"}
           l == LineStart(t, i)
<1>1. S \in SUBSET (0 .. i) /\ S # {} /\ i \in Nat
  OBVIOUS
<1>2. l = Max(S)
  BY DEF LineStart
<1> HIDE DEF S, l
<1>3. l \in S /\ \A y \in S : y <= l
  BY <1>1, <1>2, Greatest
<1>4. ASSUME NEW k \in (l + 1) .. i
      PROVE  t[k] # "newline"
  <2>1. l \in 0 .. i /\ k \in 1 .. i /\ ~(k <= l)
    BY <1>1, <1>3
  <2> QED
    BY <1>3, <2>1 DEF S
<1> QED
  BY <1>1, <1>3, <1>4 DEF S, l

Lays(n, t, w, f) ==
  f = [i \in 0 .. n |-> (IF LineStart(t, i) = 0 THEN <<>> ELSE f[LineStart(t, i) - 1])
                           \o LineRows(SubSeq(t, LineStart(t, i) + 1, i), ByteAt(t, LineStart(t, i)), w)]

LEMMA LaysExist ==
  ASSUME NEW t \in Seq(Chars), NEW w
  PROVE  \E f : Lays(Len(t), t, w, f)
<1> DEFINE n == Len(t)
           line(i) == LineRows(SubSeq(t, LineStart(t, i) + 1, i), ByteAt(t, LineStart(t, i)), w)
           step(g, i) == (IF LineStart(t, i) = 0 THEN <<>> ELSE g[LineStart(t, i) - 1]) \o line(i)
           G == {m \in 0 .. n : \E f : Lays(m, t, w, f)}
<1>1. 0 \in G
  <2> DEFINE f == [i \in 0 .. 0 |-> <<>> \o line(0)]
  <2>1. LineStart(t, 0) = 0
    <3>1. 0 \in 0 .. Len(t)
      OBVIOUS
    <3>2. LineStart(t, 0) \in 0 .. 0
      BY <3>1, LineStartFacts
    <3> QED
      BY <3>2
  <2>2. \A i \in 0 .. 0 : i = 0
    OBVIOUS
  <2>3. f = [i \in 0 .. 0 |-> step(f, i)]
    <3>1. step(f, 0) = <<>> \o line(0)
      BY <2>1
    <3> HIDE DEF line, step
    <3> QED
      BY <2>2, <3>1
  <2>4. Lays(0, t, w, f)
    <3> HIDE DEF f
    <3> QED
      BY <2>3 DEF Lays
  <2> QED
    BY <2>4
<1>2. ASSUME NEW m \in 1 .. n, m - 1 \in G
      PROVE  m \in G
  <2>1. PICK f : Lays(m - 1, t, w, f)
    BY <1>2
  <2> DEFINE next == [i \in 0 .. m |-> IF i = m THEN step(f, m) ELSE f[i]]
  <2>2. \A i \in 0 .. (m - 1) : f[i] = step(f, i)
    <3>1. f = [i \in 0 .. (m - 1) |-> step(f, i)]
      BY <2>1 DEF Lays
    <3> HIDE DEF step
    <3> QED
      BY <3>1
  <2>3. ASSUME NEW i \in 0 .. m
        PROVE  step(next, i) = step(f, i)
    <3>1. LineStart(t, i) \in 0 .. i
      BY LineStartFacts
    <3>2. LineStart(t, i) # 0 => LineStart(t, i) - 1 \in 0 .. m /\ LineStart(t, i) - 1 # m
      BY <3>1
    <3>3. LineStart(t, i) # 0 => next[LineStart(t, i) - 1] = f[LineStart(t, i) - 1]
      <4> HIDE DEF step
      <4> QED
        BY <3>2
    <3> HIDE DEF next, line
    <3> QED
      BY <3>3
  <2>4. next[m] = step(f, m) /\ \A i \in 0 .. (m - 1) : next[i] = f[i]
    <3> HIDE DEF step
    <3> QED
      OBVIOUS
  <2>5. ASSUME NEW i \in 0 .. m
        PROVE  next[i] = step(next, i)
    <3>1. i = m \/ i \in 0 .. (m - 1)
      OBVIOUS
    <3> HIDE DEF next, step
    <3> QED
      BY <2>2, <2>3, <2>4, <3>1
  <2>6. next = [i \in 0 .. m |-> next[i]]
    <3> HIDE DEF step
    <3> QED
      OBVIOUS
  <2>7. Lays(m, t, w, next)
    <3> HIDE DEF next
    <3>1. next = [i \in 0 .. m |-> step(next, i)]
      <4> HIDE DEF step
      <4> QED
        BY <2>5, <2>6
    <3> QED
      BY <3>1 DEF Lays
  <2> HIDE DEF next
  <2> QED
    BY <2>7
<1> HIDE DEF G, step, line
<1>3. n \in G
  <2>1. n \in Nat
    OBVIOUS
  <2> HIDE DEF n
  <2>2. \A m \in 0 .. n : m \in G
    BY <1>1, <1>2, <2>1, UpTo
  <2> QED
    BY <2>1, <2>2
<1> QED
  BY <1>3 DEF G

\* The rows of a text are its lines', wrapped.
LEMMA TextLaid ==
  ASSUME NEW t \in Seq(Chars), NEW w \in Nat \ {0}
  PROVE  Laid(t, w, 0, Len(t), LayoutRows(t, w))
<1> DEFINE n == Len(t)
           f == CHOOSE g : Lays(n, t, w, g)
           line(l, i) == LineRows(SubSeq(t, l + 1, i), ByteAt(t, l), w)
<1>1. LayoutRows(t, w) = f[n]
  BY DEF LayoutRows, Lays
<1>2. Lays(n, t, w, f)
  BY LaysExist
<1> HIDE DEF f
<1>3. ASSUME NEW i \in 0 .. n, NEW l, l = LineStart(t, i)
      PROVE  f[i] = (IF l = 0 THEN <<>> ELSE f[l - 1]) \o line(l, i)
  BY <1>2, <1>3 DEF Lays
<1> DEFINE end(m) == m = n \/ t[m + 1] = "newline"
           good(m) == Laid(t, w, 0, m, f[m])
           G == {k \in 0 .. n : \A m \in 0 .. k : end(m) => good(m)}
<1>4. ASSUME NEW k \in 0 .. n, end(k), \A m \in 0 .. (k - 1) : end(m) => good(m)
      PROVE  good(k)
  <2> DEFINE l == LineStart(t, k)
  <2>1. /\ l \in 0 .. k /\ (l = 0 \/ t[l] = "newline")
        /\ \A i \in (l + 1) .. k : t[i] # "newline"
    BY LineStartFacts
  <2>2. f[k] = (IF l = 0 THEN <<>> ELSE f[l - 1]) \o line(l, k)
    <3> HIDE DEF line
    <3> QED
      BY <1>3
  <2> HIDE DEF l
  <2>3. Laid(t, w, l, k, line(l, k))
    <3>1. l \in 0 .. Len(t) /\ k \in l .. Len(t)
      BY <2>1
    <3>2. LineAt(t, l, k)
      BY <1>4, <2>1, <3>1 DEF LineAt
    <3> QED
      BY <3>2, LineLaid
  <2> HIDE DEF line
  <2>4. CASE l = 0
    <3>1. line(l, k) \in Seq([start : Nat, end : Nat])
      BY <2>3 DEF Laid
    <3>2. <<>> \o line(l, k) = line(l, k)
      BY <3>1
    <3> QED
      BY <2>2, <2>3, <2>4, <3>2
  <2>5. CASE l # 0
    <3>1. l - 1 \in 0 .. (k - 1) /\ l - 1 \in Nat /\ (l - 1) + 1 = l
      BY <2>1, <2>5
    <3>2. end(l - 1)
      BY <2>1, <2>5, <3>1
    <3>3. Laid(t, w, 0, l - 1, f[l - 1])
      BY <1>4, <3>1, <3>2
    <3>4. f[k] = f[l - 1] \o line(l, k)
      BY <2>2, <2>5
    <3> QED
      BY <2>1, <2>3, <2>5, <3>1, <3>3, <3>4, LaidJoin
  <2> QED
    BY <2>4, <2>5
<1>5. n \in Nat
  OBVIOUS
<1> HIDE DEF good, end, line, n
<1>6. 0 \in G
  <2>1. \A m \in 0 .. 0 : m = 0
    OBVIOUS
  <2>2. \A m \in 0 .. (0 - 1) : FALSE
    OBVIOUS
  <2> QED
    BY <1>4, <1>5, <2>1, <2>2
<1>7. ASSUME NEW k \in 1 .. n, k - 1 \in G
      PROVE  k \in G
  <2>1. \A m \in 0 .. k : m = k \/ m \in 0 .. (k - 1)
    BY <1>5
  <2>2. \A m \in 0 .. (k - 1) : end(m) => good(m)
    BY <1>7
  <2>3. k \in 0 .. n
    BY <1>5
  <2> QED
    BY <1>4, <1>7, <2>1, <2>2, <2>3
<1> HIDE DEF G
<1>8. n \in G
  <2>1. \A k \in 0 .. n : k \in G
    BY <1>5, <1>6, <1>7, UpTo
  <2> QED
    BY <1>5, <2>1
<1>9. good(n)
  <2>1. n \in 0 .. n /\ end(n)
    BY <1>5 DEF end
  <2> QED
    BY <1>8, <2>1 DEF G
<1> QED
  BY <1>1, <1>9 DEF good, n

-----------------------------------------------------------------------------
(* The wrap is the greedy one.                                             *)

\* Where a row lies in the text, and how the next one follows.
LEMMA RowSpan ==
  ASSUME NEW t \in Seq(Chars), NEW w \in Nat \ {0}, NEW rows, Laid(t, w, 0, Len(t), rows),
         NEW i \in 1 .. Len(rows), NEW x, x = From(t, rows[i]), NEW y, y = Till(t, rows[i])
  PROVE  /\ x \in 0 .. Len(t) /\ y \in 0 .. Len(t) /\ y \in x .. Len(t) /\ x <= y
         /\ rows[i].start = ByteAt(t, x) /\ rows[i].end = ByteAt(t, y)
         /\ Slice(t, rows[i].start, rows[i].end) = SubSeq(t, x + 1, y)
         /\ \A k \in (x + 1) .. y : t[k] # "newline"
         /\ Fit(t, w, x, y)
         /\ i < Len(rows) =>
              /\ rows[i + 1].start = ByteAt(t, From(t, rows[i + 1]))
              /\ IF Seamless(rows, i)
                 THEN From(t, rows[i + 1]) = y /\ x < y /\ Due(t, w, x, y)
                 ELSE From(t, rows[i + 1]) = y + 1 /\ t[y + 1] = "newline" /\ y + 1 \in 1 .. Len(t)
<1>1. RowAt(t, w, rows[i]) /\ Len(rows) \in Nat
  BY DEF Laid
<1>2. /\ x \in 0 .. Len(t) /\ y \in x .. Len(t)
      /\ rows[i].start = ByteAt(t, x) /\ rows[i].end = ByteAt(t, y)
      /\ \A k \in (x + 1) .. y : t[k] # "newline"
      /\ Fit(t, w, x, y)
  BY <1>1 DEF RowAt
<1>3. y \in 0 .. Len(t) /\ x <= y
  BY <1>2
<1>4. ASSUME i < Len(rows)
      PROVE  /\ rows[i + 1].start = ByteAt(t, From(t, rows[i + 1]))
             /\ IF Seamless(rows, i)
                THEN From(t, rows[i + 1]) = y /\ x < y /\ Due(t, w, x, y)
                ELSE From(t, rows[i + 1]) = y + 1 /\ t[y + 1] = "newline" /\ y + 1 \in 1 .. Len(t)
  <2>1. i \in 1 .. (Len(rows) - 1) /\ i + 1 \in 1 .. Len(rows)
    BY <1>1, <1>4
  <2> DEFINE z == From(t, rows[i + 1])
  <2>2. z \in 0 .. Len(t) /\ rows[i + 1].start = ByteAt(t, z)
    <3>1. RowAt(t, w, rows[i + 1])
      BY <2>1 DEF Laid
    <3> QED
      BY <3>1 DEF RowAt
  <2>3. Follows(t, w, rows[i], rows[i + 1])
    BY <2>1 DEF Laid
  <2>4. Seamless(rows, i) <=> z = y
    <3>1. CharAt(t, ByteAt(t, z)) = z /\ CharAt(t, ByteAt(t, y)) = y
      BY <1>3, <2>2, CharOf
    <3> HIDE DEF z
    <3> QED
      BY <1>2, <1>4, <2>2, <3>1 DEF Seamless
  <2>5. \/ z = y /\ x < y /\ Due(t, w, x, y)
        \/ z = y + 1 /\ t[z] = "newline"
    BY <2>3 DEF Follows
  <2> HIDE DEF z
  <2>6. y + 1 # y /\ (z = y + 1 => y + 1 \in 1 .. Len(t))
    BY <1>3, <2>2
  <2>7. IF Seamless(rows, i) THEN z = y /\ x < y /\ Due(t, w, x, y)
        ELSE z = y + 1 /\ t[y + 1] = "newline" /\ y + 1 \in 1 .. Len(t)
    BY <2>4, <2>5, <2>6
  <2> QED
    BY <2>2, <2>7 DEF z
<1>5. Slice(t, rows[i].start, rows[i].end) = SubSeq(t, x + 1, y)
  BY DEF Slice, From, Till
<1> QED
  BY <1>2, <1>3, <1>4, <1>5

LEMMA OneOf ==
  ASSUME NEW s \in Seq(Chars), NEW i \in 1 .. Len(s)
  PROVE  SubSeq(s, i, i) = <<s[i]>>
<1>1. i + 0 \in 1 .. Len(s)
  OBVIOUS
<1> DEFINE one == SubSeq(s, i, i)
<1>2. one \in Seq(Chars) /\ Len(one) = 1 /\ one[1] = s[i]
  OBVIOUS
<1> HIDE DEF one
<1>3. one = <<s[i]>>
  BY <1>2
<1> QED
  BY <1>3 DEF one

LEMMA TheText ==
  ASSUME text \in Seq(Chars), width \in Nat \ {0}, NEW rows, Laid(text, width, 0, Len(text), rows)
  PROVE  RowsAreTheText(rows)
<1> DEFINE n == Len(rows)
<1>1. n \in Nat /\ n # 0 /\ 1 \in 1 .. n /\ n \in 1 .. n /\ DOMAIN rows = 1 .. n
  BY DEF Laid
<1>0. ASSUME NEW i \in 1 .. n
      PROVE  rows[i].start = ByteAt(text, From(text, rows[i])) /\ rows[i].end = ByteAt(text, Till(text, rows[i]))
  BY RowSpan
<1> HIDE DEF n
<1>2. rows[1].start = 0
  BY <1>0, <1>1, BytesFacts DEF Laid
<1>3. rows[n].end = Bytes(text)
  <2>1. rows[n].end = ByteAt(text, Till(text, rows[n]))
    BY <1>0, <1>1
  <2> QED
    BY <2>1, BytesFacts DEF Laid, n
<1>4. ASSUME NEW i \in 1 .. n
      PROVE  /\ ~Contains(RowText(rows[i]), "newline")
             /\ i < n => IF Seamless(rows, i) THEN RowText(rows[i]) # <<>>
                         ELSE Slice(text, rows[i].end, rows[i + 1].start) = <<"newline">>
  <2> DEFINE x == From(text, rows[i])
             y == Till(text, rows[i])
             row == SubSeq(text, x + 1, y)
  <2>1. /\ x \in 0 .. Len(text) /\ y \in 0 .. Len(text) /\ y \in x .. Len(text) /\ x <= y
        /\ rows[i].end = ByteAt(text, y)
        /\ Slice(text, rows[i].start, rows[i].end) = SubSeq(text, x + 1, y)
        /\ \A k \in (x + 1) .. y : text[k] # "newline"
        /\ i < n =>
              /\ rows[i + 1].start = ByteAt(text, From(text, rows[i + 1]))
              /\ IF Seamless(rows, i)
                 THEN From(text, rows[i + 1]) = y /\ x < y
                 ELSE From(text, rows[i + 1]) = y + 1 /\ text[y + 1] = "newline" /\ y + 1 \in 1 .. Len(text)
    BY RowSpan DEF n
  <2> HIDE DEF x, y
  <2>2. RowText(rows[i]) = row
    BY <2>1 DEF RowText
  <2>3. row \in Seq(Chars) /\ Len(row) = y - x /\ \A k \in 1 .. (y - x) : row[k] = text[x + k]
    BY <2>1, PartFacts
  <2> HIDE DEF row
  <2>4. ~Contains(row, "newline")
    <3>1. \A k \in 1 .. (y - x) : x + k \in (x + 1) .. y
      BY <2>1
    <3>2. \A k \in 1 .. Len(row) : row[k] # "newline"
      BY <2>1, <2>3, <3>1
    <3> QED
      BY <3>2 DEF Contains
  <2>5. ASSUME i < n
        PROVE  IF Seamless(rows, i) THEN row # <<>>
               ELSE Slice(text, rows[i].end, rows[i + 1].start) = <<"newline">>
    <3>1. CASE Seamless(rows, i)
      BY <2>1, <2>3, <2>5, <3>1
    <3>2. CASE ~Seamless(rows, i)
      <4>1. /\ rows[i + 1].start = ByteAt(text, y + 1)
            /\ text[y + 1] = "newline" /\ y + 1 \in 1 .. Len(text) /\ y + 1 \in 0 .. Len(text)
        BY <2>1, <2>5, <3>2
      <4>2. Slice(text, rows[i].end, rows[i + 1].start) = SubSeq(text, y + 1, y + 1)
        BY <2>1, <4>1, SliceOf
      <4>3. SubSeq(text, y + 1, y + 1) = <<text[y + 1]>>
        BY <4>1, OneOf
      <4> QED
        BY <3>2, <4>1, <4>2, <4>3
    <3> QED
      BY <3>1, <3>2
  <2> QED
    BY <2>2, <2>4, <2>5
<1>5. \A i \in 1 .. (n - 1) : i \in 1 .. n /\ i < n
  BY <1>1
<1> QED
  BY <1>1, <1>2, <1>3, <1>4, <1>5 DEF RowsAreTheText, n

LEMMA TextFits ==
  ASSUME text \in Seq(Chars), width \in Nat \ {0}, NEW rows, Laid(text, width, 0, Len(text), rows)
  PROVE  RowsFit(rows)
<1> SUFFICES ASSUME NEW i \in DOMAIN rows
             PROVE  LET seen == Trimmed(RowText(rows[i])) IN
                    \/ Cols(seen) <= width
                    \/ \E k \in DOMAIN seen : \A j \in DOMAIN seen \ {k} : Columns(seen[j]) = 0
  BY DEF RowsFit
<1> DEFINE x == From(text, rows[i])
           y == Till(text, rows[i])
           row == SubSeq(text, x + 1, y)
           m == Max({0} \cup {k \in DOMAIN row : ~IsSpace(row[k])})
           seen == SubSeq(row, 0 + 1, m)
<1>1. /\ x \in 0 .. Len(text) /\ y \in x .. Len(text) /\ x <= y
      /\ RowText(rows[i]) = row
      /\ Fit(text, width, x, y)
  <2>1. i \in 1 .. Len(rows)
    BY DEF Laid
  <2> QED
    BY <2>1, RowSpan DEF RowText
<1> HIDE DEF x, y
<1>2. /\ row \in Seq(Chars) /\ Len(row) = y - x /\ \A k \in 1 .. (y - x) : row[k] = text[x + k]
      /\ \A k \in 0 .. (y - x) : Left(row, k) = Left(text, x + k) - Left(text, x)
  BY <1>1, PartFacts
<1> HIDE DEF row
<1>3. m \in 0 .. (y - x) /\ (m = 0 \/ ~IsSpace(row[m]))
  <2> DEFINE S == {0} \cup {k \in DOMAIN row : ~IsSpace(row[k])}
  <2>1. S \in SUBSET (0 .. (y - x)) /\ S # {} /\ y - x \in Nat
    BY <1>1, <1>2
  <2>2. \A k \in S : k = 0 \/ ~IsSpace(row[k])
    OBVIOUS
  <2> HIDE DEF S
  <2>3. Max(S) \in S
    BY <2>1, Greatest
  <2>4. m = Max(S)
    BY DEF S
  <2> HIDE DEF m
  <2> QED
    BY <2>1, <2>2, <2>3, <2>4
<1>4. Trimmed(row) = seen
  BY DEF Trimmed
<1> HIDE DEF m
<1>5. /\ seen \in Seq(Chars) /\ Len(seen) = m /\ \A k \in 1 .. m : seen[k] = text[x + k]
      /\ Cols(seen) = Wide(text, x, x + m)
  <2>1. /\ seen \in Seq(Chars) /\ Len(seen) = m - 0 /\ \A k \in 1 .. (m - 0) : seen[k] = row[0 + k]
        /\ Cols(seen) = Left(row, m) - Left(row, 0)
    <3>1. 0 \in 0 .. Len(row) /\ m \in 0 .. Len(row)
      BY <1>1, <1>2, <1>3
    <3> QED
      BY <1>2, <3>1, PartFacts
  <2>2. /\ m - 0 = m /\ \A k \in 1 .. m : 0 + k = k /\ k \in 1 .. (y - x)
    BY <1>1, <1>3
  <2>3. Left(row, 0) = 0 /\ Left(row, m) \in Nat
    <3>1. m \in 0 .. Len(row)
      BY <1>2, <1>3
    <3> QED
      BY <1>2, <3>1, ColsFacts
  <2>4. Left(row, m) = Wide(text, x, x + m)
    BY <1>2, <1>3 DEF Wide
  <2> HIDE DEF seen
  <2> QED
    BY <1>2, <2>1, <2>2, <2>3, <2>4
<1> HIDE DEF seen
<1>6. PICK e \in x .. y :
         /\ \A k \in (e + 1) .. y : IsSpace(text[k])
         /\ \/ Wide(text, x, e) <= width
            \/ \E k \in (x + 1) .. e : \A j \in (x + 1) .. e : j # k => Columns(text[j]) = 0
  BY <1>1 DEF Fit
<1>7. m <= e - x
  <2>1. SUFFICES ASSUME m > e - x PROVE FALSE
    BY <1>1, <1>3, <1>6
  <2>2. m \in 1 .. (y - x) /\ x + m \in (e + 1) .. y
    BY <1>1, <1>3, <1>6, <2>1
  <2>3. IsSpace(row[m])
    BY <1>2, <1>6, <2>2
  <2> QED
    BY <1>3, <2>2, <2>3
<1>8. CASE Wide(text, x, e) <= width
  <2>1. x + m \in 0 .. Len(text) /\ e \in 0 .. Len(text) /\ (x + m = e \/ x + m < e)
    BY <1>1, <1>3, <1>6, <1>7
  <2>2. Left(text, x + m) <= Left(text, e) /\ {Left(text, x + m), Left(text, e), Left(text, x)} \subseteq Nat
    <3>1. {Left(text, x + m), Left(text, e), Left(text, x)} \subseteq Nat
      BY <1>1, <2>1, ColsFacts
    <3>2. Left(text, x + m) <= Left(text, e)
      BY <2>1, <3>1, LeftOrder
    <3> QED
      BY <3>1, <3>2
  <2>3. Wide(text, x, x + m) <= width
    BY <1>8, <2>2 DEF Wide
  <2> QED
    BY <1>1, <1>4, <1>5, <2>3
<1>9. CASE \E k \in (x + 1) .. e : \A j \in (x + 1) .. e : j # k => Columns(text[j]) = 0
  <2>1. PICK k \in (x + 1) .. e : \A j \in (x + 1) .. e : j # k => Columns(text[j]) = 0
    BY <1>9
  <2>2. \A j \in 1 .. m : x + j \in (x + 1) .. e
    BY <1>1, <1>3, <1>6, <1>7
  <2>3. CASE m = 0
    <3>1. Wide(text, x, x + m) = 0
      <4>1. x + m = x /\ Left(text, x) \in Nat
        BY <1>1, <2>3, ColsFacts
      <4> QED
        BY <4>1 DEF Wide
    <3> QED
      BY <1>1, <1>4, <1>5, <3>1
  <2>4. CASE m # 0
    <3> DEFINE one == IF k - x \in 1 .. m THEN k - x ELSE 1
    <3>1. one \in 1 .. m
      BY <1>3, <2>4
    <3>2. ASSUME NEW j \in 1 .. m, j # one
          PROVE  Columns(text[x + j]) = 0
      <4>1. x + j # k
        BY <1>1, <3>2
      <4> QED
        BY <2>1, <2>2, <4>1
    <3> HIDE DEF one
    <3>3. \A j \in 1 .. m : j # one => Columns(seen[j]) = 0
      BY <1>5, <3>2
    <3>4. DOMAIN seen = 1 .. m
      BY <1>3, <1>5
    <3> QED
      BY <1>1, <1>4, <3>1, <3>3, <3>4
  <2> QED
    BY <2>3, <2>4
<1> QED
  BY <1>6, <1>8, <1>9

\* The word before a position in it is what of the word is there; the one after is the rest.
LEMMA WordsAt ==
  ASSUME NEW t \in Seq(Chars), NEW p \in 0 .. Len(t), NEW q \in 0 .. Len(t), Word(t, p, q),
         NEW y \in 0 .. Len(t), p <= y, y < q
  PROVE  LET before == LastWord(SubSeq(t, 1, y))
             after == FirstWord(SubSeq(t, y + 1, Len(t)))
         IN /\ Cols(before) = Wide(t, p, y) /\ (before = <<>> <=> y = p)
            /\ Cols(after) = Wide(t, y, q) /\ after # <<>> /\ after[1] = t[y + 1]
<1>1. /\ y \in 0 .. Len(t) /\ 0 \in 0 .. Len(t) /\ y \in 0 .. y /\ Len(t) \in y .. Len(t)
      /\ Len(t) \in Nat /\ p \in 0 .. y
  OBVIOUS
<1> DEFINE above == SubSeq(t, 0 + 1, y)
           below == SubSeq(t, y + 1, Len(t))
<1>2. /\ above \in Seq(Chars) /\ Len(above) = y - 0 /\ \A k \in 1 .. (y - 0) : above[k] = t[0 + k]
      /\ \A k \in 0 .. (y - 0) : Left(above, k) = Left(t, 0 + k) - Left(t, 0)
  BY <1>1, PartFacts
<1>3. /\ below \in Seq(Chars) /\ Len(below) = Len(t) - y
      /\ \A k \in 1 .. (Len(t) - y) : below[k] = t[y + k]
      /\ \A k \in 0 .. (Len(t) - y) : Left(below, k) = Left(t, y + k) - Left(t, y)
  BY <1>1, PartFacts
<1> HIDE DEF above, below
<1>4. ASSUME NEW k \in 0 .. Len(t)
      PROVE  Left(t, k) \in Nat /\ Left(t, 0) = 0
  BY ColsFacts
<1>5. Max({0} \cup {i \in DOMAIN above : IsSpace(above[i])}) = p
  <2> DEFINE S == {0} \cup {i \in DOMAIN above : IsSpace(above[i])}
  <2>1. S \in SUBSET (0 .. y) /\ S # {} /\ \A i \in S : i = 0 \/ IsSpace(t[i])
    BY <1>1, <1>2
  <2>2. p \in S
    <3>1. CASE p = 0
      BY <3>1
    <3>2. CASE p # 0
      <4>1. p \in 1 .. y /\ IsSpace(t[p])
        BY <1>1, <3>2 DEF Word
      <4> QED
        BY <1>1, <1>2, <4>1
    <3> QED
      BY <3>1, <3>2
  <2> HIDE DEF S
  <2>3. Max(S) \in S /\ p <= Max(S) /\ Max(S) \in 0 .. y
    <3>1. y \in Nat
      BY <1>1
    <3>2. Max(S) \in S /\ \A k \in S : k <= Max(S)
      BY <2>1, <3>1, Greatest
    <3> QED
      BY <2>1, <2>2, <3>2
  <2>4. SUFFICES ASSUME Max(S) > p PROVE FALSE
    BY <1>1, <2>3 DEF S
  <2>5. Max(S) \in (p + 1) .. q /\ Max(S) # 0
    BY <1>1, <2>3, <2>4
  <2>6. ~IsSpace(t[Max(S)])
    BY <2>5 DEF Word
  <2> QED
    BY <2>1, <2>3, <2>5, <2>6
<1>6. Min({Len(below) + 1} \cup {i \in DOMAIN below : IsSpace(below[i])}) = q - y + 1
  <2> DEFINE S == {Len(below) + 1} \cup {i \in DOMAIN below : IsSpace(below[i])}
             n == Len(t) - y
  <2>1. n \in Nat /\ S \in SUBSET Nat /\ \A i \in S : i = n + 1 \/ (i \in 1 .. n /\ IsSpace(t[y + i]))
    BY <1>1, <1>3
  <2>2. q - y + 1 \in S
    <3>1. CASE q = Len(t)
      BY <1>1, <1>3, <3>1
    <3>2. CASE q # Len(t)
      <4>1. q - y + 1 \in 1 .. n /\ y + (q - y + 1) = q + 1 /\ IsSpace(t[q + 1])
        BY <1>1, <3>2 DEF Word
      <4>2. below[q - y + 1] = t[q + 1] /\ q - y + 1 \in DOMAIN below
        BY <1>3, <4>1
      <4> QED
        BY <4>1, <4>2
    <3> QED
      BY <3>1, <3>2
  <2> HIDE DEF S
  <2>3. Min(S) \in S /\ Min(S) <= q - y + 1
    BY <2>1, <2>2, Least
  <2>4. SUFFICES ASSUME Min(S) < q - y + 1 PROVE FALSE
    BY <1>1, <2>1, <2>3 DEF S
  <2>5. Min(S) \in 1 .. n /\ IsSpace(t[y + Min(S)])
    <3>1. Min(S) # n + 1
      BY <1>1, <2>1, <2>3, <2>4
    <3> QED
      BY <2>1, <2>3, <3>1
  <2>6. y + Min(S) \in (p + 1) .. q
    BY <1>1, <2>4, <2>5
  <2> QED
    BY <2>5, <2>6 DEF Word
<1> DEFINE before == SubSeq(above, p + 1, y)
           after == SubSeq(below, 0 + 1, q - y)
<1>7. LastWord(above) = before
  <2>1. Len(above) = y
    BY <1>2
  <2> QED
    BY <1>5, <2>1 DEF LastWord
<1>8. FirstWord(below) = after
  <2> DEFINE end == Min({Len(below) + 1} \cup {i \in DOMAIN below : IsSpace(below[i])})
  <2>1. FirstWord(below) = SubSeq(below, 1, end - 1)
    BY DEF FirstWord
  <2> HIDE DEF end
  <2>2. end - 1 = q - y
    <3>1. end = q - y + 1
      BY <1>6 DEF end
    <3> QED
      BY <1>1, <3>1
  <2> QED
    BY <2>1, <2>2
<1>9. /\ Cols(before) = Left(above, y) - Left(above, p)
      /\ Len(before) = y - p /\ before \in Seq(Chars)
  <2>1. p \in 0 .. Len(above) /\ y \in p .. Len(above)
    BY <1>1, <1>2
  <2> QED
    BY <1>2, <2>1, PartFacts
<1>10. /\ Cols(after) = Left(below, q - y) - Left(below, 0)
       /\ Len(after) = (q - y) - 0 /\ after \in Seq(Chars)
       /\ \A k \in 1 .. ((q - y) - 0) : after[k] = below[0 + k]
  <2>1. 0 \in 0 .. Len(below) /\ q - y \in 0 .. Len(below)
    BY <1>1, <1>3
  <2> QED
    BY <1>3, <2>1, PartFacts
<1> HIDE DEF before, after
<1>11. Cols(before) = Wide(t, p, y) /\ (before = <<>> <=> y = p)
  <2>1. Left(above, y) = Left(t, y) - Left(t, 0) /\ Left(above, p) = Left(t, p) - Left(t, 0)
    <3>1. y \in 0 .. (y - 0) /\ p \in 0 .. (y - 0) /\ 0 + y = y /\ 0 + p = p
      BY <1>1
    <3> QED
      BY <1>2, <3>1
  <2>2. before = <<>> <=> y = p
    BY <1>1, <1>9
  <2> QED
    BY <1>1, <1>4, <1>9, <2>1, <2>2 DEF Wide
<1>12. Cols(after) = Wide(t, y, q) /\ after # <<>> /\ after[1] = t[y + 1]
  <2>1. /\ q - y \in 0 .. (Len(t) - y) /\ 0 \in 0 .. (Len(t) - y) /\ y + (q - y) = q /\ y + 0 = y
        /\ 1 \in 1 .. ((q - y) - 0) /\ 1 \in 1 .. (Len(t) - y) /\ 0 + 1 = 1
    BY <1>1
  <2>2. Left(below, q - y) = Left(t, q) - Left(t, y) /\ Left(below, 0) = Left(t, y) - Left(t, y)
    BY <1>3, <2>1
  <2>3. after[1] = below[1] /\ below[1] = t[y + 1]
    BY <1>3, <1>10, <2>1
  <2>4. after # <<>>
    BY <1>1, <1>10
  <2> QED
    BY <1>1, <1>4, <1>10, <2>2, <2>3, <2>4 DEF Wide
<1> QED
  BY <1>7, <1>8, <1>11, <1>12 DEF above, below

LEMMA TextDue ==
  ASSUME text \in Seq(Chars), width \in Nat \ {0}, NEW rows, Laid(text, width, 0, Len(text), rows)
  PROVE  BreaksAreDue(rows)
<1> SUFFICES ASSUME NEW i \in DOMAIN rows, Seamless(rows, i)
             PROVE  LET row == RowText(rows[i])
                        before == LastWord(Slice(text, 0, rows[i].end))
                        after == FirstWord(Slice(text, rows[i].end, Bytes(text)))
                    IN /\ after # <<>>
                       /\ IF before = <<>> THEN Cols(row) + Cols(after) > width
                          ELSE /\ Cols(before) + Cols(after) > width
                               /\ \A j \in DOMAIN row : ~IsSpace(row[j])
                               /\ Cols(row) + Columns(after[1]) > width
  BY DEF BreaksAreDue
<1> DEFINE n == Len(text)
           x == From(text, rows[i])
           y == Till(text, rows[i])
           row == SubSeq(text, x + 1, y)
           before == LastWord(SubSeq(text, 1, y))
           after == FirstWord(SubSeq(text, y + 1, n))
<1>1. /\ x \in 0 .. n /\ y \in 0 .. n /\ y \in x .. n /\ x <= y
      /\ RowText(rows[i]) = row /\ rows[i].end = ByteAt(text, y)
      /\ x < y /\ Due(text, width, x, y)
  <2>1. i \in 1 .. Len(rows) /\ i < Len(rows)
    BY DEF Laid, Seamless
  <2> QED
    BY <2>1, RowSpan DEF RowText
<1> HIDE DEF x, y
<1>2. Slice(text, 0, rows[i].end) = SubSeq(text, 1, y) /\ Slice(text, rows[i].end, Bytes(text)) = SubSeq(text, y + 1, n)
  <2>1. 0 = ByteAt(text, 0) /\ Bytes(text) = ByteAt(text, n) /\ 0 \in 0 .. n /\ n \in 0 .. n
    BY BytesFacts
  <2>2. CharAt(text, 0) = 0 /\ CharAt(text, Bytes(text)) = n /\ CharAt(text, ByteAt(text, y)) = y
    BY <1>1, <2>1, CharOf
  <2> HIDE DEF n
  <2> QED
    BY <1>1, <2>2 DEF Slice
<1>3. PICK p \in 0 .. n, q \in 0 .. n :
         /\ Word(text, p, q) /\ p <= y /\ y < q
         /\ y = p => Wide(text, x, y) + Wide(text, p, q) > width
         /\ p < y => p <= x /\ Wide(text, p, q) > width /\ Wide(text, x, y) + Columns(text[y + 1]) > width
  BY <1>1 DEF Due
<1>4. /\ Cols(before) = Wide(text, p, y) /\ (before = <<>> <=> y = p)
      /\ Cols(after) = Wide(text, y, q) /\ after # <<>> /\ after[1] = text[y + 1]
  BY <1>1, <1>3, WordsAt
<1>5. Cols(row) = Wide(text, x, y) /\ Len(row) = y - x /\ \A k \in 1 .. (y - x) : row[k] = text[x + k]
  BY <1>1, PartFacts DEF Wide
<1> SUFFICES /\ after # <<>>
             /\ IF before = <<>> THEN Cols(row) + Cols(after) > width
                ELSE /\ Cols(before) + Cols(after) > width
                     /\ \A j \in DOMAIN row : ~IsSpace(row[j])
                     /\ Cols(row) + Columns(after[1]) > width
  <2> HIDE DEF row, n
  <2> QED
    BY <1>1, <1>2
<1> HIDE DEF row, before, after
<1>6. CASE y = p
  BY <1>3, <1>4, <1>5, <1>6
<1>7. CASE y # p
  <2>1. p < y /\ p <= x
    BY <1>1, <1>3, <1>7
  <2>2. Wide(text, p, y) + Wide(text, y, q) = Wide(text, p, q)
    <3>1. {Left(text, p), Left(text, y), Left(text, q)} \subseteq Nat
      BY <1>1, <1>3, ColsFacts
    <3> QED
      BY <3>1 DEF Wide
  <2>3. ASSUME NEW j \in 1 .. (y - x)
        PROVE  ~IsSpace(row[j])
    <3>1. x + j \in (p + 1) .. q
      BY <1>1, <1>3, <2>1
    <3>2. ~IsSpace(text[x + j])
      BY <1>3, <3>1 DEF Word
    <3> QED
      BY <1>5, <3>2
  <2>4. DOMAIN row = 1 .. (y - x)
    <3>1. row \in Seq(Chars)
      BY <1>1, PartFacts DEF row
    <3> QED
      BY <1>5, <3>1
  <2> QED
    BY <1>3, <1>4, <1>5, <1>7, <2>1, <2>2, <2>3, <2>4
<1> QED
  BY <1>6, <1>7

-----------------------------------------------------------------------------
(* Rows, columns and positions.                                            *)

\* A later row begins no earlier.
LEMMA RowOrder ==
  ASSUME NEW t \in Seq(Chars), NEW w \in Nat \ {0}, NEW rows, Laid(t, w, 0, Len(t), rows),
         NEW i \in 1 .. Len(rows), NEW j \in 1 .. Len(rows), i <= j
  PROVE  From(t, rows[i]) <= From(t, rows[j])
<1> DEFINE n == Len(rows)
           m == j - i
           at(k) == From(t, rows[k])
           G == {k \in 0 .. m : at(i) <= at(i + k)}
<1>1. n \in Nat /\ m \in Nat /\ i + m = j
  BY DEF Laid
<1>2. ASSUME NEW k \in 1 .. n
      PROVE  at(k) \in Nat
  <2>1. at(k) \in 0 .. Len(t)
    BY RowSpan
  <2> QED
    BY <2>1
<1>3. ASSUME NEW k \in 1 .. n, k < n
      PROVE  at(k) <= at(k + 1)
  <2>1. /\ From(t, rows[k]) \in 0 .. Len(t) /\ Till(t, rows[k]) \in 0 .. Len(t)
        /\ From(t, rows[k]) <= Till(t, rows[k])
        /\ IF Seamless(rows, k) THEN From(t, rows[k + 1]) = Till(t, rows[k])
           ELSE From(t, rows[k + 1]) = Till(t, rows[k]) + 1
    BY <1>3, RowSpan
  <2> QED
    BY <2>1
<1> HIDE DEF at, n
<1>4. 0 \in G
  <2>1. i + 0 = i /\ at(i) \in Nat
    BY <1>2 DEF n
  <2> QED
    BY <1>1, <2>1
<1>5. ASSUME NEW k \in 1 .. m, k - 1 \in G
      PROVE  k \in G
  <2>1. /\ i + (k - 1) \in 1 .. n /\ i + (k - 1) < n /\ (i + (k - 1)) + 1 = i + k /\ i + k \in 1 .. n
        /\ i \in 1 .. n
    BY <1>1 DEF n
  <2>2. at(i + (k - 1)) <= at((i + (k - 1)) + 1)
    BY <1>3, <2>1
  <2>3. at(i) <= at(i + (k - 1))
    BY <1>5
  <2>4. {at(i), at(i + (k - 1)), at(i + k)} \subseteq Nat
    BY <1>2, <2>1
  <2>5. at(i) <= at(i + k)
    BY <2>1, <2>2, <2>3, <2>4
  <2> QED
    BY <2>5
<1> HIDE DEF G, m
<1>6. m \in G
  <2>1. \A k \in 0 .. m : k \in G
    BY <1>1, <1>4, <1>5, UpTo
  <2> QED
    BY <1>1, <2>1
<1> QED
  BY <1>1, <1>6 DEF G, at

\* The character position k is on row r.
OnRow(t, rows, k, r) ==
  /\ r \in 1 .. Len(rows) /\ From(t, rows[r]) <= k /\ k <= Till(t, rows[r])
  /\ k = Till(t, rows[r]) => ~Seamless(rows, r)

LEMMA RowOfFacts ==
  ASSUME NEW t \in Seq(Chars), NEW w \in Nat \ {0}, NEW rows, Laid(t, w, 0, Len(t), rows),
         NEW k \in 0 .. Len(t)
  PROVE  /\ OnRow(t, rows, k, RowOf(rows, ByteAt(t, k)))
         /\ \A r : OnRow(t, rows, k, r) => r = RowOf(rows, ByteAt(t, k))
<1> DEFINE n == Len(rows)
           pos == ByteAt(t, k)
           S == {i \in DOMAIN rows : \/ i = n \/ pos < rows[i].end
                                     \/ pos = rows[i].end /\ ~Seamless(rows, i)}
           r == RowOf(rows, pos)
<1>1. n \in Nat \ {0} /\ DOMAIN rows = 1 .. n
  BY DEF Laid
<1>2. r = Min(S)
  BY DEF RowOf
<1>3. ASSUME NEW i \in 1 .. n
      PROVE  /\ From(t, rows[i]) \in 0 .. Len(t) /\ Till(t, rows[i]) \in 0 .. Len(t)
             /\ From(t, rows[i]) <= Till(t, rows[i])
             /\ pos < rows[i].end <=> k < Till(t, rows[i])
             /\ pos = rows[i].end <=> k = Till(t, rows[i])
             /\ i < n => IF Seamless(rows, i) THEN From(t, rows[i + 1]) = Till(t, rows[i])
                         ELSE From(t, rows[i + 1]) = Till(t, rows[i]) + 1
  <2> DEFINE y == Till(t, rows[i])
  <2>1. /\ From(t, rows[i]) \in 0 .. Len(t) /\ y \in 0 .. Len(t)
        /\ From(t, rows[i]) <= y /\ rows[i].end = ByteAt(t, y)
        /\ i < n => IF Seamless(rows, i) THEN From(t, rows[i + 1]) = y
                         ELSE From(t, rows[i + 1]) = y + 1
    BY RowSpan
  <2> HIDE DEF y
  <2>2. ByteAt(t, y) \in Nat /\ pos \in Nat
    BY <2>1, BytesFacts
  <2>3. k < y => pos < ByteAt(t, y)
    BY <2>1, ByteOrder
  <2>4. y < k => ByteAt(t, y) < pos
    BY <2>1, ByteOrder
  <2>5. k = y => pos = ByteAt(t, y)
    OBVIOUS
  <2>6. k < y \/ y < k \/ k = y
    BY <2>1
  <2> HIDE DEF pos
  <2>7. (pos < ByteAt(t, y) <=> k < y) /\ (pos = ByteAt(t, y) <=> k = y)
    BY <2>1, <2>2, <2>3, <2>4, <2>5, <2>6
  <2> QED
    BY <2>1, <2>7 DEF y
<1>4. \A i \in 1 .. n : i \in S <=> \/ i = n \/ k < Till(t, rows[i])
                                    \/ k = Till(t, rows[i]) /\ ~Seamless(rows, i)
  <2> HIDE DEF n, pos
  <2> QED
    BY <1>1, <1>3
<1>5. S \in SUBSET Nat /\ S # {} /\ S \subseteq 1 .. n
  <2> HIDE DEF pos
  <2> QED
    BY <1>1
<1> HIDE DEF S, r, pos
<1>6. r \in S /\ \A i \in S : r <= i
  BY <1>2, <1>5, Least
<1>7. r \in 1 .. n
  BY <1>5, <1>6
<1>8. k <= Till(t, rows[r]) /\ (k = Till(t, rows[r]) => ~Seamless(rows, r))
  <2>1. CASE r = n
    <3>1. Till(t, rows[n]) = Len(t)
      BY DEF Laid
    <3>2. ~Seamless(rows, n)
      BY DEF Seamless
    <3> HIDE DEF n
    <3> QED
      BY <2>1, <3>1, <3>2
  <2>2. CASE r # n
    <3> HIDE DEF n
    <3>1. k < Till(t, rows[r]) \/ (k = Till(t, rows[r]) /\ ~Seamless(rows, r))
      BY <1>4, <1>6, <1>7, <2>2
    <3>2. Till(t, rows[r]) \in Nat
      BY <1>3, <1>7
    <3> QED
      BY <3>1, <3>2
  <2> QED
    BY <2>1, <2>2
<1>9. From(t, rows[r]) <= k
  <2>1. CASE r = 1
    <3>1. From(t, rows[1]) = 0
      BY DEF Laid
    <3> QED
      BY <2>1, <3>1
  <2>2. CASE r # 1
    <3> HIDE DEF n
    <3> DEFINE i == r - 1
    <3>1. i \in 1 .. n /\ i < n /\ i # n /\ i + 1 = r /\ ~(r <= i)
      BY <1>1, <1>7, <2>2
    <3>2. i \notin S
      BY <1>6, <3>1
    <3> HIDE DEF i
    <3>3. ~(k < Till(t, rows[i])) /\ (k = Till(t, rows[i]) => Seamless(rows, i))
      BY <1>4, <3>1, <3>2
    <3>4. Till(t, rows[i]) \in Nat
      BY <1>3, <3>1
    <3>5. IF Seamless(rows, i) THEN From(t, rows[r]) = Till(t, rows[i])
          ELSE From(t, rows[r]) = Till(t, rows[i]) + 1
      BY <1>3, <3>1
    <3> QED
      BY <3>3, <3>4, <3>5
  <2> QED
    BY <2>1, <2>2
<1>10. ASSUME NEW s, OnRow(t, rows, k, s)
       PROVE  s = r
  <2>1. s \in 1 .. n /\ From(t, rows[s]) <= k /\ k <= Till(t, rows[s]) /\ s \in Nat
        /\ (k = Till(t, rows[s]) => ~Seamless(rows, s))
    BY <1>1, <1>10 DEF OnRow
  <2>2. s \in S
    <3> HIDE DEF n
    <3>1. Till(t, rows[s]) \in Nat
      BY <1>3, <2>1
    <3> QED
      BY <1>4, <2>1, <3>1
  <2>3. SUFFICES ASSUME r < s PROVE FALSE
    BY <1>6, <1>7, <2>1, <2>2
  <2>4. r + 1 \in 1 .. n /\ r < n /\ r + 1 <= s
    BY <1>1, <1>7, <2>1, <2>3
  <2>5. From(t, rows[r + 1]) <= From(t, rows[s])
    BY <2>1, <2>4, RowOrder
  <2> HIDE DEF n
  <2>6. {From(t, rows[r + 1]), From(t, rows[s]), Till(t, rows[r])} \subseteq Nat
    BY <1>3, <1>7, <2>1, <2>4
  <2>7. IF Seamless(rows, r) THEN From(t, rows[r + 1]) = Till(t, rows[r])
        ELSE From(t, rows[r + 1]) = Till(t, rows[r]) + 1
    BY <1>3, <1>7, <2>4
  <2>8. k = Till(t, rows[r]) /\ Seamless(rows, r)
    BY <1>8, <2>1, <2>5, <2>6, <2>7
  <2> QED
    BY <1>8, <2>8
<1> QED
  BY <1>7, <1>8, <1>9, <1>10 DEF OnRow, r, pos

\* Where in the row, of which the bytes are counted from its start, a column is.
LEMMA InRow ==
  ASSUME NEW row \in Seq(Chars), NEW col \in Nat
  PROVE  \E m \in 0 .. Len(row) : ByteForCol(row, col) = ByteAt(row, m) /\ Left(row, m) <= col
<1> DEFINE n == Len(row)
           S == {i \in 0 .. n : i = n \/ Cols(SubSeq(row, 1, i + 1)) > col}
           m == Min(S)
<1>1. n \in Nat /\ S \in SUBSET Nat /\ S # {} /\ S \subseteq 0 .. n
  OBVIOUS
<1>2. ByteForCol(row, col) = ByteAt(row, m)
  BY DEF ByteForCol
<1>3. \A i \in 0 .. n : i \notin S => ~(Left(row, i + 1) > col)
  BY DEF Left
<1> HIDE DEF S, m
<1>4. m \in S /\ \A i \in S : m <= i
  BY <1>1, Least DEF m
<1>5. m \in 0 .. n
  BY <1>1, <1>4
<1>6. Left(row, m) <= col
  <2>1. CASE m = 0
    BY <2>1, ColsFacts
  <2>2. CASE m # 0
    <3>1. m - 1 \in 0 .. n /\ ~(m <= m - 1) /\ (m - 1) + 1 = m
      BY <1>1, <1>5, <2>2
    <3>2. m - 1 \notin S
      BY <1>4, <3>1
    <3>3. ~(Left(row, m) > col)
      BY <1>3, <3>1, <3>2
    <3>4. Left(row, m) \in Nat
      BY <1>5, ColsFacts
    <3> QED
      BY <3>3, <3>4
  <2> QED
    BY <2>1, <2>2
<1> QED
  BY <1>2, <1>5, <1>6

\* The column of a position on a row.
LEMMA ColumnOf ==
  ASSUME text \in Seq(Chars), width \in Nat \ {0}, NEW rows, Laid(text, width, 0, Len(text), rows),
         NEW r \in 1 .. Len(rows), NEW k \in 0 .. Len(text),
         From(text, rows[r]) <= k, k <= Till(text, rows[r])
  PROVE  DisplayCol(RowText(rows[r]), ByteAt(text, k) - rows[r].start) = Wide(text, From(text, rows[r]), k)
<1> DEFINE x == From(text, rows[r])
           y == Till(text, rows[r])
           row == SubSeq(text, x + 1, y)
<1>1. /\ x \in 0 .. Len(text) /\ y \in x .. Len(text)
      /\ RowText(rows[r]) = row /\ rows[r].start = ByteAt(text, x)
      /\ k - x \in 0 .. (y - x) /\ x + (k - x) = k /\ 0 \in 0 .. (y - x)
  <2>1. /\ x \in 0 .. Len(text) /\ y \in x .. Len(text)
        /\ RowText(rows[r]) = row /\ rows[r].start = ByteAt(text, x)
    BY RowSpan DEF RowText
  <2> HIDE DEF row
  <2> QED
    BY <2>1
<1> HIDE DEF x, y
<1>2. /\ row \in Seq(Chars) /\ Len(row) = y - x
      /\ ByteAt(row, k - x) = ByteAt(text, x + (k - x)) - ByteAt(text, x)
      /\ Left(row, k - x) = Left(text, x + (k - x)) - Left(text, x)
  BY <1>1, PartFacts
<1> HIDE DEF row
<1>3. Slice(row, 0, ByteAt(row, k - x)) = SubSeq(row, 0 + 1, k - x)
  <2>1. ByteAt(row, 0) = 0 /\ 0 \in 0 .. Len(row) /\ k - x \in 0 .. Len(row)
    BY <1>1, <1>2, BytesFacts
  <2>2. Slice(row, ByteAt(row, 0), ByteAt(row, k - x)) = SubSeq(row, 0 + 1, k - x)
    BY <1>2, <2>1, SliceOf
  <2> QED
    BY <2>1, <2>2
<1>4. Cols(SubSeq(row, 0 + 1, k - x)) = Left(row, k - x)
  BY DEF Left
<1>5. DisplayCol(row, ByteAt(text, k) - ByteAt(text, x)) = Left(text, k) - Left(text, x)
  <2>1. ByteAt(text, k) - ByteAt(text, x) = ByteAt(row, k - x)
    BY <1>1, <1>2
  <2> QED
    BY <1>1, <1>2, <1>3, <1>4, <2>1 DEF DisplayCol
<1> QED
  BY <1>1, <1>5 DEF Wide, x

LEMMA LandingFacts ==
  ASSUME text \in Seq(Chars), width \in Nat \ {0}, NEW rows, Laid(text, width, 0, Len(text), rows),
         NEW r \in 1 .. Len(rows), NEW col \in Nat
  PROVE  LET k == Landing(rows, r, col)
         IN /\ k \in 0 .. Len(text) /\ RowOf(rows, ByteAt(text, k)) = r
            /\ DisplayCol(RowText(rows[r]), ByteAt(text, k) - rows[r].start) <= col
<1> DEFINE x == From(text, rows[r])
           y == Till(text, rows[r])
           row == SubSeq(text, x + 1, y)
<1>1. /\ x \in 0 .. Len(text) /\ y \in 0 .. Len(text) /\ y \in x .. Len(text) /\ x <= y
      /\ Slice(text, rows[r].start, rows[r].end) = row /\ rows[r].start = ByteAt(text, x)
      /\ Seamless(rows, r) => x < y
  <2>1. Seamless(rows, r) => r < Len(rows)
    BY DEF Seamless
  <2> QED
    BY <2>1, RowSpan
<1> HIDE DEF x, y
<1>2. /\ row \in Seq(Chars) /\ Len(row) = y - x
      /\ \A k \in 0 .. (y - x) : ByteAt(row, k) = ByteAt(text, x + k) - ByteAt(text, x)
      /\ \A k \in 0 .. (y - x) : Left(row, k) = Left(text, x + k) - Left(text, x)
  BY <1>1, PartFacts
<1> HIDE DEF row
<1>3. PICK m \in 0 .. Len(row) : ByteForCol(row, col) = ByteAt(row, m) /\ Left(row, m) <= col
  BY <1>2, InRow
<1> DEFINE back == Seamless(rows, r) /\ m = Len(row)
           to == IF back THEN m - 1 ELSE m
           k == x + to
<1>4. /\ to \in 0 .. (y - x) /\ to <= m /\ k \in 0 .. Len(text) /\ x <= k /\ k <= y
      /\ k = y => ~Seamless(rows, r)
      /\ y - x \in Nat /\ m \in 0 .. (y - x)
  BY <1>1, <1>2, <1>3
<1>5. ResolveInRow(text, rows, r, col) = ByteAt(text, x) + ByteAt(row, to)
  <2>1. ByteAt(row, m) = Bytes(row) <=> m = Len(row)
    <3>1. Len(row) \in 0 .. Len(row) /\ Bytes(row) = ByteAt(row, Len(row))
      BY <1>2, BytesFacts
    <3>2. CharAt(row, ByteAt(row, m)) = m /\ CharAt(row, ByteAt(row, Len(row))) = Len(row)
      BY <1>2, <1>3, <3>1, CharOf
    <3> QED
      BY <3>1, <3>2
  <2>2. Seamless(rows, r) => row # <<>>
    BY <1>1, <1>2
  <2>3. ResolveInRow(text, rows, r, col)
          = ByteAt(text, x) + IF Seamless(rows, r) /\ ByteAt(row, m) = Bytes(row) /\ row # <<>>
                              THEN ByteAt(row, Len(row) - 1) ELSE ByteAt(row, m)
    BY <1>1, <1>3 DEF ResolveInRow
  <2>4. (Seamless(rows, r) /\ ByteAt(row, m) = Bytes(row) /\ row # <<>>) <=> back
    BY <2>1, <2>2
  <2>5. back => Len(row) - 1 = to
    OBVIOUS
  <2>6. ~back => m = to
    OBVIOUS
  <2> HIDE DEF back, to
  <2> QED
    BY <2>3, <2>4, <2>5, <2>6
<1> HIDE DEF to
<1>6. ResolveInRow(text, rows, r, col) = ByteAt(text, k)
  <2>1. ByteAt(row, to) = ByteAt(text, k) - ByteAt(text, x)
    BY <1>2, <1>4
  <2>2. ByteAt(text, k) \in Nat /\ ByteAt(text, x) \in Nat
    BY <1>1, <1>4, BytesFacts
  <2> HIDE DEF k
  <2> QED
    BY <1>5, <2>1, <2>2
<1>7. Landing(rows, r, col) = k
  <2> HIDE DEF k
  <2> QED
    BY <1>4, <1>6, CharOf DEF Landing
<1>8. Left(row, to) <= col
  <2>1. to \in 0 .. Len(row) /\ m \in 0 .. Len(row) /\ (to = m \/ to < m)
    BY <1>2, <1>4
  <2>2. Left(row, to) \in Nat /\ Left(row, m) \in Nat
    BY <1>2, <2>1, ColsFacts
  <2>3. Left(row, to) <= Left(row, m)
    BY <1>2, <2>1, <2>2, LeftOrder
  <2> QED
    BY <1>3, <2>2, <2>3
<1>9. Wide(text, x, k) <= col
  BY <1>2, <1>4, <1>8 DEF Wide
<1> HIDE DEF k
<1>10. RowOf(rows, ByteAt(text, k)) = r
  <2>1. OnRow(text, rows, k, r)
    BY <1>4 DEF OnRow, x, y
  <2> QED
    BY <1>4, <2>1, RowOfFacts
<1>11. DisplayCol(RowText(rows[r]), ByteAt(text, k) - rows[r].start) = Wide(text, x, k)
  BY <1>4, ColumnOf DEF x, y
<1> QED
  BY <1>4, <1>7, <1>9, <1>10, <1>11

-----------------------------------------------------------------------------
(* The composer.                                                           *)

\* Where the cursor is: on a row that is drawn, in a column.
LEMMA CursorFacts ==
  ASSUME TextTypeOK, NEW rows, rows = Rows
  PROVE  /\ text \in Seq(Chars) /\ width \in Nat \ {0} /\ Laid(text, width, 0, Len(text), rows)
         /\ DOMAIN rows = 1 .. Len(rows) /\ Len(rows) \in Nat \ {0}
         /\ CursorRow(rows) \in 1 .. Len(rows) /\ CursorCol(rows) \in Nat
<1>1. text \in Seq(Chars) /\ width \in Nat \ {0} /\ cursor \in 0 .. Len(text)
  BY ComposerAssumption DEF TextTypeOK
<1>2. Laid(text, width, 0, Len(text), rows)
  BY <1>1, TextLaid DEF Rows
<1>3. DOMAIN rows = 1 .. Len(rows) /\ Len(rows) \in Nat \ {0}
  BY <1>2 DEF Laid
<1> DEFINE r == CursorRow(rows)
<1>4. r \in 1 .. Len(rows) /\ From(text, rows[r]) <= cursor /\ cursor <= Till(text, rows[r])
  BY <1>1, <1>2, RowOfFacts DEF CursorRow, CursorByte, OnRow
<1>5. CursorCol(rows) = Wide(text, From(text, rows[r]), cursor)
  <2> HIDE DEF r
  <2>1. DisplayCol(RowText(rows[r]), ByteAt(text, cursor) - rows[r].start)
          = Wide(text, From(text, rows[r]), cursor)
    BY <1>1, <1>2, <1>4, ColumnOf
  <2> QED
    BY <2>1 DEF CursorCol, CursorByte, r
<1> HIDE DEF r
<1>6. Wide(text, From(text, rows[r]), cursor) \in Nat
  <2>1. From(text, rows[r]) \in 0 .. Len(text)
    BY <1>1, <1>2, <1>4, RowSpan
  <2>2. cursor \in From(text, rows[r]) .. Len(text)
    BY <1>1, <1>4, <2>1
  <2> QED
    BY <1>1, <2>1, <2>2, FitFacts
<1> QED
  BY <1>1, <1>2, <1>3, <1>4, <1>5, <1>6 DEF r

\* The rows are the greedy wrap of any text, at any width.
LEMMA Greedy == TextTypeOK => WrapIsGreedy
<1> SUFFICES ASSUME TextTypeOK PROVE WrapIsGreedy
  OBVIOUS
<1> DEFINE rows == Rows
<1>1. text \in Seq(Chars) /\ width \in Nat \ {0} /\ Laid(text, width, 0, Len(text), rows)
  BY CursorFacts
<1> HIDE DEF rows
<1>2. RowsAreTheText(rows) /\ RowsFit(rows) /\ BreaksAreDue(rows)
  BY <1>1, TheText, TextFits, TextDue
<1> QED
  BY <1>2 DEF WrapIsGreedy, rows

\* The pane scrolls to the cursor's row.
LEMMA Seen ==
  ASSUME TextTypeOK, NEW rows, rows = Rows
  PROVE  CursorInPane(rows)
<1> DEFINE n == Len(rows)
           r == CursorRow(rows)
           v == VisibleRows(rows)
           most == MaxComposerRows
<1>1. n \in Nat \ {0} /\ r \in 1 .. n /\ most \in Nat \ {0}
  BY CursorFacts, ComposerAssumption
<1>2. v = IF n <= most THEN n ELSE most
  <2>1. Max({1, n}) = n
    <3> HIDE DEF n
    <3> QED
      BY <1>1, OfTwo
  <2>2. v = Min({n, most})
    BY <2>1 DEF VisibleRows
  <2> HIDE DEF n, most, v
  <2> QED
    BY <1>1, <2>2, OfTwo
<1>3. ComposerScroll(rows) = IF n <= v THEN 0 ELSE Min({Max({0, r - v}), n - v})
  BY DEF ComposerScroll
<1> HIDE DEF n, r, v, most
<1>4. v \in Nat \ {0} /\ v <= n /\ r \in Nat
  BY <1>1, <1>2
<1> DEFINE hidden == IF 0 >= r - v THEN 0 ELSE r - v
<1>5. Min({Max({0, r - v}), n - v}) = hidden
  <2>1. Max({0, r - v}) = hidden
    <3>1. r - v \in Int
      BY <1>4
    <3> QED
      BY <3>1, OfTwo
  <2>2. hidden \in Int /\ n - v \in Int /\ hidden <= n - v
    BY <1>1, <1>4
  <2> HIDE DEF hidden
  <2>3. Min({hidden, n - v}) = hidden
    BY <2>2, OfTwo
  <2> QED
    BY <2>1, <2>3
<1>6. r - ComposerScroll(rows) \in 1 .. v
  <2>1. CASE n <= v
    BY <1>1, <1>3, <1>4, <2>1
  <2>2. CASE ~(n <= v)
    <3>1. ComposerScroll(rows) = hidden
      BY <1>3, <1>5, <2>2
    <3> QED
      BY <1>1, <1>4, <3>1
  <2> QED
    BY <2>1, <2>2
<1> QED
  BY <1>6 DEF CursorInPane, r, v

LEMMA Lands ==
  ASSUME TextTypeOK, NEW rows, rows = Rows
  PROVE  LandsOnRow(rows)
<1>1. /\ text \in Seq(Chars) /\ width \in Nat \ {0} /\ Laid(text, width, 0, Len(text), rows)
      /\ DOMAIN rows = 1 .. Len(rows)
  BY CursorFacts
<1>2. ASSUME NEW r \in 1 .. Len(rows), NEW col \in Nat
      PROVE  LET k == Landing(rows, r, col)
             IN /\ k \in 0 .. Len(text) /\ RowOf(rows, ByteAt(text, k)) = r
                /\ DisplayCol(RowText(rows[r]), ByteAt(text, k) - rows[r].start) <= col
  BY <1>1, LandingFacts
<1>3. \A col \in 0 .. width : col \in Nat
  BY <1>1
<1> QED
  BY <1>1, <1>2, <1>3 DEF LandsOnRow

\* What a run of vertical moves rests on: the column it steers for is the one it began in.
Steered ==
  /\ goal = NoGoal <=> run = NoRun
  /\ run \in Nat => goal = run
  /\ run \in Nat => cursor = Landing(Rows, CursorRow(Rows), run)

TextInv == TextTypeOK /\ Steered

LEMMA TextStarts == TextInit => TextInv
<1>1. TextInit => TextTypeOK
  BY DEF TextInit, TextTypeOK, NoGoal, NoRun
<1>2. TextInit => Steered
  BY DEF TextInit, Steered, NoGoal, NoRun
<1> QED
  BY <1>1, <1>2 DEF TextInv

\* What an edit leaves.
LEMMA PutInv ==
  ASSUME TextInv, NEW t \in Seq(Chars), NEW c \in 0 .. Len(t), Put(t, c)
  PROVE  TextInv'
<1>1. TextTypeOK'
  BY DEF TextInv, TextTypeOK, Put
<1>2. Steered'
  BY DEF Put, Steered, NoGoal, NoRun
<1> QED
  BY <1>1, <1>2 DEF TextInv

LEMMA VerticalInv ==
  ASSUME TextInv, NEW by \in {-1, 1}, MoveVertical(by)
  PROVE  TextInv'
<1> DEFINE rows == Rows
           r == CursorRow(rows) + by
<1>1. /\ text \in Seq(Chars) /\ width \in Nat \ {0} /\ Laid(text, width, 0, Len(text), rows)
      /\ DOMAIN rows = 1 .. Len(rows)
      /\ CursorRow(rows) \in 1 .. Len(rows) /\ CursorCol(rows) \in Nat
  BY CursorFacts DEF TextInv
<1>2. CASE r \notin DOMAIN rows
  <2>1. UNCHANGED textVars
    BY <1>2 DEF MoveVertical
  <2>2. UNCHANGED <<text, cursor, goal, width, run>> /\ Rows' = Rows
    BY <2>1 DEF textVars, Rows
  <2> QED
    BY <2>2 DEF TextInv, TextTypeOK, Steered, CursorRow, CursorByte, Landing
<1>3. CASE r \in DOMAIN rows
  <2>1. /\ cursor' = Landing(rows, r, Steer(rows)) /\ goal' = Steer(rows)
        /\ run' = IF run = NoRun THEN CursorCol(rows) ELSE run
        /\ text' = text /\ width' = width
    BY <1>3 DEF MoveVertical
  <2>2. Steer(rows) \in Nat
    BY <1>1 DEF Steer, TextInv, TextTypeOK
  <2>3. cursor' \in 0 .. Len(text) /\ RowOf(rows, ByteAt(text, cursor')) = r
    <3> HIDE DEF rows, r
    <3>1. r \in 1 .. Len(rows)
      BY <1>1, <1>3
    <3> QED
      BY <1>1, <2>1, <2>2, <3>1, LandingFacts
  <2>4. Rows' = rows
    BY <2>1 DEF Rows
  <2>5. CursorRow(Rows)' = r
    BY <2>1, <2>3, <2>4 DEF CursorRow, CursorByte
  <2> HIDE DEF rows, r
  <2>6. TextTypeOK'
    BY <1>1, <2>1, <2>2, <2>3 DEF TextInv, TextTypeOK, NoRun
  <2>7. (run' \in Nat => goal' = run') /\ (goal' # NoGoal /\ run' # NoRun)
    BY <1>1, <2>1, <2>2 DEF TextInv, Steered, Steer, NoGoal, NoRun
  <2>8. run' \in Nat => cursor' = Landing(Rows, CursorRow(Rows), run)'
    <3>1. ASSUME run' \in Nat
          PROVE  Steer(rows) = run'
      BY <2>1, <2>7, <3>1
    <3>2. Landing(Rows, CursorRow(Rows), run)' = Landing(rows, r, run')
      <4>1. Landing(Rows, CursorRow(Rows), run)' = CharAt(text', ResolveInRow(text', Rows', CursorRow(Rows)', run'))
        BY DEF Landing
      <4>2. Landing(rows, r, run') = CharAt(text, ResolveInRow(text, rows, r, run'))
        BY DEF Landing
      <4> QED
        BY <2>1, <2>4, <2>5, <4>1, <4>2
    <3> QED
      BY <2>1, <3>1, <3>2
  <2>9. Steered'
    BY <2>7, <2>8 DEF Steered
  <2> QED
    BY <2>6, <2>9 DEF TextInv
<1> QED
  BY <1>2, <1>3

LEMMA InsertText ==
  ASSUME NEW s \in Seq(Chars), NEW k \in 0 .. Len(s), NEW c \in Chars
  PROVE  InsertAt(s, k + 1, c) \in Seq(Chars) /\ Len(InsertAt(s, k + 1, c)) = Len(s) + 1
<1>1. (k + 1) - 1 = k
  OBVIOUS
<1> DEFINE before == SubSeq(s, 1, k)
           after == SubSeq(s, k + 1, Len(s))
<1>2. before \in Seq(Chars) /\ after \in Seq(Chars) /\ Len(before) = k /\ Len(after) = Len(s) - k
  OBVIOUS
<1>3. InsertAt(s, k + 1, c) = before \o <<c>> \o after
  BY <1>1 DEF InsertAt
<1> HIDE DEF before, after
<1> DEFINE head == before \o <<c>>
<1>4. head \in Seq(Chars) /\ Len(head) = k + 1
  BY <1>2
<1>5. InsertAt(s, k + 1, c) = head \o after
  BY <1>3
<1> HIDE DEF head
<1>6. head \o after \in Seq(Chars) /\ Len(head \o after) = (k + 1) + (Len(s) - k)
  BY <1>2, <1>4
<1>7. (k + 1) + (Len(s) - k) = Len(s) + 1
  OBVIOUS
<1> QED
  BY ONLY <1>5, <1>6, <1>7

LEMMA RemoveText ==
  ASSUME NEW s \in Seq(Chars), NEW k \in 1 .. Len(s)
  PROVE  RemoveAt(s, k) \in Seq(Chars) /\ Len(RemoveAt(s, k)) = Len(s) - 1
<1> DEFINE before == SubSeq(s, 1, k - 1)
           after == SubSeq(s, k + 1, Len(s))
<1>1. before \in Seq(Chars) /\ after \in Seq(Chars) /\ Len(before) = k - 1 /\ Len(after) = Len(s) - k
  OBVIOUS
<1>2. RemoveAt(s, k) = before \o after
  BY DEF RemoveAt
<1> HIDE DEF before, after
<1> QED
  BY <1>1, <1>2

LEMMA EditInv ==
  ASSUME TextInv, Insert \/ Backspace \/ MoveLeft \/ MoveRight
  PROVE  TextInv'
<1> DEFINE n == Len(text)
<1>1. text \in Seq(Chars) /\ cursor \in 0 .. n /\ n \in Nat
  BY DEF TextInv, TextTypeOK
<1>2. CASE Insert
  <2>1. PICK c \in Typed : Put(InsertAt(text, cursor + 1, c), cursor + 1)
    BY <1>2 DEF Insert
  <2>2. c \in Chars
    BY ComposerAssumption
  <2>3. InsertAt(text, cursor + 1, c) \in Seq(Chars) /\ Len(InsertAt(text, cursor + 1, c)) = n + 1
    BY <1>1, <2>2, InsertText
  <2>4. cursor + 1 \in 0 .. (n + 1)
    BY <1>1
  <2> HIDE DEF n
  <2> QED
    BY <2>1, <2>3, <2>4, PutInv
<1>3. Max({0, cursor - 1}) = IF 0 >= cursor - 1 THEN 0 ELSE cursor - 1
  <2>1. cursor - 1 \in Int
    BY <1>1
  <2> QED
    BY <2>1, OfTwo
<1>4. Max({0, cursor - 1}) \in 0 .. n
  BY <1>1, <1>3
<1>5. CASE Backspace
  <2> DEFINE t == IF cursor > 0 THEN RemoveAt(text, cursor) ELSE text
             c == Max({0, cursor - 1})
  <2>1. t \in Seq(Chars) /\ c \in 0 .. Len(t)
    <3>1. CASE cursor > 0
      <4>1. cursor \in 1 .. n
        BY <1>1, <3>1
      <4>2. RemoveAt(text, cursor) \in Seq(Chars) /\ Len(RemoveAt(text, cursor)) = n - 1
        BY <1>1, <4>1, RemoveText
      <4>3. c \in 0 .. (n - 1)
        BY <1>1, <1>3, <3>1
      <4> HIDE DEF n, c
      <4> QED
        BY <3>1, <4>2, <4>3
    <3>2. CASE ~(cursor > 0)
      <4> HIDE DEF c
      <4>1. c \in 0 .. n
        BY <1>4 DEF c
      <4> QED
        BY <1>1, <3>2, <4>1
    <3> QED
      BY <3>1, <3>2
  <2>2. Put(t, c)
    BY <1>5 DEF Backspace
  <2> HIDE DEF t, c
  <2> QED
    BY <2>1, <2>2, PutInv
<1>6. CASE MoveLeft
  BY <1>1, <1>4, <1>6, PutInv DEF MoveLeft
<1>7. CASE MoveRight
  <2>1. Min({n, cursor + 1}) = IF n <= cursor + 1 THEN n ELSE cursor + 1
    <3>1. n \in Int /\ cursor + 1 \in Int
      BY <1>1
    <3> HIDE DEF n
    <3> QED
      BY <3>1, OfTwo
  <2>2. Min({n, cursor + 1}) \in 0 .. n
    BY <1>1, <2>1
  <2> QED
    BY <1>1, <1>7, <2>2, PutInv DEF MoveRight
<1> QED
  BY <1>2, <1>5, <1>6, <1>7

LEMMA EndsInv ==
  ASSUME TextInv, MoveHome \/ MoveEnd
  PROVE  TextInv'
<1> DEFINE n == Len(text)
<1>1. text \in Seq(Chars) /\ cursor \in 0 .. n /\ n \in Nat
  BY DEF TextInv, TextTypeOK
<1>2. CASE MoveHome
  <2> DEFINE S == {0} \cup {i \in 1 .. cursor : text[i] = "newline"}
  <2>1. S \in SUBSET (0 .. cursor) /\ S # {} /\ cursor \in Nat
    BY <1>1
  <2>2. Put(text, Max(S))
    BY <1>2 DEF MoveHome
  <2> HIDE DEF S
  <2>3. Max(S) \in 0 .. cursor
    BY <2>1, Greatest
  <2>4. Max(S) \in 0 .. n
    BY <1>1, <2>3
  <2> QED
    BY <1>1, <2>2, <2>4, PutInv
<1>3. CASE MoveEnd
  <2> DEFINE S == {n} \cup {i - 1 : i \in {j \in (cursor + 1) .. n : text[j] = "newline"}}
  <2>1. S \in SUBSET Nat /\ n \in S
    BY <1>1
  <2>2. Put(text, Min(S))
    BY <1>3 DEF MoveEnd
  <2> HIDE DEF S
  <2>3. Min(S) \in Nat /\ Min(S) <= n
    BY <2>1, Least
  <2>4. Min(S) \in 0 .. n
    BY <1>1, <2>3
  <2> QED
    BY <1>1, <2>2, <2>4, PutInv
<1> QED
  BY <1>2, <1>3

LEMMA ClickInv ==
  ASSUME TextInv, Click
  PROVE  TextInv'
<1> DEFINE rows == Rows
<1>1. /\ text \in Seq(Chars) /\ width \in Nat \ {0} /\ Laid(text, width, 0, Len(text), rows)
      /\ Len(rows) \in Nat \ {0}
  BY CursorFacts DEF TextInv
<1>2. PICK r \in 1 .. VisibleRows(rows), col \in 0 .. (width - 1) : Put(text, Clicked(rows, r, col))
  BY DEF Click
<1> HIDE DEF rows
<1>3. col \in Nat /\ r \in Nat \ {0}
  <2>1. r \in Int /\ 1 <= r
    BY <1>2
  <2> QED
    BY <1>1, <2>1
<1>4. Min({r, Len(rows)}) \in 1 .. Len(rows)
  <2>1. Min({r, Len(rows)}) = IF r <= Len(rows) THEN r ELSE Len(rows)
    <3>1. r \in Int /\ Len(rows) \in Int
      BY <1>1, <1>3
    <3> QED
      BY <3>1, OfTwo
  <2> QED
    BY <1>1, <1>3, <2>1
<1>5. Clicked(rows, r, col) \in 0 .. Len(text)
  BY <1>1, <1>3, <1>4, LandingFacts DEF Clicked
<1> QED
  BY <1>1, <1>2, <1>5, PutInv

LEMMA TextStep == TextInv /\ [TextNext]_textVars => TextInv'
<1> SUFFICES ASSUME TextInv, [TextNext]_textVars PROVE TextInv'
  OBVIOUS
<1>1. CASE Insert \/ Backspace \/ MoveLeft \/ MoveRight
  BY <1>1, EditInv
<1>2. CASE MoveHome \/ MoveEnd
  BY <1>2, EndsInv
<1>3. CASE MoveUp \/ MoveDown
  BY <1>3, VerticalInv DEF MoveUp, MoveDown
<1>4. CASE Click
  BY <1>4, ClickInv
<1>5. CASE SubmitText \/ Cancel
  <2>1. Put(<<>>, 0) /\ <<>> \in Seq(Chars) /\ 0 \in 0 .. Len(<<>>)
    BY <1>5 DEF SubmitText, Cancel
  <2> QED
    BY <2>1, PutInv
<1>6. CASE Edit
  <2>1. PICK t \in OwnTexts : Put(t, Len(t))
    BY <1>6 DEF Edit
  <2>2. t \in Seq(Chars)
    BY ComposerAssumption
  <2>3. Len(t) \in 0 .. Len(t)
    BY <2>2
  <2> QED
    BY <2>1, <2>2, <2>3, PutInv
<1>7. CASE Resize
  <2>1. PICK w \in Widths \ {width} :
           /\ width' = w /\ run' = IF run = NoRun THEN NoRun ELSE Resized
           /\ UNCHANGED <<text, cursor, goal>>
    BY <1>7 DEF Resize
  <2>2. TextTypeOK'
    BY <2>1 DEF TextInv, TextTypeOK
  <2>3. Steered'
    BY <2>1 DEF TextInv, Steered, NoRun, Resized
  <2> QED
    BY <2>2, <2>3 DEF TextInv
<1>8. CASE UNCHANGED textVars
  <2>1. UNCHANGED <<text, cursor, goal, width, run>> /\ Rows' = Rows
    BY <1>8 DEF textVars, Rows
  <2> QED
    BY <2>1 DEF TextInv, TextTypeOK, Steered, CursorRow, CursorByte, Landing
<1> QED
  BY <1>1, <1>2, <1>3, <1>4, <1>5, <1>6, <1>7, <1>8 DEF TextNext

\* What the invariant makes of where the cursor is.
LEMMA Followed == TextInv => CursorFollowsRows
<1> SUFFICES ASSUME TextInv PROVE CursorFollowsRows
  OBVIOUS
<1>1. CursorInPane(Rows) /\ LandsOnRow(Rows)
  BY Seen, Lands DEF TextInv
<1>2. ColumnKept(Rows)
  BY DEF TextInv, Steered, ColumnKept
<1> QED
  BY <1>1, <1>2 DEF CursorFollowsRows, TextInv

\* The state stays well typed, and a run of vertical moves steers for one column.
THEOREM ComposerInvariance == TextSpec => []TextInv
BY TextStarts, TextStep, PTL DEF TextSpec

\* Whatever is typed, wherever, the rows on screen are the greedy wrap of the text in a
\* pane of any width (wrap_breaks).
THEOREM WrapIsGreedyHolds == TextSpec => []WrapIsGreedy
<1>1. TextInv => WrapIsGreedy
  BY Greedy DEF TextInv
<1> QED
  BY <1>1, ComposerInvariance, PTL

\* The cursor's row is seen, a vertical move and a click arrive on the row meant, and a
\* run of vertical moves keeps to the column it began in (composer_scroll, resolve_in_row,
\* goal_col).
THEOREM CursorFollowsRowsHolds == TextSpec => []CursorFollowsRows
BY Followed, ComposerInvariance, PTL

-----------------------------------------------------------------------------
(* Where what is composed goes: Cockpit.                                   *)

USE CockpitAssumption

List == [kind : Kinds, chats : Seq(Chats)]
Unrepeated(lists) == \A k \in 1 .. Len(lists) : IsInjective(lists[k].chats)

StoreInv ==
  /\ stored \in Seq(List) /\ Len(stored) >= 2 /\ Unrepeated(stored)
  /\ moves \in 0 .. MaxMoves

\* A list view with its cursor on a row.
View(v) ==
  /\ v \in [lists : Seq(List), active : Nat, selected : Nat]
  /\ Unrepeated(v.lists)
  /\ v.active \in 1 .. Len(v.lists)
  /\ v.selected < Len(ActiveChats(v)) \/ (v.selected = 0 /\ ActiveChats(v) = << >>)

Panes == {"list", "history", "composer"}
FocusInv ==
  /\ View(view)
  /\ collapsed \in BOOLEAN /\ focus \in Panes /\ (collapsed => focus # "list")

OverlayInv ==
  /\ overlay.kind \in {"none", "delete", "forward", "reaction", "media"}
  /\ overlay.kind # "none" =>
       /\ overlay = [kind |-> overlay.kind, chat |-> overlay.chat, picker |-> overlay.picker]
       /\ overlay.chat \in AnyChat
       /\ View(overlay.picker)

\* What is to be sent, of what the user saw.
Meant(act) ==
  act # Nothing =>
    IF act.kind \in {"compose", "reply", "edit", "media"}
    THEN act.to = NoChat /\ act.meant = shown
    ELSE act.meant = act.from

IntentInv ==
  /\ composer \in Composers /\ intent \in Intents /\ request \in Intents
  /\ Meant(intent)

\* The pane between the turns: an intent is there only while the cursor is where it was.
LoopInv ==
  /\ pc \in {"select", "drive"} /\ open \in AnyChat /\ shown \in AnyChat
  /\ pc = "select" => intent = Nothing
  /\ pc = "select" \/ intent # Nothing => open = OpenChatId
  /\ open # NoChat => shown = open
  /\ tdOpens \in [Chats -> Nat]
  /\ \A c \in Chats : tdOpens[c] = IF c = open THEN 1 ELSE 0

IInv == StoreInv /\ FocusInv /\ OverlayInv /\ IntentInv /\ LoopInv /\ SentAsShown

-----------------------------------------------------------------------------
\* The lists.

\* The folders of the model, by name.
LEMMA FolderNames == ToSet(Folders) = {"family", "work"}
BY DEF Folders, ToSet

\* The position of a chat is one where it stands.
LEMMA IndexOfFacts ==
  ASSUME NEW S, NEW chats \in Seq(S), NEW c \in ToSet(chats)
  PROVE  IndexOf(chats, c) \in 1 .. Len(chats) /\ chats[IndexOf(chats, c)] = c
BY DEF IndexOf, ToSet

\* A chat taken out of a list it is once in.
LEMMA WithoutFacts ==
  ASSUME NEW list \in List, IsInjective(list.chats), NEW c \in Chats
  PROVE  /\ Without(list, c) \in List
         /\ IsInjective(Without(list, c).chats)
         /\ c \notin ToSet(Without(list, c).chats)
<1>1. CASE c \notin ToSet(list.chats)
  BY <1>1 DEF Without
<1>2. CASE c \in ToSet(list.chats)
  <2> DEFINE s == list.chats
             i == IndexOf(s, c)
             r == RemoveAt(s, i)
  <2>1. s \in Seq(Chats) /\ Len(s) \in Nat
    BY DEF List
  <2>2. i \in 1 .. Len(s) /\ s[i] = c
    BY <1>2, <2>1, IndexOfFacts
  <2>3. Without(list, c) = [list EXCEPT !.chats = r]
    BY <1>2 DEF Without
  <2> HIDE DEF i
  <2>4. /\ r \in Seq(Chats) /\ Len(r) = Len(s) - 1
        /\ \A k \in 1 .. Len(r) : r[k] = IF k < i THEN s[k] ELSE s[k + 1]
    <3> DEFINE a == SubSeq(s, 1, i - 1)
               b == SubSeq(s, i + 1, Len(s))
    <3>1. a \in Seq(Chats) /\ Len(a) = i - 1 /\ \A k \in 1 .. Len(a) : a[k] = s[k]
      BY <2>1, <2>2
    <3>2. b \in Seq(Chats) /\ Len(b) = Len(s) - i /\ \A k \in 1 .. Len(b) : b[k] = s[k + i]
      BY <2>1, <2>2
    <3>3. r = a \o b
      BY DEF RemoveAt
    <3> HIDE DEF a, b, r
    <3>4. /\ r \in Seq(Chats) /\ Len(r) = Len(a) + Len(b)
          /\ \A k \in 1 .. Len(r) : r[k] = IF k <= Len(a) THEN a[k] ELSE b[k - Len(a)]
      BY <3>1, <3>2, <3>3
    <3>5. Len(r) = Len(s) - 1
      BY <2>1, <2>2, <3>1, <3>2, <3>4
    <3>6. ASSUME NEW k \in 1 .. Len(r)
          PROVE  r[k] = IF k < i THEN s[k] ELSE s[k + 1]
      <4>1. CASE k < i
        BY <2>1, <2>2, <3>1, <3>4, <4>1
      <4>2. CASE k >= i
        <5>1. k - Len(a) \in 1 .. Len(b) /\ (k - Len(a)) + i = k + 1 /\ ~(k <= Len(a))
          BY <2>1, <2>2, <3>1, <3>2, <3>5, <4>2
        <5>2. b[k - Len(a)] = s[k + 1]
          BY <3>2, <5>1
        <5> QED
          BY <2>2, <3>4, <4>2, <5>1, <5>2
      <4> QED
        BY <2>2, <4>1, <4>2
    <3> QED
      BY <3>4, <3>5, <3>6
  <2> HIDE DEF r
  <2>5. \A j, k \in 1 .. Len(s) : s[j] = s[k] => j = k
    BY <2>1 DEF IsInjective
  <2>6. ASSUME NEW j \in 1 .. Len(r), NEW k \in 1 .. Len(r), r[j] = r[k]
        PROVE  j = k
    <3> DEFINE was(m) == IF m < i THEN m ELSE m + 1
    <3>1. was(j) \in 1 .. Len(s) /\ was(k) \in 1 .. Len(s)
      BY <2>1, <2>2, <2>4
    <3>2. r[j] = s[was(j)] /\ r[k] = s[was(k)]
      BY <2>4
    <3>3. was(j) = was(k)
      <4> HIDE DEF was
      <4> QED
        BY <2>5, <2>6, <3>1, <3>2
    <3> QED
      BY <2>2, <2>4, <3>3
  <2>7. \A k \in 1 .. Len(r) : r[k] # c
    BY <2>1, <2>2, <2>4, <2>5
  <2>8. DOMAIN r = 1 .. Len(r)
    BY <2>4
  <2> QED
    BY <2>3, <2>4, <2>6, <2>7, <2>8 DEF List, IsInjective, ToSet
<1> QED
  BY <1>1, <1>2

\* A chat put on top of a list is in it once (ChatStore's order).
LEMMA OnTopFacts ==
  ASSUME NEW list \in List, IsInjective(list.chats), NEW c \in Chats
  PROVE  OnTop(list, c) \in List /\ IsInjective(OnTop(list, c).chats)
<1> DEFINE rest == Without(list, c).chats
           s == <<c>> \o rest
<1>1. rest \in Seq(Chats) /\ IsInjective(rest) /\ \A k \in 1 .. Len(rest) : rest[k] # c
  <2>1. rest \in Seq(Chats) /\ IsInjective(rest) /\ c \notin ToSet(rest)
    BY WithoutFacts DEF List
  <2> HIDE DEF rest
  <2> QED
    BY <2>1 DEF ToSet
<1> HIDE DEF rest
<1>2. /\ s \in Seq(Chats) /\ Len(s) = Len(rest) + 1 /\ s[1] = c
      /\ \A k \in 2 .. Len(s) : s[k] = rest[k - 1]
  BY <1>1
<1> HIDE DEF s
<1>3. \A j, k \in 1 .. Len(rest) : rest[j] = rest[k] => j = k
  BY <1>1 DEF IsInjective
<1>4. \A j, k \in 1 .. Len(s) : s[j] = s[k] => j = k
  <2> SUFFICES ASSUME NEW j \in 1 .. Len(s), NEW k \in 1 .. Len(s), s[j] = s[k]
               PROVE  j = k
    OBVIOUS
  <2>1. CASE j = 1 \/ k = 1
    BY <1>1, <1>2, <2>1
  <2>2. CASE j # 1 /\ k # 1
    <3>1. j - 1 \in 1 .. Len(rest) /\ k - 1 \in 1 .. Len(rest) /\ rest[j - 1] = rest[k - 1]
      BY <1>1, <1>2, <2>2
    <3> QED
      BY <1>3, <3>1
  <2> QED
    BY <2>1, <2>2
<1>5. OnTop(list, c) = [list EXCEPT !.chats = s]
  BY DEF OnTop, s, rest
<1>6. DOMAIN s = 1 .. Len(s)
  BY <1>2
<1> QED
  BY <1>2, <1>4, <1>5, <1>6 DEF List, IsInjective

\* A list found by its kind, or the first, is one of the lists.
LEMMA IndexOfKindFacts ==
  ASSUME NEW lists \in Seq(List), Len(lists) >= 1, NEW kind
  PROVE  /\ IndexOfKind(lists, kind) \in 1 .. Len(lists)
         /\ (\E k \in 1 .. Len(lists) : lists[k].kind = kind) =>
              lists[IndexOfKind(lists, kind)].kind = kind
BY DEF IndexOfKind

\* The lists in the store hold no chat twice, whatever the router does to them.
LEMMA StoreStep ==
  ASSUME StoreInv, [Next]_vars
  PROVE  StoreInv'
<1> USE DEF StoreInv
<1>0. /\ \A k \in 1 .. Len(stored) : stored[k] \in List /\ IsInjective(stored[k].chats)
      /\ Len(stored) \in Nat
  BY DEF Unrepeated
<1>1. CASE Bump
  <2>1. Moved
    BY <1>1 DEF Bump
  <2>2. PICK c \in Chats, n \in 1 .. Len(stored) :
          stored' = [k \in 1 .. Len(stored) |->
                       IF k = n THEN OnTop(stored[k], c)
                       ELSE IF {k, n} = {1, 2} THEN Without(stored[k], c) ELSE stored[k]]
    BY <1>1 DEF Bump
  <2>3. \A k \in 1 .. Len(stored) : stored'[k] \in List /\ IsInjective(stored'[k].chats)
    <3> SUFFICES ASSUME NEW k \in 1 .. Len(stored)
                 PROVE  stored'[k] \in List /\ IsInjective(stored'[k].chats)
      OBVIOUS
    <3>1. stored'[k] \in {OnTop(stored[k], c), Without(stored[k], c), stored[k]}
      BY <2>2
    <3>2. stored[k] \in List /\ IsInjective(stored[k].chats)
      BY <1>0
    <3> QED
      BY <3>1, <3>2, OnTopFacts, WithoutFacts
  <2>4. stored' \in Seq(List) /\ Len(stored') = Len(stored)
    <3>1. stored' \in [1 .. Len(stored) -> List]
      BY <2>2, <2>3
    <3> QED
      BY <1>0, <3>1
  <2> QED
    BY <2>1, <2>3, <2>4 DEF Moved, Unrepeated
<1>2. CASE Leave
  <2>1. Moved
    BY <1>2 DEF Leave
  <2>2. PICK c \in Chats, n \in 1 .. Len(stored) :
          stored' = [stored EXCEPT ![n] = Without(stored[n], c)]
    BY <1>2 DEF Leave
  <2>3. stored' \in Seq(List) /\ Len(stored') = Len(stored)
    BY <1>0, <2>2, WithoutFacts
  <2>4. \A k \in 1 .. Len(stored) : IsInjective(stored'[k].chats)
    BY <1>0, <2>2, WithoutFacts
  <2> QED
    BY <2>1, <2>3, <2>4 DEF Moved, Unrepeated
<1>3. CASE SetFolders
  <2>1. Moved
    BY <1>3 DEF SetFolders
  <2> DEFINE Folder(f) == IF \E n \in 1 .. Len(stored) : stored[n].kind = f
                          THEN stored[IndexOfKind(stored, f)]
                          ELSE [kind |-> f, chats |-> << >>]
  <2>2. PICK folders \in {Folders, << >>} \cup {<<f>> : f \in ToSet(Folders)} :
          stored' = SubSeq(stored, 1, 2) \o [k \in 1 .. Len(folders) |-> Folder(folders[k])]
    BY <1>3 DEF SetFolders
  <2>3. folders \in Seq({"family", "work"})
    <3>1. ToSet(Folders) = {"family", "work"}
      BY FolderNames
    <3>2. Folders \in Seq({"family", "work"})
      BY DEF Folders
    <3>3. << >> \in Seq({"family", "work"})
      OBVIOUS
    <3>4. \A f \in {"family", "work"} : <<f>> \in Seq({"family", "work"})
      OBVIOUS
    <3>5. folders = Folders \/ folders = << >> \/ \E f \in {"family", "work"} : folders = <<f>>
      BY <3>1
    <3> QED
      BY <3>2, <3>3, <3>4, <3>5
  <2>4. ASSUME NEW f \in {"family", "work"}
        PROVE  Folder(f) \in List /\ IsInjective(Folder(f).chats)
    <3>1. CASE \E n \in 1 .. Len(stored) : stored[n].kind = f
      <4>1. IndexOfKind(stored, f) \in 1 .. Len(stored)
        BY <1>0, IndexOfKindFacts
      <4> QED
        BY <1>0, <3>1, <4>1
    <3>2. CASE ~\E n \in 1 .. Len(stored) : stored[n].kind = f
      <4>1. f \in Kinds
        BY FolderNames DEF Kinds
      <4> QED
        BY <3>2, <4>1 DEF List, IsInjective
    <3> QED
      BY <3>1, <3>2
  <2> DEFINE tail == [k \in 1 .. Len(folders) |-> Folder(folders[k])]
  <2>5. /\ tail \in Seq(List)
        /\ \A k \in 1 .. Len(tail) : IsInjective(tail[k].chats)
    <3> HIDE DEF Folder
    <3> QED
      BY <2>3, <2>4
  <2>6. /\ SubSeq(stored, 1, 2) \in Seq(List) /\ Len(SubSeq(stored, 1, 2)) = 2
        /\ \A k \in 1 .. 2 : SubSeq(stored, 1, 2)[k] = stored[k]
    BY <1>0
  <2> DEFINE head == SubSeq(stored, 1, 2)
  <2>7. stored' = head \o tail
    BY <2>2
  <2> HIDE DEF head, tail
  <2>8. /\ stored' \in Seq(List) /\ Len(stored') >= 2
        /\ \A k \in 1 .. Len(stored') :
             \/ k \in 1 .. Len(head) /\ stored'[k] = head[k]
             \/ k - Len(head) \in 1 .. Len(tail) /\ stored'[k] = tail[k - Len(head)]
    BY <2>5, <2>6, <2>7 DEF head
  <2>9. \A k \in 1 .. Len(head) : IsInjective(head[k].chats)
    BY <1>0, <2>6 DEF head
  <2>10. Unrepeated(stored')
    BY <2>5, <2>8, <2>9 DEF Unrepeated
  <2> QED
    BY <2>1, <2>8, <2>10 DEF Moved, Unrepeated
<1>4. CASE UNCHANGED storeVars
  BY <1>4 DEF storeVars, Unrepeated
<1>5. CASE Next
  <2> DEFINE quiet == UNCHANGED storeVars
  <2>1. Event => quiet
    BY DEF Event
  <2>2. Browsing \/ (\E kind : Under(kind)) => quiet
    BY <2>1 DEF Browsing, Under
  <2>3. Drive => quiet
    BY DEF Drive
  <2>4. quiet => StoreInv'
    BY <1>4
  <2> HIDE DEF quiet
  <2> QED
    BY <1>1, <1>2, <1>3, <1>5, <2>1, <2>2, <2>3, <2>4
       DEF Next, Reproject, Tick, MoveCursor, SwitchList, CycleFocus, SetFocus, ToggleCollapse,
           OpenChat, Write, TargetMessage, Submit, OpenOverlay, CancelOverlay, PickTarget,
           ConfirmDelete, ConfirmForward, ConfirmReaction, ConfirmMedia, PinToggle
<1> QED
  BY <1>4, <1>5 DEF vars

-----------------------------------------------------------------------------
\* The view of the lists.

\* A clamped row is a row, or the top of an empty list.
LEMMA ClampedFacts ==
  ASSUME NEW row \in Nat, NEW chats \in Seq(Chats)
  PROVE  /\ Clamped(row, chats) \in Nat
         /\ Clamped(row, chats) < Len(chats) \/ (Clamped(row, chats) = 0 /\ chats = << >>)
<1>1. Len(chats) \in Nat /\ (Len(chats) = 0 => chats = << >>)
  OBVIOUS
<1> QED
  BY <1>1 DEF Clamped

\* A well-formed view selects a chat, or none in an empty list.
LEMMA ViewFacts ==
  ASSUME NEW v, View(v)
  PROVE  /\ ActiveChats(v) \in Seq(Chats)
         /\ SelectedChat(v) \in AnyChat
         /\ v.lists \in Seq(List) /\ Len(v.lists) \in Nat \ {0}
<1>1. v.lists \in Seq(List) /\ v.active \in 1 .. Len(v.lists) /\ Len(v.lists) \in Nat
  BY DEF View
<1>2. ActiveChats(v) \in Seq(Chats)
  <2>1. v.lists[v.active] \in List
    BY <1>1
  <2> QED
    BY <2>1 DEF ActiveChats, List
<1>3. v.selected \in Nat /\ Len(ActiveChats(v)) \in Nat
  BY <1>2 DEF View
<1>4. SelectedChat(v) \in AnyChat
  <2>1. CASE v.selected < Len(ActiveChats(v))
    <3>1. v.selected + 1 \in 1 .. Len(ActiveChats(v))
      BY <1>3, <2>1
    <3> QED
      BY <1>2, <2>1, <3>1 DEF SelectedChat, AnyChat
  <2>2. CASE ~(v.selected < Len(ActiveChats(v)))
    BY <2>2 DEF SelectedChat, AnyChat
  <2> QED
    BY <2>1, <2>2
<1> QED
  BY <1>1, <1>2, <1>4

\* A cursor set within its list, or to the top of another.
LEMMA RowFacts ==
  ASSUME NEW v, View(v), NEW n \in 1 .. Len(v.lists), NEW row \in Nat,
         row < Len(v.lists[n].chats) \/ (row = 0 /\ v.lists[n].chats = << >>)
  PROVE  View([v EXCEPT !.active = n, !.selected = row])
<1> DEFINE w == [v EXCEPT !.active = n, !.selected = row]
<1>1. /\ w \in [lists : Seq(List), active : Nat, selected : Nat]
      /\ w.lists = v.lists /\ w.active = n /\ w.selected = row
  <2>1. v \in [lists : Seq(List), active : Nat, selected : Nat] /\ n \in Nat
    BY ViewFacts DEF View
  <2> QED
    BY <2>1
<1>2. ActiveChats(w) = v.lists[n].chats
  BY <1>1 DEF ActiveChats
<1> QED
  BY <1>1, <1>2 DEF View

\* Every move of the cursor keeps it on a row.
LEMMA MovesFacts ==
  ASSUME NEW v, View(v)
  PROVE  /\ View(SelectNext(v)) /\ View(SelectPrev(v))
         /\ \A c : View(SelectChat(v, c))
         /\ \A n \in 1 .. Len(v.lists) : View(GoToList(v, n))
<1>1. /\ v \in [lists : Seq(List), active : Nat, selected : Nat]
      /\ v.active \in 1 .. Len(v.lists) /\ ActiveChats(v) = v.lists[v.active].chats
      /\ v.selected < Len(ActiveChats(v)) \/ (v.selected = 0 /\ ActiveChats(v) = << >>)
  BY DEF View, ActiveChats
<1>3. ASSUME NEW row \in Nat, row < Len(ActiveChats(v)) \/ (row = 0 /\ ActiveChats(v) = << >>)
      PROVE  View([v EXCEPT !.selected = row])
  <2>1. View([v EXCEPT !.active = v.active, !.selected = row])
    BY <1>1, <1>3, RowFacts
  <2>2. [v EXCEPT !.active = v.active, !.selected = row] = [v EXCEPT !.selected = row]
    BY <1>1, Zenon
  <2> QED
    BY <2>1, <2>2
<1>4. ActiveChats(v) \in Seq(Chats) /\ Len(ActiveChats(v)) \in Nat
  BY ViewFacts
<1>5. View(SelectNext(v))
  <2>1. v.selected + 1 \in Nat
    BY <1>1
  <2> QED
    BY <1>3, <1>4, <2>1, ClampedFacts DEF SelectNext
<1>6. View(SelectPrev(v))
  <2> DEFINE row == IF v.selected = 0 THEN 0 ELSE v.selected - 1
  <2>1. row \in Nat /\ (row < Len(ActiveChats(v)) \/ (row = 0 /\ ActiveChats(v) = << >>))
    BY <1>1, <1>4
  <2>2. SelectPrev(v) = [v EXCEPT !.selected = row]
    BY DEF SelectPrev
  <2> HIDE DEF row
  <2> QED
    BY <1>3, <2>1, <2>2
<1>7. ASSUME NEW c
      PROVE  View(SelectChat(v, c))
  <2>1. CASE c \in ToSet(ActiveChats(v))
    <3> DEFINE row == IndexOf(ActiveChats(v), c) - 1
    <3>1. row \in Nat /\ row < Len(ActiveChats(v))
      BY <1>4, <2>1, IndexOfFacts
    <3> HIDE DEF row
    <3>2. View([v EXCEPT !.selected = row])
      BY <1>3, <3>1
    <3> QED
      BY <2>1, <3>2 DEF SelectChat, row
  <2>2. CASE c \notin ToSet(ActiveChats(v))
    BY <2>2 DEF SelectChat
  <2> QED
    BY <2>1, <2>2
<1>8. ASSUME NEW n \in 1 .. Len(v.lists)
      PROVE  View(GoToList(v, n))
  <2>1. v.lists[n].chats \in Seq(Chats)
    <3>1. v.lists[n] \in List
      BY <1>1, <1>8
    <3> QED
      BY <3>1 DEF List
  <2>2. 0 < Len(v.lists[n].chats) \/ (0 = 0 /\ v.lists[n].chats = << >>)
    BY <2>1
  <2> QED
    BY <2>2, RowFacts DEF GoToList
<1> QED
  BY <1>5, <1>6, <1>7, <1>8

\* A projection keeps the cursor on a row and finds the active list by its kind.
LEMMA ProjectFacts ==
  ASSUME StoreInv, NEW v, View(v)
  PROVE  /\ View(Project(v, stored))
         /\ Project(v, stored).lists = stored
         /\ (\E k \in 1 .. Len(stored) : stored[k].kind = v.lists[v.active].kind) =>
              stored[Project(v, stored).active].kind = v.lists[v.active].kind
<1> DEFINE active == IndexOfKind(stored, v.lists[v.active].kind)
<1>1. /\ active \in 1 .. Len(stored)
      /\ (\E k \in 1 .. Len(stored) : stored[k].kind = v.lists[v.active].kind) =>
           stored[active].kind = v.lists[v.active].kind
  BY IndexOfKindFacts DEF StoreInv
<1>2. stored[active].chats \in Seq(Chats) /\ stored \in Seq(List) /\ Unrepeated(stored)
  <2>1. stored[active] \in List
    BY <1>1 DEF StoreInv
  <2> QED
    BY <2>1 DEF List, StoreInv
<1> DEFINE row == Clamped(v.selected, stored[active].chats)
           w == [lists |-> stored, active |-> active, selected |-> row]
<1>3. /\ row \in Nat
      /\ row < Len(stored[active].chats) \/ (row = 0 /\ stored[active].chats = << >>)
  BY <1>2, ClampedFacts DEF View
<1>4. w = Project(v, stored)
  BY DEF Project
<1> HIDE DEF row, active
<1>5. View(w)
  BY <1>1, <1>2, <1>3 DEF View, ActiveChats
<1> QED
  BY <1>1, <1>4, <1>5 DEF active

-----------------------------------------------------------------------------
\* The focus and the overlays.

\* The view, the focus and the collapsed list agree after every step.
LEMMA FocusStep ==
  ASSUME StoreInv, FocusInv, [Next]_vars
  PROVE  FocusInv'
<1> USE DEF FocusInv
<1>1. ASSUME View(view'), UNCHANGED <<collapsed, focus>>
      PROVE  FocusInv'
  BY <1>1 DEF View, ActiveChats, Unrepeated
<1>2. ASSUME view' = view, collapsed' \in BOOLEAN, focus' \in Panes, collapsed' => focus' # "list"
      PROVE  FocusInv'
  BY <1>2 DEF View, ActiveChats, Unrepeated
<1>3. CASE Reproject
  BY <1>1, <1>3, ProjectFacts DEF Reproject
<1>4. CASE MoveCursor
  BY <1>1, <1>4, MovesFacts DEF MoveCursor
<1>5. CASE SwitchList
  <2> DEFINE n == Len(view.lists)
  <2>1. n \in Nat \ {0} /\ view.active \in 1 .. n
    BY ViewFacts DEF View
  <2>2. (view.active % n) + 1 \in 1 .. n /\ ((view.active + n - 2) % n) + 1 \in 1 .. n
    BY <2>1
  <2>3. view' \in {GoToList(view, (view.active % n) + 1), GoToList(view, ((view.active + n - 2) % n) + 1)}
    BY <1>5 DEF SwitchList
  <2> HIDE DEF n
  <2>4. View(view')
    BY <2>2, <2>3, MovesFacts DEF n
  <2> QED
    BY <1>1, <1>5, <2>4 DEF SwitchList
<1>6. CASE CycleFocus
  BY <1>2, <1>6 DEF CycleFocus, Following, Preceding, Panes
<1>7. CASE SetFocus
  BY <1>2, <1>7 DEF SetFocus, Panes
<1>8. CASE ToggleCollapse
  BY <1>2, <1>8 DEF ToggleCollapse, Panes
<1>9. CASE OpenChat
  <2>1. View(view') /\ collapsed' = collapsed /\ focus' = "history"
    BY <1>9, MovesFacts DEF OpenChat
  <2> QED
    BY <2>1 DEF View, ActiveChats, Unrepeated, Panes
<1>10. CASE TargetMessage
  BY <1>2, <1>10 DEF TargetMessage, Panes
<1>11. CASE UNCHANGED listVars
  BY <1>2, <1>11 DEF listVars
<1>12. \/ Reproject \/ MoveCursor \/ SwitchList \/ CycleFocus \/ SetFocus \/ ToggleCollapse
       \/ OpenChat \/ TargetMessage \/ UNCHANGED listVars
  <2>1. Bump \/ Leave \/ SetFolders \/ Tick \/ UNCHANGED vars => UNCHANGED listVars
    BY DEF Bump, Leave, SetFolders, Moved, Tick, appVars, vars
  <2>2. Write \/ Submit \/ OpenOverlay \/ CancelOverlay \/ PickTarget => UNCHANGED listVars
    BY DEF Write, Submit, OpenOverlay, CancelOverlay, PickTarget
  <2>3. ConfirmDelete \/ ConfirmForward \/ ConfirmReaction \/ ConfirmMedia \/ PinToggle
          => UNCHANGED listVars
    BY DEF ConfirmDelete, ConfirmForward, ConfirmReaction, ConfirmMedia, Confirmed, PinToggle
  <2>4. Drive => UNCHANGED listVars
    BY DEF Drive
  <2> QED
    BY <2>1, <2>2, <2>3, <2>4 DEF Next
<1> QED
  BY <1>3, <1>4, <1>5, <1>6, <1>7, <1>8, <1>9, <1>10, <1>11, <1>12

\* An overlay keeps what it was opened for (app.rs, the confirm handlers).
LEMMA OverlayStep ==
  ASSUME FocusInv, OverlayInv, LoopInv, [Next]_vars
  PROVE  OverlayInv'
<1> USE DEF OverlayInv
<1>1. CASE OpenOverlay
  <2>1. PICK kind \in {"delete", "forward", "reaction", "media"} :
          overlay' = [kind |-> kind, chat |-> shown, picker |-> view]
    BY <1>1 DEF OpenOverlay
  <2>2. View(overlay'.picker) /\ overlay'.chat \in AnyChat
    BY <2>1 DEF FocusInv, LoopInv
  <2>3. /\ overlay'.kind \in {"none", "delete", "forward", "reaction", "media"}
        /\ overlay' = [kind |-> overlay'.kind, chat |-> overlay'.chat, picker |-> overlay'.picker]
    BY <2>1
  <2> QED
    BY <2>2, <2>3 DEF View, ActiveChats, Unrepeated
<1>2. CASE overlay' = NoOverlay
  BY <1>2 DEF NoOverlay
<1>3. CASE PickTarget
  <2>1. overlay.kind = "forward" /\ overlay.chat \in AnyChat /\ View(overlay.picker)
    BY <1>3 DEF PickTarget, Under
  <2>2. overlay = [kind |-> overlay.kind, chat |-> overlay.chat, picker |-> overlay.picker]
    BY <2>1
  <2>3. \A v : [overlay EXCEPT !.picker = v] = [kind |-> "forward", chat |-> overlay.chat, picker |-> v]
    BY <2>1, <2>2
  <2>4. PICK v \in {SelectNext(overlay.picker), SelectPrev(overlay.picker)} :
          overlay' = [kind |-> "forward", chat |-> overlay.chat, picker |-> v]
    BY <1>3, <2>3 DEF PickTarget
  <2>5. View(v)
    BY <2>1, <2>4, MovesFacts
  <2> QED
    BY <2>1, <2>4, <2>5 DEF View, ActiveChats, Unrepeated
<1>4. CASE UNCHANGED overlay
  BY <1>4 DEF View, ActiveChats, Unrepeated
<1>5. OpenOverlay \/ overlay' = NoOverlay \/ PickTarget \/ UNCHANGED overlay
  <2>1. Bump \/ Leave \/ SetFolders \/ Tick \/ UNCHANGED vars => UNCHANGED overlay
    BY DEF Bump, Leave, SetFolders, Moved, Tick, appVars, vars
  <2>2. Reproject \/ MoveCursor \/ SwitchList \/ CycleFocus \/ SetFocus \/ ToggleCollapse
          \/ OpenChat => UNCHANGED overlay
    BY DEF Reproject, MoveCursor, SwitchList, CycleFocus, SetFocus, ToggleCollapse, OpenChat
  <2>3. Write \/ TargetMessage \/ Submit \/ PinToggle \/ Drive => UNCHANGED overlay
    BY DEF Write, TargetMessage, Submit, PinToggle, Drive
  <2>4. CancelOverlay \/ ConfirmDelete \/ ConfirmForward \/ ConfirmReaction \/ ConfirmMedia
          => overlay' = NoOverlay
    BY DEF CancelOverlay, ConfirmDelete, ConfirmForward, ConfirmReaction, ConfirmMedia, Confirmed
  <2> QED
    BY <2>1, <2>2, <2>3, <2>4 DEF Next
<1> QED
  BY <1>1, <1>2, <1>3, <1>4, <1>5

-----------------------------------------------------------------------------
\* What is to be sent.

\* The types of what is composed and of what is to be sent.
LEMMA ActFacts ==
  ASSUME NEW kind \in Acts, NEW from \in AnyChat, NEW to \in AnyChat, NEW meant \in AnyChat
  PROVE  Act(kind, from, to, meant) \in Intents
BY DEF Act, Intents

\* No intent is the absent one.
LEMMA IntentFacts ==
  ASSUME NEW act \in Intents
  PROVE  act # Nothing => act \in [kind : Acts, from : AnyChat, to : AnyChat, meant : AnyChat]
BY DEF Intents

\* The composer is always one of its modes, with or without text.
LEMMA ComposerStep ==
  ASSUME IntentInv, LoopInv, [Next]_vars
  PROVE  composer' \in Composers
<1>1. Blank \in Composers
  BY DEF Blank, Composers, AnyChat
<1>2. CASE Write
  <2>1. \A b \in BOOLEAN : [composer EXCEPT !.text = b] \in Composers
    BY DEF IntentInv, Composers
  <2> QED
    BY <1>1, <1>2, <2>1 DEF Write
<1>3. CASE TargetMessage
  <2>1. [composer EXCEPT !.mode = "reply", !.target = shown] \in Composers
    BY DEF IntentInv, LoopInv, Composers
  <2>2. [mode |-> "edit", target |-> shown, text |-> TRUE] \in Composers
    BY DEF LoopInv, Composers
  <2> QED
    BY <1>3, <2>1, <2>2 DEF TargetMessage
<1>4. CASE Submit
  BY <1>1, <1>4 DEF Submit
<1>5. CASE UNCHANGED composer
  BY <1>5 DEF IntentInv
<1>6. Write \/ TargetMessage \/ Submit \/ UNCHANGED composer
  <2>1. Bump \/ Leave \/ SetFolders \/ Tick \/ UNCHANGED vars => UNCHANGED composer
    BY DEF Bump, Leave, SetFolders, Moved, Tick, appVars, vars
  <2>2. Reproject \/ MoveCursor \/ SwitchList \/ CycleFocus \/ SetFocus \/ ToggleCollapse
          \/ OpenChat => UNCHANGED composer
    BY DEF Reproject, MoveCursor, SwitchList, CycleFocus, SetFocus, ToggleCollapse, OpenChat
  <2>3. OpenOverlay \/ CancelOverlay \/ PickTarget \/ PinToggle \/ Drive => UNCHANGED composer
    BY DEF OpenOverlay, CancelOverlay, PickTarget, PinToggle, Drive
  <2>4. ConfirmDelete \/ ConfirmForward \/ ConfirmReaction \/ ConfirmMedia => UNCHANGED composer
    BY DEF ConfirmDelete, ConfirmForward, ConfirmReaction, ConfirmMedia, Confirmed
  <2> QED
    BY <2>1, <2>2, <2>3, <2>4 DEF Next
<1> QED
  BY <1>2, <1>3, <1>4, <1>5, <1>6

\* An intent is made from what is on screen.
LEMMA ChooseStep ==
  ASSUME IntentInv, LoopInv, FocusInv, OverlayInv, Event, UNCHANGED <<view, focus>>, NEW act,
         intent' = act, act \in Intents, Meant(act), composer' \in Composers
  PROVE  IntentInv' /\ LoopInv' /\ SentAsShown'
<1>1. /\ pc = "select" /\ pc' = "drive" /\ request' = Nothing
      /\ UNCHANGED <<open, shown, tdOpens>>
  BY DEF Event
<1>2. OpenChatId' = OpenChatId
  BY DEF OpenChatId, SelectedChat, ActiveChats
<1>3. LoopInv'
  BY <1>1, <1>2 DEF LoopInv
<1>4. IntentInv'
  BY <1>1 DEF IntentInv, Meant, Intents
<1> QED
  BY <1>1, <1>3, <1>4 DEF SentAsShown

\* An event without an intent may put any chat under the cursor.
LEMMA IdleStep ==
  ASSUME IntentInv, LoopInv, Event, intent' = intent, composer' \in Composers
  PROVE  IntentInv' /\ LoopInv' /\ SentAsShown'
<1>1. /\ pc = "select" /\ pc' = "drive" /\ request' = Nothing /\ intent' = Nothing
      /\ UNCHANGED <<open, shown, tdOpens>>
  BY DEF Event, LoopInv
<1>2. LoopInv'
  BY <1>1 DEF LoopInv
<1>3. IntentInv'
  BY <1>1 DEF IntentInv, Meant, Intents
<1> QED
  BY <1>1, <1>2, <1>3 DEF SentAsShown

\* The drives leave the pane on the open chat and send what was meant.
LEMMA DriveStep ==
  ASSUME IntentInv, LoopInv, FocusInv, Drive
  PROVE  IntentInv' /\ LoopInv' /\ SentAsShown'
<1>1. /\ pc = "drive" /\ pc' = "select" /\ open' = OpenChatId /\ intent' = Nothing
      /\ shown' = IF open' # open /\ open' # NoChat THEN open' ELSE shown
      /\ tdOpens' = IF open' = open THEN tdOpens ELSE OpenCount(open, open')
      /\ request' = Sent(open') /\ UNCHANGED <<view, focus, composer>>
  BY DEF Drive, listVars
<1>2. OpenChatId \in AnyChat
  BY ViewFacts DEF FocusInv, OpenChatId, AnyChat
<1>3. LoopInv'
  <2>1. OpenChatId' = OpenChatId
    BY <1>1 DEF OpenChatId, SelectedChat, ActiveChats
  <2>2. shown' \in AnyChat /\ (open' # NoChat => shown' = open')
    BY <1>1, <1>2 DEF LoopInv
  <2>3. CASE open' = open
    BY <1>1, <1>2, <2>1, <2>2, <2>3 DEF LoopInv
  <2>4. CASE open' # open
    <3>1. tdOpens' = OpenCount(open, open')
      BY <1>1, <2>4
    <3>2. ASSUME NEW c \in Chats
          PROVE  tdOpens'[c] = IF c = open' THEN 1 ELSE 0
      <4>1. tdOpens[c] = IF c = open THEN 1 ELSE 0
        BY DEF LoopInv
      <4>2. tdOpens'[c] = (tdOpens[c] + IF c = open' THEN 1 ELSE 0) - IF c = open THEN 1 ELSE 0
        BY <3>1 DEF OpenCount
      <4> QED
        BY <2>4, <4>1, <4>2
    <3>3. tdOpens' \in [Chats -> Nat]
      <4>1. DOMAIN tdOpens' = Chats /\ tdOpens' = [c \in Chats |-> tdOpens'[c]]
        BY <3>1 DEF OpenCount
      <4> QED
        BY <3>2, <4>1
    <3> QED
      BY <1>1, <1>2, <2>1, <2>2, <3>2, <3>3 DEF LoopInv
  <2> QED
    BY <2>3, <2>4
<1>4. request' \in Intents
  <2>1. CASE intent = Nothing \/ intent.to # NoChat
    BY <1>1, <2>1 DEF Sent, IntentInv
  <2>2. CASE intent # Nothing /\ intent.to = NoChat
    <3>1. intent \in [kind : Acts, from : AnyChat, to : AnyChat, meant : AnyChat]
      BY <2>2, IntentFacts DEF IntentInv
    <3>2. [intent EXCEPT !.to = open'] \in Intents
      BY <1>1, <1>2, <3>1 DEF Intents
    <3> QED
      BY <1>1, <2>2, <3>2 DEF Sent, Intents
  <2> QED
    BY <2>1, <2>2
<1>5. IntentInv'
  <2>1. Meant(intent)'
    BY <1>1 DEF Meant
  <2>2. Nothing \in Intents
    BY DEF Intents
  <2> QED
    BY <1>1, <1>4, <2>1, <2>2 DEF IntentInv
<1>6. SentAsShown'
  <2> SUFFICES ASSUME request' # Nothing
               PROVE  request'.meant = IF request'.kind \in {"compose", "reply", "edit", "media"}
                                       THEN request'.to ELSE request'.from
    BY DEF SentAsShown
  <2>1. intent # Nothing /\ open' = open
    BY <1>1 DEF Sent, LoopInv
  <2>2. intent \in [kind : Acts, from : AnyChat, to : AnyChat, meant : AnyChat]
    BY <2>1, IntentFacts DEF IntentInv
  <2>3. CASE intent.to # NoChat
    BY <1>1, <2>1, <2>3 DEF Sent, IntentInv, Meant
  <2>4. CASE intent.to = NoChat
    <3>1. open' # NoChat /\ request' = [intent EXCEPT !.to = open']
      BY <1>1, <2>1, <2>4 DEF Sent
    <3>2. /\ request'.kind = intent.kind /\ request'.meant = intent.meant
          /\ request'.from = intent.from /\ request'.to = open'
      BY <2>2, <3>1
    <3>3. shown = open'
      BY <2>1, <3>1 DEF LoopInv
    <3> QED
      BY <2>1, <3>2, <3>3 DEF IntentInv, Meant
  <2> QED
    BY <2>3, <2>4
<1> QED
  BY <1>3, <1>5, <1>6

\* Every step keeps the intent, the pane and what was sent in agreement.
LEMMA SendStep ==
  ASSUME IntentInv, LoopInv, FocusInv, OverlayInv, SentAsShown, [Next]_vars
  PROVE  IntentInv' /\ LoopInv' /\ SentAsShown'
<1>0. /\ composer' \in Composers
      /\ pc = "select" => intent = Nothing
      /\ shown \in AnyChat /\ NoChat \in AnyChat
  BY ComposerStep DEF LoopInv, AnyChat
<1>1. CASE Submit
  <2> DEFINE act == Act(composer.mode, composer.target, NoChat, shown)
  <2>1. Event /\ UNCHANGED <<view, focus>> /\ intent' = act
    BY <1>1 DEF Submit, Browsing, listVars
  <2>2. composer.mode \in {"compose", "reply", "edit"} /\ composer.target \in AnyChat
    BY DEF IntentInv, Composers
  <2>3. act \in Intents
    BY <1>0, <2>2, ActFacts DEF Acts
  <2>4. Meant(act)
    BY <2>2 DEF Meant, Act
  <2> HIDE DEF act
  <2> QED
    BY <1>0, <2>1, <2>3, <2>4, ChooseStep
<1>2. CASE ConfirmDelete
  <2> DEFINE act == Act("delete", overlay.chat, overlay.chat, overlay.chat)
  <2>1. Event /\ UNCHANGED <<view, focus>> /\ intent' = act /\ overlay.chat \in AnyChat
    BY <1>2 DEF ConfirmDelete, Under, Confirmed, listVars, OverlayInv
  <2>2. act \in Intents
    BY <2>1, ActFacts DEF Acts
  <2>3. Meant(act)
    BY DEF Meant, Act
  <2> HIDE DEF act
  <2> QED
    BY <1>0, <2>1, <2>2, <2>3, ChooseStep
<1>3. CASE ConfirmForward
  <2> DEFINE to == SelectedChat(overlay.picker)
             act == Act("forward", overlay.chat, to, overlay.chat)
  <2>1. Event /\ UNCHANGED <<view, focus>> /\ intent' = IF to = NoChat THEN Nothing ELSE act
    BY <1>3 DEF ConfirmForward, Under, Confirmed, listVars
  <2>2. overlay.chat \in AnyChat /\ to \in AnyChat
    BY <1>3, ViewFacts DEF ConfirmForward, Under, OverlayInv
  <2>3. act \in Intents
    BY <2>2, ActFacts DEF Acts
  <2>4. Meant(act) /\ Meant(Nothing) /\ Nothing \in Intents
    BY DEF Meant, Act, Intents
  <2> HIDE DEF act, to
  <2> QED
    BY <1>0, <2>1, <2>3, <2>4, ChooseStep
<1>4. CASE ConfirmReaction
  <2> DEFINE act == Act("reaction", shown, shown, shown)
  <2>1. Event /\ UNCHANGED <<view, focus>> /\ intent' = IF shown = NoChat THEN Nothing ELSE act
    BY <1>4 DEF ConfirmReaction, Under, Confirmed, listVars
  <2>2. act \in Intents
    BY <1>0, ActFacts DEF Acts
  <2>3. Meant(act) /\ Meant(Nothing) /\ Nothing \in Intents
    BY DEF Meant, Act, Intents
  <2> HIDE DEF act
  <2> QED
    BY <1>0, <2>1, <2>2, <2>3, ChooseStep
<1>5. CASE ConfirmMedia
  <2> DEFINE act == Act("media", NoChat, NoChat, shown)
  <2>1. Event /\ UNCHANGED <<view, focus>> /\ intent' = act
    BY <1>5 DEF ConfirmMedia, Under, Confirmed, listVars
  <2>2. act \in Intents
    BY <1>0, ActFacts DEF Acts
  <2>3. Meant(act)
    BY DEF Meant, Act
  <2> HIDE DEF act
  <2> QED
    BY <1>0, <2>1, <2>2, <2>3, ChooseStep
<1>6. CASE PinToggle
  <2> DEFINE act == Act("pin", shown, shown, shown)
  <2>1. Event /\ UNCHANGED <<view, focus>> /\ intent' = act
    BY <1>6 DEF PinToggle, Browsing, listVars
  <2>2. act \in Intents
    BY <1>0, ActFacts DEF Acts
  <2>3. Meant(act)
    BY DEF Meant, Act
  <2> HIDE DEF act
  <2> QED
    BY <1>0, <2>1, <2>2, <2>3, ChooseStep
<1>7. CASE Drive
  BY <1>7, DriveStep
<1>8. CASE Event /\ intent' = intent
  BY <1>0, <1>8, IdleStep
<1>9. CASE UNCHANGED <<appVars, pc, loopVars>>
  <2>1. OpenChatId' = OpenChatId
    BY <1>9 DEF OpenChatId, SelectedChat, ActiveChats, appVars, listVars
  <2> QED
    BY <1>9, <2>1 DEF IntentInv, LoopInv, SentAsShown, Meant, appVars, loopVars
<1>10. \/ Submit \/ ConfirmDelete \/ ConfirmForward \/ ConfirmReaction \/ ConfirmMedia
       \/ PinToggle \/ Drive \/ (Event /\ intent' = intent)
       \/ UNCHANGED <<appVars, pc, loopVars>>
  <2> DEFINE idle == Event /\ intent' = intent
             quiet == UNCHANGED <<appVars, pc, loopVars>>
  <2>1. Bump \/ Leave \/ SetFolders \/ UNCHANGED vars => quiet
    BY DEF Bump, Leave, SetFolders, Moved, vars
  <2>2. Reproject \/ Tick \/ MoveCursor \/ SwitchList \/ CycleFocus \/ SetFocus => idle
    BY DEF Reproject, Tick, MoveCursor, SwitchList, CycleFocus, SetFocus, Browsing, appVars
  <2>3. ToggleCollapse \/ OpenChat \/ Write \/ TargetMessage => idle
    BY DEF ToggleCollapse, OpenChat, Write, TargetMessage, Browsing
  <2>4. OpenOverlay \/ CancelOverlay \/ PickTarget => idle
    BY DEF OpenOverlay, CancelOverlay, PickTarget, Browsing, Under
  <2> QED
    BY <2>1, <2>2, <2>3, <2>4 DEF Next
<1> QED
  BY <1>1, <1>2, <1>3, <1>4, <1>5, <1>6, <1>7, <1>8, <1>9, <1>10

-----------------------------------------------------------------------------
\* The parts together.
LEMMA InitInv == Init => IInv
<1> SUFFICES ASSUME Init PROVE IInv
  OBVIOUS
<1> USE DEF Init
<1> DEFINE all == SetToSeq(Chats)
<1>1. all \in Seq(Chats) /\ IsInjective(all)
  <2>1. Cardinality(Chats) \in Nat /\ \E f \in [1 .. Cardinality(Chats) -> Chats] : IsInjective(f)
    BY FS_CardinalityType DEF ExistsBijection, Bijection, Injection
  <2>2. all \in [1 .. Cardinality(Chats) -> Chats] /\ IsInjective(all)
    BY <2>1 DEF SetToSeq
  <2> QED
    BY <2>1, <2>2
<1> HIDE DEF all
<1>2. "main" \in Kinds /\ "archive" \in Kinds
  BY DEF Kinds
<1>3. << >> \in Seq(Chats) /\ IsInjective(<< >>) /\ Len(<< >>) = 0
  BY DEF IsInjective
<1>4. StoreInv
  <2> DEFINE main == [kind |-> "main", chats |-> all]
             archive == [kind |-> "archive", chats |-> << >>]
  <2>1. /\ main \in List /\ IsInjective(main.chats)
        /\ archive \in List /\ IsInjective(archive.chats)
    BY <1>1, <1>2, <1>3 DEF List
  <2>2. stored = <<main, archive>> /\ moves = 0
    BY DEF all
  <2> HIDE DEF main, archive
  <2> QED
    BY <2>1, <2>2 DEF StoreInv, Unrepeated
<1>5. FocusInv
  <2> DEFINE main == [kind |-> "main", chats |-> << >>]
  <2>1. main \in List /\ IsInjective(main.chats)
    BY <1>2, <1>3 DEF List
  <2>2. view = [lists |-> <<main>>, active |-> 1, selected |-> 0] /\ main.chats = << >>
    OBVIOUS
  <2> HIDE DEF main
  <2>3. View(view)
    BY <2>1, <2>2 DEF View, ActiveChats, Unrepeated
  <2> QED
    BY <2>3 DEF FocusInv, Panes
<1>6. OverlayInv
  BY DEF OverlayInv, NoOverlay
<1>7. IntentInv
  BY DEF IntentInv, Blank, Composers, Intents, AnyChat, Meant
<1>8. LoopInv
  BY DEF LoopInv, OpenChatId, AnyChat
<1>9. SentAsShown
  BY DEF SentAsShown
<1> QED
  BY <1>4, <1>5, <1>6, <1>7, <1>8, <1>9 DEF IInv

\* The lists, the views, the overlays, the intents and the loop stay as the inductive
\* invariant has them.
THEOREM CockpitInductive == Spec => []IInv
<1>1. Init => IInv
  BY InitInv
<1>2. IInv /\ [Next]_vars => IInv'
  BY StoreStep, FocusStep, OverlayStep, SendStep DEF IInv
<1> QED
  BY <1>1, <1>2, PTL DEF Spec

\* The pane shows the open chat, which alone is open for TDLib, and the cursor is on a
\* row (drive_open_chat, ChatListView::project); the state being well typed.
THEOREM PaneIsOpenChatHolds == Spec => []PaneIsOpenChat
<1>1. IInv => TypeOK
  <2> SUFFICES ASSUME IInv PROVE TypeOK
    OBVIOUS
  <2>1. ASSUME NEW lists \in Seq(List), Unrepeated(lists), NEW k \in 1 .. Len(lists)
        PROVE  IsList(lists[k])
    <3>1. lists[k] \in List
      OBVIOUS
    <3>2. IsInjective(lists[k].chats)
      BY <2>1 DEF Unrepeated
    <3> QED
      BY <3>1, <3>2 DEF List, IsList
  <2>2. \A k \in 1 .. Len(stored) : IsList(stored[k])
    BY <2>1 DEF IInv, StoreInv
  <2>3. \A k \in 1 .. Len(view.lists) : IsList(view.lists[k])
    BY <2>1 DEF IInv, FocusInv, View
  <2>4. /\ view.active \in 1 .. Len(view.lists) /\ moves \in 0 .. MaxMoves
        /\ composer \in Composers /\ intent \in Intents /\ request \in Intents
    BY DEF IInv, FocusInv, View, StoreInv, IntentInv
  <2>5. /\ collapsed \in BOOLEAN /\ focus \in {"list", "history", "composer"}
        /\ collapsed => focus # "list"
    BY Zenon DEF IInv, FocusInv, Panes
  <2>6. overlay.kind \in {"none", "delete", "forward", "reaction", "media"}
    BY DEF IInv, OverlayInv
  <2>7. /\ pc \in {"select", "drive"} /\ open \in AnyChat /\ shown \in AnyChat
        /\ tdOpens \in [Chats -> Nat]
    BY DEF IInv, LoopInv
  <2> QED
    BY Zenon, <2>2, <2>3, <2>4, <2>5, <2>6, <2>7 DEF TypeOK
<1>2. IInv => CursorOnARow
  BY DEF IInv, FocusInv, View, CursorOnARow
<1>3. IInv => /\ open # NoChat => shown = open
              /\ \A c \in Chats : tdOpens[c] = IF c = open THEN 1 ELSE 0
  BY DEF IInv, LoopInv
<1> QED
  BY <1>1, <1>2, <1>3, CockpitInductive, PTL DEF PaneIsOpenChat

\* What is sent is what the user saw when they gave it (the drives of lib.rs).
THEOREM SentAsShownHolds == Spec => []SentAsShown
<1>1. IInv => SentAsShown
  BY DEF IInv
<1> QED
  BY <1>1, CockpitInductive, PTL

\* A re-projection leaves the user in the list they were in, if it is there
\* (ChatListView::project).
THEOREM StaysInListHolds == Spec => StaysInList
<1> DEFINE Stays == LET kind == view.lists[view.active].kind IN
                      view'.lists # view.lists =>
                        \/ view'.lists[view'.active].kind = kind
                        \/ \A k \in 1 .. Len(view'.lists) : view'.lists[k].kind # kind
<1>1. IInv /\ [Next]_vars => [Stays]_vars
  <2> SUFFICES ASSUME IInv, [Next]_vars
               PROVE  Stays
    OBVIOUS
  <2>1. CASE Reproject
    <3>1. view' = Project(view, stored)
      BY <2>1 DEF Reproject
    <3> QED
      BY <3>1, ProjectFacts DEF IInv, FocusInv
  <2>2. CASE view'.lists = view.lists
    BY <2>2
  <2>3. Reproject \/ view'.lists = view.lists
    <3>1. view \in [lists : Seq(List), active : Nat, selected : Nat]
      BY DEF IInv, FocusInv, View
    <3>2. MoveCursor => view'.lists = view.lists
      BY <3>1 DEF MoveCursor, SelectNext, SelectPrev
    <3>3. SwitchList => view'.lists = view.lists
      BY <3>1 DEF SwitchList, GoToList
    <3>4. OpenChat => view'.lists = view.lists
      BY <3>1 DEF OpenChat, SelectChat
    <3>5. Bump \/ Leave \/ SetFolders \/ Tick \/ Write \/ Submit \/ UNCHANGED vars
            => UNCHANGED view
      BY DEF Bump, Leave, SetFolders, Moved, Tick, Write, Submit, vars, appVars, listVars
    <3>6. CycleFocus \/ SetFocus \/ ToggleCollapse \/ TargetMessage \/ Drive => UNCHANGED view
      BY DEF CycleFocus, SetFocus, ToggleCollapse, TargetMessage, Drive, listVars
    <3>7. OpenOverlay \/ CancelOverlay \/ PickTarget \/ PinToggle => UNCHANGED view
      BY DEF OpenOverlay, CancelOverlay, PickTarget, PinToggle, listVars
    <3>8. ConfirmDelete \/ ConfirmForward \/ ConfirmReaction \/ ConfirmMedia => UNCHANGED view
      BY DEF ConfirmDelete, ConfirmForward, ConfirmReaction, ConfirmMedia, Confirmed, listVars
    <3> QED
      BY <3>2, <3>3, <3>4, <3>5, <3>6, <3>7, <3>8 DEF Next
  <2> QED
    BY <2>1, <2>2, <2>3
<1> QED
  BY <1>1, CockpitInductive, PTL DEF Spec, StaysInList

=============================================================================
